----------------------- MODULE ExecutionWorkerProofs -----------------------
(***************************************************************************)
(* What ExecutionWorker guarantees for any number of jobs, runners and     *)
(* workers, whoever shares a worker name, and any limit of attempts.       *)
(***************************************************************************)
EXTENDS ExecutionWorker, ExecutionQueueProofs

(* The queue under the runners *)

\* A fenced operation is called with the generation of the row.
LEMMA CurrentClaim ==
  ASSUME QueueTypeOK, NEW j \in Jobs, NEW w, NEW g, OwnsClaim(j, w, g)
  PROVE  g \in 0 .. jobs[j].gen
  <1>1. jobs[j].gen \in Nat
    BY DEF QueueTypeOK, Job
  <1> QED
    BY <1>1 DEF OwnsClaim

\* Every operation of a runner is an operation of the queue.
LEMMA FencedCall ==
  ASSUME QueueTypeOK, NEW j \in Jobs, NEW w \in Workers, NEW g, ClaimOperation(j, w, g)
  PROVE  QueueNext
  <1>1. OwnsClaim(j, w, g)
    BY DEF ClaimOperation, begin_executing_started, mark_outcome_unknown_started,
           begin_finalizing_started, finish_finalizing_started, set_finalizing_failure,
           mark_outcome_unknown_finalizing, prepare_outcome_tail,
           begin_cancellation_cleanup, acknowledge_canceled
  <1>2. g \in 0 .. jobs[j].gen
    BY <1>1, CurrentClaim
  <1> QED
    BY <1>2 DEF QueueNext

\* Only a handler with a job takes a step of its own.
LEMMA NotIdle ==
  ASSUME WorkerTypeOK, NEW r \in Runners, RunnerStep(r) \/ Crash(r)
  PROVE  on[r] \in Jobs
  <1>1. pc[r] # "idle"
    BY DEF RunnerStep, Crash, FailPrecommit, CommitWithConsumedToken, Commit,
       PerformEffect, EndWithoutEffect, RetrySafeError, AppendOutcome, RecordToolStatus, RecordStatusEarly,
       StorageError, ReconcileAfterError, BeginFinalizing, RecordUnknownEvidence,
       MarkUnknown, ReconcileSuccess, ReconcileFailure, RecordRetryTail,
       RetryTailRefused, RecordFailedTail, PrepareTail, TailRecorded, Finish, PublishTail,
       BeginCleanup, RecordCanceled, AcknowledgeCanceled, Abandon, WorkingPCs,
       ExecutingPCs, FinalizingPCs, CancelPCs
  <1> QED
    BY <1>1 DEF WorkerTypeOK

LEMMA RunnerQueueStep ==
  ASSUME WorkerTypeOK, NEW r \in Runners, RunnerStep(r) \/ Crash(r)
  PROVE  [QueueNext]_jobs
  <1> DEFINE j == on[r]
             w == WorkerOf[r]
             g == claim[r].gen
  <1>1. /\ j \in Jobs /\ w \in Workers /\ QueueTypeOK
        /\ claim[r].error \in BOOLEAN
    BY WorkerAssumption, NotIdle DEF WorkerTypeOK, Job
  <1>2. Retryable(r) \in BOOLEAN
    BY <1>1 DEF Retryable
  <1>3. \/ UNCHANGED jobs \/ mark_outcome_published(j) \/ ClaimOperation(j, w, g)
    <2>1. CASE FailPrecommit(r)
      BY <2>1 DEF FailPrecommit, ClaimOperation
    <2>2. CASE CommitWithConsumedToken(r) \/ Commit(r)
      BY <2>2 DEF CommitWithConsumedToken, Commit, ClaimOperation
    <2>3. CASE RetrySafeError(r)
      BY <2>3 DEF RetrySafeError, ClaimOperation
    <2>4. CASE BeginFinalizing(r)
      BY <2>4 DEF BeginFinalizing, ClaimOperation
    <2>5. CASE MarkUnknown(r)
      BY <2>5 DEF MarkUnknown, ClaimOperation
    <2>6. CASE ReconcileFailure(r)
      BY <2>6 DEF ReconcileFailure, ClaimOperation
    <2>7. CASE PrepareTail(r)
      BY <2>7 DEF PrepareTail, ClaimOperation
    <2>8. CASE Finish(r)
      BY <2>8, <1>2 DEF Finish, ClaimOperation
    <2>9. CASE PublishTail(r)
      BY <2>9 DEF PublishTail
    <2>10. CASE BeginCleanup(r) \/ AcknowledgeCanceled(r)
      BY <2>10 DEF BeginCleanup, AcknowledgeCanceled, ClaimOperation
    <2>11. CASE \/ PerformEffect(r) \/ EndWithoutEffect(r) \/ AppendOutcome(r)
                \/ RecordToolStatus(r) \/ RecordStatusEarly(r) \/ StorageError(r) \/ ReconcileAfterError(r)
                \/ RecordUnknownEvidence(r) \/ ReconcileSuccess(r) \/ RecordRetryTail(r)
                \/ RetryTailRefused(r) \/ RecordFailedTail(r) \/ RecordCanceled(r)
                \/ Abandon(r) \/ Crash(r)
      BY <2>11 DEF PerformEffect, EndWithoutEffect, AppendOutcome, RecordToolStatus, RecordStatusEarly,
         StorageError, ReconcileAfterError, RecordUnknownEvidence, ReconcileSuccess,
         RecordRetryTail, RetryTailRefused, RecordFailedTail, RecordCanceled, Abandon,
         Crash
    <2> QED
      BY <2>1, <2>2, <2>3, <2>4, <2>5, <2>6, <2>7, <2>8, <2>9, <2>10, <2>11
         DEF RunnerStep
  <1> QED
    BY <1>1, <1>3, FencedCall DEF QueueNext
LEMMA WorkerQueueStep == WorkerTypeOK /\ [WorkerNext]_vars => [QueueNext]_jobs
  <1> SUFFICES ASSUME WorkerTypeOK, [WorkerNext]_vars PROVE [QueueNext]_jobs
    OBVIOUS
  <1>1. CASE UNCHANGED vars
    BY <1>1 DEF vars
  <1>2. ASSUME NEW j \in Jobs, EnqueueApproved(j) \/ RequestCancel(j) \/ Expire(j)
        PROVE  QueueNext
    BY <1>2 DEF EnqueueApproved, RequestCancel, Expire, QueueNext
  <1>3. ASSUME NEW r \in Runners, NEW j \in Jobs,
               Acquisition(r, j) \/ AdoptCancellation(r, j) \/ ClaimPublication(r, j)
        PROVE  [QueueNext]_jobs
    <2>1. WorkerOf[r] \in Workers
      BY WorkerAssumption
    <2> QED
      BY <1>3, <2>1 DEF Acquisition, ClaimStart, ClaimFinalizing, ClaimExpiredExecuting,
         ClaimCancellation, AdoptCancellation, ClaimPublication, QueueNext, Acquire
  <1> QED
    BY <1>1, <1>2, <1>3, RunnerQueueStep DEF WorkerNext

-----------------------------------------------------------------------------
(* Types *)

\* Where a handler goes and what it remembers.
LEMMA RunnerTypes ==
  ASSUME WorkerTypeOK, QueueTypeOK', NEW r \in Runners
  PROVE  /\ \A p \in PCs : GoTo(r, p) => pc' \in [Runners -> PCs]
         /\ \A p \in PCs : GoTo(r, p) =>
               pc'[r] = p /\ \A s \in Runners : s # r => pc'[s] = pc[s]
         /\ \A p \in PCs, j \in Jobs : Take(r, j, p) =>
               /\ on' \in [Runners -> Jobs \cup {NoWorker}]
               /\ claim' \in [Runners -> Job]
               /\ on'[r] = j /\ \A s \in Runners : s # r => on'[s] = on[s]
         /\ \A p \in PCs : Advance(r, p) /\ on[r] \in Jobs =>
               on' = on /\ claim' \in [Runners -> Job]
         /\ Leave(r) =>
               /\ on' \in [Runners -> Jobs \cup {NoWorker}]
               /\ claim' \in [Runners -> Job]
               /\ \A s \in Runners : s # r => on'[s] = on[s]
  <1>1. NoJob \in Job
    BY DEF NoJob, Job, Statuses, Stages
  <1>2. \A j \in Jobs : jobs'[j] \in Job
    BY DEF QueueTypeOK
  <1> QED
    BY <1>1, <1>2 DEF WorkerTypeOK, GoTo, Take, Advance, Leave

\* A handler moves to a known place, with a job unless it is idle.
RunnerTypeOK ==
    /\ pc \in [Runners -> PCs]
    /\ on \in [Runners -> Jobs \cup {NoWorker}]
    /\ \A r \in Runners : pc[r] # "idle" => on[r] \in Jobs
    /\ claim \in [Runners -> Job]

LEMMA GoToTypes ==
  ASSUME WorkerTypeOK, QueueTypeOK', NEW r \in Runners, NEW p \in PCs,
         GoTo(r, p), on[r] \in Jobs, UNCHANGED <<on, claim>>
  PROVE  RunnerTypeOK'
  BY RunnerTypes DEF WorkerTypeOK, RunnerTypeOK

LEMMA AdvanceTypes ==
  ASSUME WorkerTypeOK, QueueTypeOK', NEW r \in Runners, NEW p \in PCs,
         Advance(r, p), on[r] \in Jobs
  PROVE  RunnerTypeOK'
  BY RunnerTypes DEF WorkerTypeOK, RunnerTypeOK, Advance

LEMMA TakeTypes ==
  ASSUME WorkerTypeOK, QueueTypeOK', NEW r \in Runners, NEW p \in PCs, NEW j \in Jobs,
         Take(r, j, p)
  PROVE  RunnerTypeOK'
  BY RunnerTypes DEF WorkerTypeOK, RunnerTypeOK, Take

LEMMA LeaveTypes ==
  ASSUME WorkerTypeOK, QueueTypeOK', NEW r \in Runners, Leave(r)
  PROVE  RunnerTypeOK'
  <1>1. "idle" \in PCs /\ GoTo(r, "idle")
    BY DEF PCs, Leave
  <1> QED
    BY <1>1, RunnerTypes DEF WorkerTypeOK, RunnerTypeOK

RecordTypeOK ==
    /\ log \subseteq Event
    /\ toolStatus \in [Jobs -> {"running", "completed", "failed"}]
    /\ effects \in [Jobs -> Nat]

LEMMA RecordTypes ==
  ASSUME WorkerTypeOK
  PROVE  /\ UNCHANGED recordVars => RecordTypeOK'
         /\ \A k \in Kinds, j \in Jobs, a, g \in Nat, w \in Workers \cup {NoWorker} :
               append_event_once(EventOf(j, k, a, g, w)) => log' \subseteq Event
         /\ \A j \in Jobs, st \in {"running", "completed", "failed"} :
               set_tool_status(j, st) =>
                  toolStatus' \in [Jobs -> {"running", "completed", "failed"}]
  BY DEF WorkerTypeOK, RecordTypeOK, recordVars, append_event_once, EventOf, Event,
         set_tool_status

\* The parts of a claim that events carry.
LEMMA ClaimParts ==
  ASSUME WorkerTypeOK, NEW r \in Runners
  PROVE  /\ claim[r].attempt \in Nat /\ claim[r].gen \in Nat /\ 0 \in Nat
         /\ claim[r].worker \in Workers \cup {NoWorker}
         /\ WorkerOf[r] \in Workers \cup {NoWorker}
         /\ NoWorker \in Workers \cup {NoWorker}
  BY WorkerAssumption DEF WorkerTypeOK, Job

LEMMA RunnerTypeStep ==
  ASSUME WorkerTypeOK, QueueTypeOK', NEW r \in Runners, on[r] \in Jobs,
         RunnerStep(r) \/ Crash(r)
  PROVE  RunnerTypeOK' /\ RecordTypeOK'
  <1> DEFINE tool == {"running", "completed", "failed"}
  <1> USE RecordTypes, ClaimParts
  <1>1. /\ {"idle", "finalizing", "unknown", "executing", "succeeded", "rejected", "errored",
            "result_recorded", "error_recorded", "settle_ok", "settle_known",
            "mark_unknown", "reconcile_unknown", "tail_done", "prepared", "publish",
            "cleanup", "ack", "canceling"} \subseteq PCs
        /\ Kinds = {"tool.result", "tool.error", "execution.retry_queued",
             "execution.outcome_unknown", "execution.canceled",
             "execution.completed", "execution.failed"}
    BY DEF PCs, WorkingPCs, ExecutingPCs, FinalizingPCs, CancelPCs, Kinds
  <1>2. CASE FailPrecommit(r) \/ RetrySafeError(r) \/ BeginFinalizing(r)
    <2>1. Advance(r, "finalizing") /\ UNCHANGED recordVars
      BY <1>2 DEF FailPrecommit, RetrySafeError, BeginFinalizing
    <2> QED
      BY <1>1, <2>1, AdvanceTypes
  <1>3. CASE CommitWithConsumedToken(r) \/ Commit(r)
    BY <1>1, <1>3, AdvanceTypes DEF CommitWithConsumedToken, Commit
  <1>4. CASE PerformEffect(r)
    <2>1. RunnerTypeOK'
      BY <1>1, <1>4, GoToTypes DEF PerformEffect
    <2>2. RecordTypeOK'
      BY <1>4 DEF PerformEffect, WorkerTypeOK, RecordTypeOK
    <2> QED
      BY <2>1, <2>2
  <1>5. CASE EndWithoutEffect(r) \/ StorageError(r)
    BY <1>1, <1>5, GoToTypes DEF EndWithoutEffect, StorageError
  <1>6. CASE AppendOutcome(r)
    <2>1. RunnerTypeOK'
      BY <1>1, <1>6, GoToTypes DEF AppendOutcome
    <2>2. log' \subseteq Event
      BY <1>1, <1>6 DEF AppendOutcome, OutcomeEvent
    <2> QED
      BY <1>6, <2>1, <2>2 DEF AppendOutcome, WorkerTypeOK, RecordTypeOK
  <1>7. CASE RecordToolStatus(r) \/ RecordStatusEarly(r)
    <2>1. RunnerTypeOK'
      BY <1>1, <1>7, GoToTypes DEF RecordToolStatus, RecordStatusEarly
    <2>2. toolStatus' \in [Jobs -> tool]
      BY <1>7 DEF RecordToolStatus, RecordStatusEarly
    <2> QED
      BY <1>7, <2>1, <2>2 DEF RecordToolStatus, RecordStatusEarly, WorkerTypeOK, RecordTypeOK
  <1>8. CASE ReconcileAfterError(r)
    <2>1. RunnerTypeOK'
      BY <1>1, <1>8, GoToTypes DEF ReconcileAfterError
    <2>2. toolStatus' \in [Jobs -> tool]
      BY <1>8 DEF ReconcileAfterError, WorkerTypeOK
    <2> QED
      BY <1>8, <2>1, <2>2 DEF ReconcileAfterError, WorkerTypeOK, RecordTypeOK
  <1>9. CASE RecordUnknownEvidence(r)
    <2>1. RunnerTypeOK'
      BY <1>1, <1>9, GoToTypes DEF RecordUnknownEvidence
    <2>2. log' \subseteq Event
      BY <1>1, <1>9 DEF RecordUnknownEvidence, UnknownEvent
    <2> QED
      BY <1>9, <2>1, <2>2 DEF RecordUnknownEvidence, WorkerTypeOK, RecordTypeOK
  <1>10. CASE MarkUnknown(r) \/ RetryTailRefused(r) \/ AcknowledgeCanceled(r) \/ Crash(r)
    <2>1. Leave(r) /\ UNCHANGED recordVars
      BY <1>10 DEF MarkUnknown, RetryTailRefused, AcknowledgeCanceled, Crash
    <2> QED
      BY <2>1, LeaveTypes
  <1>11. CASE ReconcileSuccess(r)
    <2>1. RunnerTypeOK'
      BY <1>1, <1>11, GoToTypes DEF ReconcileSuccess
    <2>2. toolStatus' \in [Jobs -> tool]
      BY <1>11 DEF ReconcileSuccess
    <2> QED
      BY <1>11, <2>1, <2>2 DEF ReconcileSuccess, WorkerTypeOK, RecordTypeOK
  <1>12. CASE ReconcileFailure(r)
    <2>1. RunnerTypeOK'
      BY <1>1, <1>12, AdvanceTypes DEF ReconcileFailure
    <2>2. toolStatus' \in [Jobs -> tool]
      BY <1>12 DEF ReconcileFailure
    <2> QED
      BY <1>12, <2>1, <2>2 DEF ReconcileFailure, WorkerTypeOK, RecordTypeOK
  <1>13. CASE RecordRetryTail(r)
    <2>1. RunnerTypeOK'
      BY <1>1, <1>13, GoToTypes DEF RecordRetryTail
    <2>2. log' \subseteq Event
      BY <1>1, <1>13 DEF RecordRetryTail, RetryEvent
    <2> QED
      BY <1>13, <2>1, <2>2 DEF RecordRetryTail, WorkerTypeOK, RecordTypeOK
  <1>14. CASE RecordFailedTail(r)
    <2>1. RunnerTypeOK'
      BY <1>1, <1>14, GoToTypes DEF RecordFailedTail
    <2>2. log' \subseteq Event
      BY <1>1, <1>14 DEF RecordFailedTail, FailedEvent, WorkerTypeOK
    <2>3. toolStatus' \in [Jobs -> tool]
      BY <1>14 DEF RecordFailedTail
    <2> QED
      BY <1>14, <2>1, <2>2, <2>3 DEF RecordFailedTail, WorkerTypeOK, RecordTypeOK
  <1>15. CASE PrepareTail(r)
    BY <1>1, <1>15, GoToTypes DEF PrepareTail
  <1>16. CASE Finish(r)
    <2>1. RunnerTypeOK'
      BY <1>1, <1>16, AdvanceTypes, LeaveTypes DEF Finish
    <2>2. TerminalEvents(on[r]) \subseteq Event
      <3>1. jobs'[on[r]] \in Job
        BY DEF QueueTypeOK
      <3> QED
        BY <1>1, <3>1 DEF TerminalEvents, EventOf, Event, Job
    <2> QED
      BY <1>16, <2>1, <2>2 DEF Finish, WorkerTypeOK, RecordTypeOK
  <1>17. CASE PublishTail(r)
    <2>1. RunnerTypeOK'
      BY <1>17, LeaveTypes DEF PublishTail
    <2>2. log' \subseteq Event
      BY <1>1, <1>17 DEF PublishTail, WorkerTypeOK
    <2> QED
      BY <1>17, <2>1, <2>2 DEF PublishTail, WorkerTypeOK, RecordTypeOK
  <1>18. CASE BeginCleanup(r)
    BY <1>1, <1>18, AdvanceTypes DEF BeginCleanup
  <1>19. CASE RecordCanceled(r)
    <2>1. RunnerTypeOK'
      BY <1>1, <1>19, GoToTypes DEF RecordCanceled
    <2>2. log' \subseteq Event
      BY <1>1, <1>19 DEF RecordCanceled, CanceledEvent
    <2> QED
      BY <1>19, <2>1, <2>2 DEF RecordCanceled, WorkerTypeOK, RecordTypeOK
  <1>20. CASE Abandon(r)
    BY <1>1, <1>20, AdvanceTypes, LeaveTypes DEF Abandon
  <1> QED
    BY <1>2, <1>3, <1>4, <1>5, <1>6, <1>7, <1>8, <1>9, <1>10, <1>11, <1>12, <1>13,
       <1>14, <1>15, <1>16, <1>17, <1>18, <1>19, <1>20 DEF RunnerStep

LEMMA WorkerTypeStep ==
  ASSUME WorkerTypeOK, QueueInv, [WorkerNext]_vars
  PROVE  WorkerTypeOK' /\ QueueInv'
  <1>1. QueueInv' /\ QueueTypeOK'
    BY WorkerQueueStep, QueueInvStep DEF QueueInv
  <1>2. RunnerTypeOK' /\ RecordTypeOK'
    <2>1. CASE UNCHANGED vars
      BY <2>1 DEF vars, WorkerTypeOK, RunnerTypeOK, RecordTypeOK
    <2>2. ASSUME NEW j \in Jobs, EnqueueApproved(j) \/ RequestCancel(j) \/ Expire(j)
          PROVE  RunnerTypeOK' /\ RecordTypeOK'
      BY <2>2 DEF EnqueueApproved, RequestCancel, Expire, runnerVars, recordVars,
                  WorkerTypeOK, RunnerTypeOK, RecordTypeOK
    <2>3. ASSUME NEW r \in Runners, NEW j \in Jobs,
                 Acquisition(r, j) \/ AdoptCancellation(r, j) \/ ClaimPublication(r, j)
          PROVE  RunnerTypeOK' /\ RecordTypeOK'
      <3>1. {"precommit", "reconcile", "finalizing", "canceling", "publish"} \subseteq PCs
        BY DEF PCs, WorkingPCs, FinalizingPCs, CancelPCs
      <3>2. PICK p \in PCs : Take(r, j, p) /\ UNCHANGED recordVars
        BY <2>3, <3>1 DEF Acquisition, ClaimStart, ClaimFinalizing, ClaimExpiredExecuting,
           ClaimCancellation, AdoptCancellation, ClaimPublication
      <3> QED
        BY <1>1, <3>2, TakeTypes, RecordTypes
    <2> QED
      BY <1>1, <2>1, <2>2, <2>3, NotIdle, RunnerTypeStep DEF WorkerNext
  <1> QED
    BY <1>1, <1>2 DEF WorkerTypeOK, RunnerTypeOK, RecordTypeOK

LEMMA WorkerTypeInit == WorkerInit => WorkerTypeOK /\ QueueInv
  <1> SUFFICES ASSUME WorkerInit PROVE WorkerTypeOK /\ QueueInv
    OBVIOUS
  <1>1. QueueInv
    BY QueueInvInit DEF WorkerInit
  <1>2. NoJob \in Job /\ "idle" \in PCs
    BY DEF NoJob, Job, Statuses, Stages, PCs
  <1> QED
    BY <1>1, <1>2 DEF WorkerInit, WorkerTypeOK, QueueInv

\* The rows, claims, events and tool statuses that the runners read and write
\* are of the kinds the code declares, in both backends.
THEOREM WorkerTypeCorrect == WorkerSpec => []WorkerTypeOK
  <1>1. WorkerInit => WorkerTypeOK /\ QueueInv
    BY WorkerTypeInit
  <1>2. WorkerTypeOK /\ QueueInv /\ [WorkerNext]_vars => (WorkerTypeOK /\ QueueInv)'
    BY WorkerTypeStep
  <1> QED
    BY <1>1, <1>2, PTL DEF WorkerSpec

\* The handlers only use the queue as ExecutionQueue allows any caller to: every
\* step of a runner is a step of the queue or leaves it alone.  What is proved
\* of the queue (final outcomes, exclusive leases, one commit per attempt)
\* therefore holds under the runners, in both backends.
THEOREM WorkerImplementsQueue == WorkerSpec => QueueSpec
  <1>1. WorkerInit => QueueInit
    BY DEF WorkerInit
  <1>2. WorkerTypeOK /\ [WorkerNext]_vars => [QueueNext]_jobs
    BY WorkerQueueStep
  <1> QED
    BY <1>1, <1>2, WorkerTypeCorrect, PTL DEF WorkerSpec, QueueSpec

-----------------------------------------------------------------------------
(***************************************************************************)
(* The inductive invariant, for Postgres.  What is on record about a job,  *)
(* out and unk, are its outcome events and its events of an unknown one.   *)
(***************************************************************************)
Outcomes(l, j) == {e \in l : e.job = j /\ e.kind \in {"tool.result", "tool.error"}}
Unknowns(l, j) == {e \in l : e.job = j /\ e.kind = "execution.outcome_unknown"}

Succeeded(out) == \E e \in out : e.kind = "tool.result"
Refused(out)   == \E e \in out : e.kind = "tool.error"
Evidence(unk, attempt) == \E e \in unk : e.attempt = attempt

PrecommitStages == {"precommit", "tool_precommit_retry"}

\* No attempt has committed to the action, or one that did took it back.
Uncommitted(row) ==
    \/ row.status \in {"absent", "queued", "running", "cancel_requested", "canceled"}
    \/ row.status \in {"finalizing", "failed"} /\ row.stage \in PrecommitStages

\* The row fails, or is failed, whoever finishes it.
Doomed(row) ==
    /\ row.error
    /\ \/ row.status = "failed"
       \/ row.status = "finalizing" /\ row.attempt >= MaxAttempts

\* The error flag and the stage of a row say the same.
StageOK(row) ==
    /\ row.status \in {"running", "executing", "completed"} => ~row.error
    /\ row.status \in {"finalizing", "failed"} /\ row.error =>
          row.stage \in PrecommitStages \cup {"tool_known_failure"}
    /\ row.status \in {"finalizing", "completed"} /\ ~row.error =>
          row.stage \in {"tool_execution", "outcome_reconciliation"}
    /\ row.status = "failed" => row.error
    /\ row.status = "absent" => row.gen = 0

\* What a row, the session's events, tool_calls.status and the outside world
\* say about one job.
RecordOK(row, out, unk, ts, eff) ==
    /\ StageOK(row)
    /\ Uncommitted(row) => eff = 0 /\ out = {}
    /\ eff \in {0, 1}
    /\ ~(Succeeded(out) /\ Refused(out))
    /\ \A e \in out : e.attempt = row.attempt /\ e.gen <= row.gen
    /\ Succeeded(out) => /\ eff = 1 /\ ~row.error
                         /\ row.status \in {"executing", "finalizing", "completed"}
    /\ (row.status = "completed" \/ (row.status = "finalizing" /\ row.stage = "tool_execution"))
          => Succeeded(out) /\ ts = "completed"
    /\ row.status \in {"finalizing", "failed"} /\ row.stage = "tool_known_failure"
          => Refused(out)
    /\ ts = "completed" => eff = 1 /\ ~Refused(out)
    /\ ts = "failed" => Refused(out) \/ Doomed(row)
    /\ row.status = "outcome_unknown" => Evidence(unk, row.attempt)

SettlingPCs == {"finalizing", "tail_done"}

StatusAt(p) ==
    IF p = "precommit" THEN "running"
    ELSE IF p \in ExecutingPCs THEN "executing"
    ELSE IF p \in FinalizingPCs THEN "finalizing" ELSE "cancel_requested"

\* A runner that still has the row's generation knows the row, but for the
\* lease and for a cancellation of an attempt that has not committed.
Informed(p, c, row) ==
    (c.gen = row.gen /\ p \in WorkingPCs) =>
        \/ /\ row.status = c.status /\ row.attempt = c.attempt
           /\ row.error = c.error /\ row.stage = c.stage
        \/ p = "precommit" /\ row.status \in {"cancel_requested", "canceled"}

\* What a runner at p with the claim c may rely on, whoever took its job over.
RunnerOK(p, c, row, out, unk, ts, eff) ==
    /\ p \in WorkingPCs \cup CancelPCs /\ p # "prepared"
    /\ c.status = StatusAt(p)
    /\ row.status # "absent"
    /\ c.gen <= row.gen
    /\ Informed(p, c, row)
    /\ p \in ExecutingPCs =>
          /\ ~Uncommitted(row) /\ row.attempt = c.attempt /\ ~c.error
          /\ \A e \in out : e.attempt = c.attempt /\ e.gen <= c.gen
    /\ p = "executing" => eff = 0
    /\ p \in {"executing", "succeeded", "rejected"} => out = {}
    /\ p \in {"succeeded", "result_recorded", "settle_ok"} => eff = 1
    /\ p \in {"result_recorded", "settle_ok"} => Succeeded(out)
    /\ p = "rejected" => ts # "completed"
    /\ p = "settle_ok" => ts = "completed"
    /\ p \in {"error_recorded", "settle_known"} => Refused(out)
    /\ p \in {"unknown", "mark_unknown", "reconcile_unknown"} => ~Succeeded(out)
    /\ p \in {"mark_unknown", "reconcile_unknown"} => Evidence(unk, c.attempt)
    /\ p \in {"reconcile", "reconcile_unknown"} =>
          /\ c.stage = "outcome_reconciliation" /\ ~c.error
          /\ ~Uncommitted(row) /\ row.status # "executing"
    /\ p \in SettlingPCs /\ ~c.error => Succeeded(out) /\ ts = "completed"
    /\ p \in SettlingPCs /\ c.error =>
          \/ /\ c.stage = "tool_known_failure"
             /\ \E e \in out : e.kind = "tool.error" /\ e.attempt = c.attempt /\ e.gen <= c.gen
          \/ /\ c.stage \in PrecommitStages
             /\ c.attempt >= MaxAttempts => Doomed(row)

JobRecordOK(j) ==
    RecordOK(jobs[j], Outcomes(log, j), Unknowns(log, j), toolStatus[j], effects[j])

RunnerRecordOK(r) ==
    pc[r] # "idle" =>
        RunnerOK(pc[r], claim[r], jobs[on[r]], Outcomes(log, on[r]),
                 Unknowns(log, on[r]), toolStatus[on[r]], effects[on[r]])

\* One runner is past the commit point of a job, and one works under a claim.
Alone(r, s) ==
    (r # s /\ on[r] = on[s]) =>
        /\ ~(pc[r] \in ExecutingPCs /\ pc[s] \in ExecutingPCs)
        /\ pc[r] \in WorkingPCs /\ pc[s] \in WorkingPCs => claim[r].gen # claim[s].gen

WorkerInv ==
    /\ WorkerTypeOK
    /\ \A j \in Jobs : JobRecordOK(j)
    /\ \A r \in Runners : RunnerRecordOK(r)
    /\ \A r, s \in Runners : Alone(r, s)

-----------------------------------------------------------------------------
(* What one step may do to a job under the other runners *)

SameRow(row, new) ==
    /\ new.status = row.status /\ new.attempt = row.attempt /\ new.gen = row.gen
    /\ new.error = row.error /\ new.stage = row.stage

\* Nothing that a runner relies on is taken back.
RowMoves(row, new) ==
    /\ new.status # "absent" /\ new.gen >= row.gen
    /\ ~Uncommitted(row) => new.attempt = row.attempt
    /\ ~Uncommitted(row) /\ row.status # "executing" =>
          ~Uncommitted(new) /\ new.status # "executing"
    /\ Doomed(row) => Doomed(new)

\* What a step does to the claims and the knowledge of a bystander.
Bystander(p, c, row, new) ==
    /\ p \in ExecutingPCs => ~Uncommitted(new)
    /\ p \in WorkingPCs => \/ c.gen < new.gen
                           \/ SameRow(row, new)
                           \/ p = "precommit" /\ new.status \in {"cancel_requested", "canceled"}

LEMMA BystanderKeeps ==
  ASSUME NEW p, NEW c, NEW row, NEW out, NEW unk, NEW ts, NEW eff,
         NEW new, NEW out2, NEW unk2, NEW ts2, NEW eff2,
         RunnerOK(p, c, row, out, unk, ts, eff),
         c.gen \in Nat, row.gen \in Nat, new.gen \in Nat,
         RowMoves(row, new), Bystander(p, c, row, new),
         out \subseteq out2, unk \subseteq unk2,
         p \in ExecutingPCs \cup {"reconcile_unknown"} => out2 = out,
         p \in ExecutingPCs => eff2 = eff,
         Succeeded(out) /\ ts = "completed" => ts2 = "completed",
         p = "rejected" /\ ts2 = "completed" => ts = "completed"
  PROVE  RunnerOK(p, c, new, out2, unk2, ts2, eff2)
  <1>1. Succeeded(out) => Succeeded(out2)
    BY DEF Succeeded
  <1>2. Refused(out) => Refused(out2)
    BY DEF Refused
  <1>3. \A a : Evidence(unk, a) => Evidence(unk2, a)
    BY DEF Evidence
  <1>4. c.gen <= new.gen
    BY DEF RunnerOK, RowMoves
  <1>5. Informed(p, c, new)
    BY <1>4 DEF RunnerOK, Informed, Bystander, SameRow, RowMoves
  <1>6. p \in ExecutingPCs =>
          /\ ~Uncommitted(new) /\ new.attempt = c.attempt /\ ~c.error
          /\ \A e \in out2 : e.attempt = c.attempt /\ e.gen <= c.gen
    BY DEF RunnerOK, RowMoves, Bystander
  <1>7. p \in {"reconcile", "reconcile_unknown"} =>
          ~Uncommitted(new) /\ new.status # "executing"
    BY DEF RunnerOK, RowMoves
  <1>8. {"executing", "succeeded", "rejected", "unknown", "mark_unknown",
         "result_recorded", "settle_ok"} \subseteq ExecutingPCs
    BY DEF ExecutingPCs
  <1>9. p \in {"unknown", "mark_unknown", "reconcile_unknown"} => ~Succeeded(out2)
    BY <1>8 DEF RunnerOK
  <1>10. p \in SettlingPCs /\ c.error =>
          \/ /\ c.stage = "tool_known_failure"
             /\ \E e \in out2 : e.kind = "tool.error" /\ e.attempt = c.attempt /\ e.gen <= c.gen
          \/ /\ c.stage \in PrecommitStages
             /\ c.attempt >= MaxAttempts => Doomed(new)
    BY DEF RunnerOK, RowMoves
  <1> QED
    BY <1>1, <1>2, <1>3, <1>4, <1>5, <1>6, <1>7, <1>8, <1>9, <1>10 DEF RunnerOK, RowMoves

\* A step of the runners in R (one or none) touches one job.
Touches(R, j) ==
    /\ \A k \in Jobs \ {j} :
          /\ jobs'[k] = jobs[k] /\ toolStatus'[k] = toolStatus[k] /\ effects'[k] = effects[k]
          /\ Outcomes(log', k) = Outcomes(log, k) /\ Unknowns(log', k) = Unknowns(log, k)
    /\ \A s \in Runners \ R : pc'[s] = pc[s] /\ on'[s] = on[s] /\ claim'[s] = claim[s]

\* The other runners on the job can go on.
OthersGoOn(R, j) ==
    /\ RowMoves(jobs[j], jobs'[j])
    /\ Outcomes(log, j) \subseteq Outcomes(log', j)
    /\ Unknowns(log, j) \subseteq Unknowns(log', j)
    /\ Succeeded(Outcomes(log, j)) /\ toolStatus[j] = "completed" => toolStatus'[j] = "completed"
    /\ \A s \in Runners \ R : pc[s] # "idle" /\ on[s] = j =>
          /\ Bystander(pc[s], claim[s], jobs[j], jobs'[j])
          /\ pc[s] \in ExecutingPCs \cup {"reconcile_unknown"} =>
                Outcomes(log', j) = Outcomes(log, j)
          /\ pc[s] \in ExecutingPCs => effects'[j] = effects[j]
          /\ pc[s] = "rejected" /\ toolStatus'[j] = "completed" => toolStatus[j] = "completed"

\* The runner itself leaves, or is where it may be and does not get in the way.
OwnStepOK(r, j) ==
    pc'[r] # "idle" =>
        /\ on'[r] = j
        /\ RunnerOK(pc'[r], claim'[r], jobs'[j], Outcomes(log', j), Unknowns(log', j),
                    toolStatus'[j], effects'[j])
        /\ \A s \in Runners \ {r} : pc[s] # "idle" /\ on[s] = j =>
              /\ ~(pc'[r] \in ExecutingPCs /\ pc[s] \in ExecutingPCs)
              /\ pc'[r] \in WorkingPCs /\ pc[s] \in WorkingPCs => claim[s].gen # claim'[r].gen

LEMMA OneJobStep ==
  ASSUME WorkerInv, WorkerTypeOK', NEW j \in Jobs, NEW R \in SUBSET Runners,
         \A r, s \in R : r = s,
         Touches(R, j), OthersGoOn(R, j), JobRecordOK(j)', \A r \in R : OwnStepOK(r, j)
  PROVE  WorkerInv'
  <1>1. \A k \in Jobs : JobRecordOK(k)'
    BY DEF Touches, WorkerInv, JobRecordOK
  <1>2. ASSUME NEW s \in Runners PROVE RunnerRecordOK(s)'
    <2>1. CASE s \in R
      BY <2>1 DEF OwnStepOK, RunnerRecordOK
    <2>2. CASE s \notin R /\ pc[s] # "idle" /\ on[s] # j
      <3>1. on[s] \in Jobs /\ on'[s] = on[s] /\ pc'[s] = pc[s] /\ claim'[s] = claim[s]
        BY <2>2 DEF WorkerInv, WorkerTypeOK, Touches
      <3>2. RunnerRecordOK(s)
        BY DEF WorkerInv
      <3> QED
        BY <2>2, <3>1, <3>2 DEF Touches, RunnerRecordOK
    <2>3. CASE s \notin R /\ pc[s] # "idle" /\ on[s] = j
      <3>1. on'[s] = on[s] /\ pc'[s] = pc[s] /\ claim'[s] = claim[s]
        BY <2>3 DEF Touches
      <3>2. RunnerOK(pc[s], claim[s], jobs[j], Outcomes(log, j), Unknowns(log, j),
                     toolStatus[j], effects[j])
        BY <2>3 DEF WorkerInv, RunnerRecordOK
      <3>3. claim[s].gen \in Nat /\ jobs[j].gen \in Nat /\ jobs'[j].gen \in Nat
        BY DEF WorkerInv, WorkerTypeOK, QueueTypeOK, Job
      <3>4. RunnerOK(pc[s], claim[s], jobs'[j], Outcomes(log', j), Unknowns(log', j),
                     toolStatus'[j], effects'[j])
        BY <2>3, <3>2, <3>3, BystanderKeeps DEF OthersGoOn
      <3> QED
        BY <2>3, <3>1, <3>4 DEF RunnerRecordOK
    <2>4. CASE s \notin R /\ pc[s] = "idle"
      BY <2>4 DEF Touches, RunnerRecordOK
    <2> QED
      BY <2>1, <2>2, <2>3, <2>4
  <1>3. ASSUME NEW r \in Runners, NEW s \in Runners PROVE Alone(r, s)'
    <2>1. "idle" \notin WorkingPCs /\ "idle" \notin ExecutingPCs
      BY DEF WorkingPCs, ExecutingPCs, FinalizingPCs
    <2>2. CASE r \in R /\ s \notin R
      BY <2>1, <2>2 DEF OwnStepOK, Touches, Alone
    <2>3. CASE s \in R /\ r \notin R
      BY <2>1, <2>3 DEF OwnStepOK, Touches, Alone
    <2>4. CASE r \notin R /\ s \notin R
      BY <2>4 DEF Touches, Alone, WorkerInv
    <2>5. CASE r \in R /\ s \in R
      BY <2>5 DEF Alone
    <2> QED
      BY <2>2, <2>3, <2>4, <2>5
  <1> QED
    BY <1>1, <1>2, <1>3 DEF WorkerInv

-----------------------------------------------------------------------------
(* Steps of one kind *)

LEMMA JobFacts ==
  ASSUME WorkerInv, NEW j \in Jobs
  PROVE  /\ jobs[j] \in Job /\ jobs[j].gen \in Nat /\ jobs[j].attempt \in Nat
         /\ jobs[j].error \in BOOLEAN
         /\ RecordOK(jobs[j], Outcomes(log, j), Unknowns(log, j), toolStatus[j], effects[j])
         /\ toolStatus[j] \in {"running", "completed", "failed"}
  BY DEF WorkerInv, WorkerTypeOK, QueueTypeOK, Job, JobRecordOK

LEMMA RunnerFacts ==
  ASSUME WorkerInv, NEW r \in Runners, pc[r] # "idle"
  PROVE  /\ on[r] \in Jobs
         /\ claim[r] \in Job /\ claim[r].gen \in Nat /\ claim[r].attempt \in Nat
         /\ claim[r].error \in BOOLEAN
         /\ RunnerOK(pc[r], claim[r], jobs[on[r]], Outcomes(log, on[r]),
                     Unknowns(log, on[r]), toolStatus[on[r]], effects[on[r]])
  BY DEF WorkerInv, WorkerTypeOK, Job, RunnerRecordOK

LEMMA KnownStatus ==
  ASSUME NEW p \in WorkingPCs \cup CancelPCs
  PROVE  /\ (p = "precommit" <=> StatusAt(p) = "running")
         /\ (p \in ExecutingPCs <=> StatusAt(p) = "executing")
         /\ (p \in FinalizingPCs <=> StatusAt(p) = "finalizing")
         /\ (p \in CancelPCs <=> StatusAt(p) = "cancel_requested")
         /\ (p \in WorkingPCs <=> p \notin CancelPCs)
         /\ StatusAt(p) \in {"running", "executing", "finalizing", "cancel_requested"}
  BY DEF WorkingPCs, CancelPCs, ExecutingPCs, FinalizingPCs, StatusAt

\* A runner that works under the row's generation is the only one.
LEMMA HolderFacts ==
  ASSUME WorkerInv, NEW r \in Runners, pc[r] \in WorkingPCs,
         claim[r].gen = jobs[on[r]].gen
  PROVE  /\ pc[r] # "idle" /\ on[r] \in Jobs
         /\ \A s \in Runners \ {r} : pc[s] # "idle" /\ on[s] = on[r] =>
               /\ claim[s].gen \in Nat /\ claim[s].gen <= jobs[on[r]].gen
               /\ pc[s] \in WorkingPCs => claim[s].gen < jobs[on[r]].gen
               /\ pc[s] \in ExecutingPCs =>
                     /\ ~Uncommitted(jobs[on[r]]) /\ jobs[on[r]].status # "executing"
                     /\ pc[r] \notin ExecutingPCs
  <1>1. pc[r] # "idle"
    BY DEF WorkingPCs, ExecutingPCs, FinalizingPCs
  <1>2. ASSUME NEW s \in Runners \ {r}, pc[s] # "idle", on[s] = on[r]
        PROVE  /\ claim[s].gen \in Nat /\ claim[s].gen <= jobs[on[r]].gen
               /\ pc[s] \in WorkingPCs => claim[s].gen < jobs[on[r]].gen
               /\ pc[s] \in ExecutingPCs =>
                     /\ ~Uncommitted(jobs[on[r]]) /\ jobs[on[r]].status # "executing"
                     /\ pc[r] \notin ExecutingPCs
    <2>1. /\ claim[s].gen \in Nat /\ jobs[on[r]].gen \in Nat
          /\ claim[s].gen <= jobs[on[r]].gen
      BY <1>1, <1>2, RunnerFacts, JobFacts DEF RunnerOK
    <2>2. pc[s] \in WorkingPCs => claim[s].gen # claim[r].gen
      BY <1>2 DEF WorkerInv, Alone
    <2>3. CASE pc[s] \in ExecutingPCs
      <3>1. ~Uncommitted(jobs[on[r]])
        BY <1>2, <2>3, RunnerFacts DEF RunnerOK
      <3>2. pc[r] \notin ExecutingPCs
        BY <1>2, <2>3 DEF WorkerInv, Alone
      <3>3. jobs[on[r]].status # "executing"
        <4>1. /\ claim[r].status = StatusAt(pc[r]) /\ Informed(pc[r], claim[r], jobs[on[r]])
          BY <1>1, RunnerFacts DEF RunnerOK
        <4> QED
          BY <3>2, <4>1, KnownStatus DEF Informed
      <3> QED
        BY <2>1, <2>2, <3>1, <3>2, <3>3
    <2> QED
      BY <2>1, <2>2, <2>3
  <1> QED
    BY <1>1, <1>2, RunnerFacts

\* A fenced operation of a working runner on its row.
LEMMA HolderStep ==
  ASSUME WorkerInv, WorkerTypeOK', NEW r \in Runners, NEW j \in Jobs, on[r] = j, pc[r] \in WorkingPCs,
         claim[r].gen = jobs[j].gen,
         Touches({r}, j),
         RowMoves(jobs[j], jobs'[j]),
         Outcomes(log', j) = Outcomes(log, j),
         Unknowns(log', j) = Unknowns(log, j),
         toolStatus[j] = "completed" /\ Succeeded(Outcomes(log, j))
            => toolStatus'[j] = "completed",
         toolStatus'[j] = "completed" => toolStatus[j] = "completed",
         effects' = effects,
         JobRecordOK(j)',
         pc'[r] # "idle" =>
            /\ on'[r] = j
            /\ claim'[r].gen = claim[r].gen
            /\ RunnerOK(pc'[r], claim'[r], jobs'[j], Outcomes(log', j),
                        Unknowns(log', j), toolStatus'[j], effects'[j])
            /\ pc'[r] \in ExecutingPCs =>
                  Uncommitted(jobs[j]) \/ pc[r] \in ExecutingPCs
  PROVE  WorkerInv'
  <1>1. j \in Jobs /\ pc[r] # "idle"
    BY HolderFacts
  <1>2. jobs[j].gen \in Nat /\ jobs'[j].gen \in Nat /\ jobs'[j].gen >= jobs[j].gen
    BY <1>1, JobFacts DEF WorkerTypeOK, QueueTypeOK, Job, RowMoves
  <1>3. \A s \in Runners \ {r} : pc[s] # "idle" /\ on[s] = j =>
          Bystander(pc[s], claim[s], jobs[j], jobs'[j])
    BY <1>2, HolderFacts DEF Bystander, RowMoves
  <1>4. OthersGoOn({r}, j)
    BY <1>3 DEF OthersGoOn
  <1>5. OwnStepOK(r, j)
    <2>1. ASSUME pc'[r] # "idle", NEW s \in Runners \ {r}, pc[s] # "idle", on[s] = j
          PROVE  /\ ~(pc'[r] \in ExecutingPCs /\ pc[s] \in ExecutingPCs)
                 /\ pc[s] \in WorkingPCs => claim[s].gen # claim'[r].gen
      BY <1>2, <2>1, HolderFacts
    <2> QED
      BY <2>1 DEF OwnStepOK
  <1> QED
    BY <1>1, <1>4, <1>5, OneJobStep

\* A step under a new generation.
LEMMA NewClaimStep ==
  ASSUME WorkerInv, WorkerTypeOK', NEW r \in Runners, NEW j \in Jobs,
         Touches({r}, j), UNCHANGED recordVars,
         RowMoves(jobs[j], jobs'[j]), jobs'[j].gen = jobs[j].gen + 1,
         Uncommitted(jobs'[j]) => Uncommitted(jobs[j]),
         JobRecordOK(j)',
         pc'[r] # "idle", on'[r] = j, claim'[r] = jobs'[j], pc'[r] \notin ExecutingPCs,
         RunnerOK(pc'[r], claim'[r], jobs'[j], Outcomes(log, j), Unknowns(log, j),
                  toolStatus[j], effects[j])
  PROVE  WorkerInv'
  <1>1. jobs[j].gen \in Nat
    BY JobFacts
  <1>2. /\ Outcomes(log', j) = Outcomes(log, j) /\ Unknowns(log', j) = Unknowns(log, j)
        /\ toolStatus' = toolStatus /\ effects' = effects
    BY DEF recordVars, Outcomes, Unknowns
  <1>3. ASSUME NEW s \in Runners \ {r}, pc[s] # "idle", on[s] = j
        PROVE  /\ claim[s].gen < jobs'[j].gen
               /\ Bystander(pc[s], claim[s], jobs[j], jobs'[j])
    <2>1. claim[s].gen \in Nat /\ claim[s].gen <= jobs[j].gen
      BY <1>3, RunnerFacts DEF RunnerOK
    <2>2. pc[s] \in ExecutingPCs => ~Uncommitted(jobs[j])
      BY <1>3, RunnerFacts DEF RunnerOK
    <2> QED
      BY <1>1, <2>1, <2>2 DEF Bystander
  <1>4. OthersGoOn({r}, j)
    BY <1>2, <1>3 DEF OthersGoOn
  <1>5. OwnStepOK(r, j)
    <2>1. ASSUME NEW s \in Runners \ {r}, pc[s] # "idle", on[s] = j
          PROVE  claim[s].gen # claim'[r].gen
      <3>1. claim[s].gen \in Nat
        BY <2>1, RunnerFacts
      <3> QED
        BY <1>1, <1>3, <2>1, <3>1
    <2> QED
      BY <1>2, <2>1 DEF OwnStepOK
  <1> QED
    BY <1>4, <1>5, OneJobStep

\* A step that writes records of its job and leaves the row alone.
LEMMA RecordStep ==
  ASSUME WorkerInv, WorkerTypeOK', NEW r \in Runners, NEW j \in Jobs, on[r] = j, pc[r] # "idle",
         Touches({r}, j), jobs' = jobs,
         Outcomes(log, j) \subseteq Outcomes(log', j),
         Unknowns(log, j) \subseteq Unknowns(log', j),
         Outcomes(log', j) # Outcomes(log, j) =>
            pc[r] \in ExecutingPCs /\ jobs[j].status = "executing",
         effects' # effects => pc[r] \in ExecutingPCs,
         toolStatus[j] = "completed" /\ Succeeded(Outcomes(log, j))
            => toolStatus'[j] = "completed",
         toolStatus'[j] = "completed" =>
            \/ toolStatus[j] = "completed" \/ Succeeded(Outcomes(log, j))
            \/ pc[r] \in ExecutingPCs,
         JobRecordOK(j)',
         pc'[r] # "idle" =>
            /\ on'[r] = j
            /\ claim'[r].gen = claim[r].gen
            /\ RunnerOK(pc'[r], claim'[r], jobs[j], Outcomes(log', j),
                        Unknowns(log', j), toolStatus'[j], effects'[j])
            /\ pc'[r] \in WorkingPCs => pc[r] \in WorkingPCs
            /\ pc'[r] \in ExecutingPCs => pc[r] \in ExecutingPCs
  PROVE  WorkerInv'
  <1>1. j \in Jobs
    BY RunnerFacts
  <1>2. RowMoves(jobs[j], jobs[j])
    <2>1. jobs[j].gen \in Nat /\ jobs[j].status # "absent"
      BY <1>1, RunnerFacts, JobFacts DEF RunnerOK
    <2> QED
      BY <2>1 DEF RowMoves
  <1>3. ASSUME NEW s \in Runners \ {r}, pc[s] # "idle", on[s] = j
        PROVE  /\ Bystander(pc[s], claim[s], jobs[j], jobs[j])
               /\ pc[s] \in ExecutingPCs \cup {"reconcile_unknown"} =>
                     Outcomes(log', j) = Outcomes(log, j)
               /\ pc[s] \in ExecutingPCs => effects' = effects
               /\ pc[s] = "rejected" /\ toolStatus'[j] = "completed" =>
                     toolStatus[j] = "completed"
    <2>1. /\ pc[s] \in ExecutingPCs => ~Uncommitted(jobs[j])
          /\ pc[s] = "reconcile_unknown" => jobs[j].status # "executing"
          /\ pc[s] = "rejected" => Outcomes(log, j) = {}
      BY <1>3, RunnerFacts DEF RunnerOK
    <2>2. pc[s] \in ExecutingPCs => pc[r] \notin ExecutingPCs
      BY <1>3 DEF WorkerInv, Alone
    <2>3. /\ pc[s] = "rejected" => pc[s] \in ExecutingPCs
          /\ Outcomes(log, j) = {} => ~Succeeded(Outcomes(log, j))
      BY DEF ExecutingPCs, Succeeded
    <2> QED
      BY <2>1, <2>2, <2>3 DEF Bystander, SameRow
  <1>4. OthersGoOn({r}, j)
    BY <1>2, <1>3 DEF OthersGoOn
  <1>5. OwnStepOK(r, j)
    <2>1. ASSUME NEW s \in Runners \ {r}, on[s] = j
          PROVE  Alone(r, s)
      BY DEF WorkerInv
    <2> QED
      BY <2>1 DEF OwnStepOK, Alone
  <1> QED
    BY <1>1, <1>4, <1>5, OneJobStep

-----------------------------------------------------------------------------
(* What the steps assign *)

OthersStay(r) ==
    \A s \in Runners \ {r} : pc'[s] = pc[s] /\ on'[s] = on[s] /\ claim'[s] = claim[s]

LEMMA Moves ==
  ASSUME WorkerTypeOK, NEW r \in Runners
  PROVE  /\ \A p : GoTo(r, p) /\ UNCHANGED <<on, claim>> =>
               /\ pc'[r] = p /\ on'[r] = on[r] /\ claim'[r] = claim[r] /\ OthersStay(r)
         /\ \A p : Advance(r, p) =>
               /\ pc'[r] = p /\ on'[r] = on[r] /\ claim'[r] = jobs'[on[r]] /\ OthersStay(r)
         /\ \A p, j : Take(r, j, p) =>
               /\ pc'[r] = p /\ on'[r] = j /\ claim'[r] = jobs'[j] /\ OthersStay(r)
         /\ Leave(r) => pc'[r] = "idle" /\ OthersStay(r)
  BY DEF WorkerTypeOK, OthersStay, GoTo, Advance, Take, Leave

LEMMA PutRecord ==
  ASSUME WorkerTypeOK, NEW j \in Jobs, NEW row, Put(j, row)
  PROVE  jobs'[j] = row /\ \A k \in Jobs \ {j} : jobs'[k] = jobs[k]
  BY DEF WorkerTypeOK, QueueTypeOK, Put

\* The record is not touched.
LEMMA SameRecord ==
  ASSUME UNCHANGED recordVars
  PROVE  /\ toolStatus' = toolStatus /\ effects' = effects
         /\ \A k : Outcomes(log', k) = Outcomes(log, k) /\ Unknowns(log', k) = Unknowns(log, k)
  BY DEF recordVars, Outcomes, Unknowns

\* A fenced operation that only moves the row.
LEMMA FencedStep ==
  ASSUME WorkerInv, WorkerTypeOK', NEW r \in Runners, NEW j \in Jobs, on[r] = j,
         pc[r] \in WorkingPCs, claim[r].gen = jobs[j].gen, jobs'[j].gen = jobs[j].gen,
         \A k \in Jobs \ {j} : jobs'[k] = jobs[k], OthersStay(r), UNCHANGED recordVars,
         RecordOK(jobs'[j], Outcomes(log, j), Unknowns(log, j), toolStatus[j], effects[j]),
         RowMoves(jobs[j], jobs'[j]),
         pc'[r] # "idle" =>
            /\ on'[r] = j /\ claim'[r] = jobs'[j]
            /\ RunnerOK(pc'[r], jobs'[j], jobs'[j], Outcomes(log, j), Unknowns(log, j),
                        toolStatus[j], effects[j])
            /\ pc'[r] \in ExecutingPCs => Uncommitted(jobs[j])
  PROVE  WorkerInv'
  <1>1. /\ toolStatus' = toolStatus /\ effects' = effects
        /\ \A k : Outcomes(log', k) = Outcomes(log, k) /\ Unknowns(log', k) = Unknowns(log, k)
    BY SameRecord
  <1>2. Touches({r}, j)
    BY <1>1 DEF Touches, OthersStay
  <1>3. JobRecordOK(j)'
    BY <1>1 DEF JobRecordOK
  <1>4. /\ Outcomes(log', j) = Outcomes(log, j) /\ Unknowns(log', j) = Unknowns(log, j)
        /\ toolStatus[j] = "completed" /\ Succeeded(Outcomes(log, j)) => toolStatus'[j] = "completed"
        /\ toolStatus'[j] = "completed" => toolStatus[j] = "completed"
        /\ effects' = effects
    BY <1>1
  <1>5. pc'[r] # "idle" =>
            /\ on'[r] = j
            /\ claim'[r].gen = claim[r].gen
            /\ RunnerOK(pc'[r], claim'[r], jobs'[j], Outcomes(log', j),
                        Unknowns(log', j), toolStatus'[j], effects'[j])
            /\ pc'[r] \in ExecutingPCs => Uncommitted(jobs[j]) \/ pc[r] \in ExecutingPCs
    BY <1>1
  <1> QED
    BY <1>2, <1>3, <1>4, <1>5, HolderStep

RowFields(new, row, status, error, stage) ==
    /\ new.status = status /\ new.error = error /\ new.stage = stage
    /\ new.attempt = row.attempt /\ new.gen = row.gen

LEMMA CommitRow ==
  ASSUME NEW row \in Job, NEW new \in Job, NEW out, NEW unk, NEW ts, NEW eff,
         RecordOK(row, out, unk, ts, eff), row.status = "running",
         RowFields(new, row, "executing", row.error, row.stage)
  PROVE  /\ RecordOK(new, out, unk, ts, eff)
         /\ RowMoves(row, new)
         /\ \A p \in {"executing", "unknown"} : RunnerOK(p, new, new, out, unk, ts, eff)
  <1>1. /\ Uncommitted(row) /\ ~Uncommitted(new) /\ ~Doomed(row) /\ eff = 0 /\ out = {}
        /\ ~Succeeded(out) /\ ~Refused(out)
    BY DEF RowFields, RecordOK, Uncommitted, Doomed, Succeeded, Refused
  <1>2. RecordOK(new, out, unk, ts, eff)
    BY <1>1 DEF RecordOK, RowFields, StageOK
  <1>3. new.gen \in Nat /\ row.gen \in Nat
    BY DEF Job
  <1>4. RowMoves(row, new)
    BY <1>1, <1>3 DEF RowMoves, RowFields
  <1>5. ASSUME NEW p \in {"executing", "unknown"} PROVE RunnerOK(p, new, new, out, unk, ts, eff)
    <2>1. p \in WorkingPCs /\ p \in ExecutingPCs /\ StatusAt(p) = "executing"
      BY DEF WorkingPCs, ExecutingPCs, StatusAt
    <2> QED
      BY <1>1, <1>2, <1>3, <2>1 DEF RunnerOK, Informed, RowFields, RecordOK, StageOK, SettlingPCs
  <1> QED
    BY <1>2, <1>4, <1>5

LEMMA CommitStep ==
  ASSUME WorkerInv, WorkerTypeOK', NEW r \in Runners, Commit(r) \/ CommitWithConsumedToken(r)
  PROVE  WorkerInv'
  <1>1. PICK j \in Jobs : on[r] = j
    BY RunnerFacts DEF Commit, CommitWithConsumedToken
  <1>2. /\ pc[r] = "precommit" /\ UNCHANGED recordVars
        /\ begin_executing_started(j, WorkerOf[r], claim[r].gen)
        /\ Advance(r, "executing") \/ Advance(r, "unknown")
    BY <1>1 DEF Commit, CommitWithConsumedToken
  <1>3. /\ jobs[j].status = "running" /\ claim[r].gen = jobs[j].gen
        /\ jobs'[j] = [jobs[j] EXCEPT !.status = "executing"]
        /\ \A k \in Jobs \ {j} : jobs'[k] = jobs[k]
    BY <1>2, PutRecord DEF WorkerInv, begin_executing_started, OwnsClaim
  <1>4. jobs[j] \in Job /\ jobs'[j] \in Job
    BY JobFacts DEF WorkerTypeOK, QueueTypeOK
  <1>5. RowFields(jobs'[j], jobs[j], "executing", jobs[j].error, jobs[j].stage)
    BY <1>3, <1>4 DEF RowFields, Job
  <1>6. /\ RecordOK(jobs'[j], Outcomes(log, j), Unknowns(log, j), toolStatus[j], effects[j])
        /\ RowMoves(jobs[j], jobs'[j])
        /\ \A p \in {"executing", "unknown"} :
              RunnerOK(p, jobs'[j], jobs'[j], Outcomes(log, j), Unknowns(log, j),
                       toolStatus[j], effects[j])
    BY <1>3, <1>4, <1>5, JobFacts, CommitRow
  <1>7. /\ pc'[r] \in {"executing", "unknown"} /\ on'[r] = j /\ claim'[r] = jobs'[j]
        /\ OthersStay(r)
    BY <1>1, <1>2, Moves DEF WorkerInv
  <1>8. Uncommitted(jobs[j]) /\ pc[r] \in WorkingPCs /\ jobs'[j].gen = jobs[j].gen
    BY <1>2, <1>3, <1>5 DEF Uncommitted, WorkingPCs, RowFields
  <1>9. claim[r].gen = jobs[j].gen /\ \A k \in Jobs \ {j} : jobs'[k] = jobs[k]
    BY <1>3
  <1>10. UNCHANGED recordVars
    BY <1>2
  <1> QED
    BY <1>1, <1>6, <1>7, <1>8, <1>9, <1>10, FencedStep

\* The holder of a claimed row knows it.
LEMMA HolderKnows ==
  ASSUME WorkerInv, NEW r \in Runners, NEW j \in Jobs, on[r] = j, pc[r] \in WorkingPCs,
         claim[r].gen = jobs[j].gen, jobs[j].status \in Claimed
  PROVE  /\ SameRow(claim[r], jobs[j]) /\ jobs[j].status = StatusAt(pc[r])
         /\ RunnerOK(pc[r], claim[r], jobs[j], Outcomes(log, j), Unknowns(log, j),
                     toolStatus[j], effects[j])
  <1>1. pc[r] # "idle"
    BY HolderFacts
  <1>2. RunnerOK(pc[r], claim[r], jobs[j], Outcomes(log, j), Unknowns(log, j),
                 toolStatus[j], effects[j])
    BY <1>1, RunnerFacts
  <1> QED
    BY <1>2 DEF RunnerOK, Informed, SameRow, Claimed

LEMMA FinalizeRow ==
  ASSUME NEW row \in Job, NEW new \in Job, NEW out, NEW unk, NEW ts, NEW eff,
         RecordOK(row, out, unk, ts, eff), row.status \in {"running", "executing"},
         NEW error \in BOOLEAN, NEW stage, RowFields(new, row, "finalizing", error, stage),
         \/ error /\ stage \in PrecommitStages /\ eff = 0 /\ out = {}
         \/ ~error /\ stage = "tool_execution" /\ Succeeded(out) /\ ts = "completed"
         \/ error /\ stage = "tool_known_failure" /\ Refused(out)
  PROVE  /\ RecordOK(new, out, unk, ts, eff)
         /\ RowMoves(row, new)
         /\ RunnerOK("finalizing", new, new, out, unk, ts, eff)
  <1>1. /\ new.gen \in Nat /\ row.gen \in Nat /\ new.attempt \in Nat /\ ~Doomed(row)
        /\ MaxAttempts \in Nat
    BY QueueAssumption DEF Job, Doomed
  <1>2. out = {} => ~Succeeded(out) /\ ~Refused(out)
    BY DEF Succeeded, Refused
  <1>3. RecordOK(new, out, unk, ts, eff)
    <2>1. StageOK(new)
      BY DEF StageOK, RowFields
    <2>2. Uncommitted(new) => eff = 0 /\ out = {}
      BY DEF Uncommitted, RowFields, PrecommitStages
    <2> QED
      BY <1>1, <1>2, <2>1, <2>2 DEF RecordOK, RowFields, PrecommitStages
  <1>4. RowMoves(row, new)
    <2>1. row.status # "executing" => Uncommitted(row)
      BY DEF Uncommitted
    <2> QED
      BY <1>1, <2>1 DEF RowMoves, RowFields
  <1>5. RunnerOK("finalizing", new, new, out, unk, ts, eff)
    <2>1. /\ "finalizing" \in WorkingPCs /\ "finalizing" \notin ExecutingPCs
          /\ StatusAt("finalizing") = "finalizing" /\ "finalizing" \in SettlingPCs
      BY DEF WorkingPCs, ExecutingPCs, FinalizingPCs, StatusAt, SettlingPCs
    <2>2. Refused(out) => \E e \in out : e.kind = "tool.error" /\ e.attempt = new.attempt /\ e.gen <= new.gen
      BY DEF Refused, RecordOK, RowFields
    <2>3. (new.error /\ new.attempt >= MaxAttempts) => Doomed(new)
      BY DEF Doomed, RowFields
    <2>4. Informed("finalizing", new, new)
      BY DEF Informed
    <2> QED
      BY <1>1, <2>1, <2>2, <2>3, <2>4 DEF RunnerOK, RowFields
  <1> QED
    BY <1>3, <1>4, <1>5

LEMMA FinalizeStep ==
  ASSUME WorkerInv, WorkerTypeOK', NEW r \in Runners,
         FailPrecommit(r) \/ RetrySafeError(r) \/ BeginFinalizing(r)
  PROVE  WorkerInv'
  <1>1. pc[r] \in WorkingPCs /\ pc[r] # "idle"
    BY DEF FailPrecommit, RetrySafeError, BeginFinalizing, WorkingPCs, ExecutingPCs
  <1>2. PICK j \in Jobs : on[r] = j
    BY <1>1, RunnerFacts
  <1>3. PICK error \in BOOLEAN, stage \in Stages :
          /\ begin_finalizing_started(j, WorkerOf[r], claim[r].gen, error, stage)
          /\ \/ pc[r] = "precommit" /\ error /\ stage = "precommit"
             \/ pc[r] = "executing" /\ error /\ stage = "tool_precommit_retry"
             \/ pc[r] = "settle_ok" /\ ~error /\ stage = "tool_execution"
             \/ pc[r] = "settle_known" /\ error /\ stage = "tool_known_failure"
    <2>1. /\ {"precommit", "tool_precommit_retry", "tool_execution", "tool_known_failure"} \subseteq Stages
          /\ TRUE \in BOOLEAN /\ FALSE \in BOOLEAN
      BY DEF Stages
    <2> QED
      BY <1>2, <2>1 DEF FailPrecommit, RetrySafeError, BeginFinalizing
  <1>4. Advance(r, "finalizing") /\ UNCHANGED recordVars
    BY DEF FailPrecommit, RetrySafeError, BeginFinalizing
  <1>5. /\ jobs[j].status \in {"running", "executing"} /\ claim[r].gen = jobs[j].gen
        /\ jobs'[j] = [jobs[j] EXCEPT !.status = "finalizing", !.error = error, !.stage = stage]
        /\ \A k \in Jobs \ {j} : jobs'[k] = jobs[k]
    BY <1>3, PutRecord DEF WorkerInv, begin_finalizing_started, OwnsClaim
  <1>6. /\ jobs[j] \in Job /\ jobs'[j] \in Job
        /\ RecordOK(jobs[j], Outcomes(log, j), Unknowns(log, j), toolStatus[j], effects[j])
    BY JobFacts DEF WorkerTypeOK, QueueTypeOK
  <1>7. RowFields(jobs'[j], jobs[j], "finalizing", error, stage)
    BY <1>5, <1>6 DEF RowFields, Job
  <1>8. \/ error /\ stage \in PrecommitStages /\ effects[j] = 0 /\ Outcomes(log, j) = {}
        \/ ~error /\ stage = "tool_execution" /\ Succeeded(Outcomes(log, j))
                  /\ toolStatus[j] = "completed"
        \/ error /\ stage = "tool_known_failure" /\ Refused(Outcomes(log, j))
    <2>1. /\ RunnerOK(pc[r], claim[r], jobs[j], Outcomes(log, j), Unknowns(log, j),
                      toolStatus[j], effects[j])
          /\ jobs[j].status = StatusAt(pc[r])
      BY <1>1, <1>2, <1>5, HolderKnows DEF Claimed
    <2>2. pc[r] = "precommit" => effects[j] = 0 /\ Outcomes(log, j) = {}
      BY <1>6, <2>1 DEF StatusAt, Uncommitted, RecordOK
    <2> QED
      BY <1>3, <2>1, <2>2 DEF RunnerOK, PrecommitStages
  <1>9. /\ RecordOK(jobs'[j], Outcomes(log, j), Unknowns(log, j), toolStatus[j], effects[j])
        /\ RowMoves(jobs[j], jobs'[j])
        /\ RunnerOK("finalizing", jobs'[j], jobs'[j], Outcomes(log, j), Unknowns(log, j),
                    toolStatus[j], effects[j])
    <2>1. jobs[j].status \in {"running", "executing"}
      BY <1>5
    <2> QED
      BY <1>3, <1>6, <1>7, <1>8, <2>1, FinalizeRow
  <1>10. /\ pc'[r] = "finalizing" /\ on'[r] = j /\ claim'[r] = jobs'[j] /\ OthersStay(r)
         /\ "finalizing" \notin ExecutingPCs
    BY <1>2, <1>4, Moves DEF WorkerInv, ExecutingPCs
  <1>11. /\ claim[r].gen = jobs[j].gen /\ jobs'[j].gen = jobs[j].gen
         /\ \A k \in Jobs \ {j} : jobs'[k] = jobs[k]
    BY <1>5, <1>7 DEF RowFields
  <1> QED
    BY <1>1, <1>2, <1>4, <1>9, <1>10, <1>11, FencedStep

LEMMA MarkUnknownRow ==
  ASSUME NEW row \in Job, NEW new \in Job, NEW out, NEW unk, NEW ts, NEW eff,
         RecordOK(row, out, unk, ts, eff),
         \/ row.status = "executing"
         \/ row.status = "finalizing" /\ row.stage = "outcome_reconciliation",
         RowFields(new, row, "outcome_unknown", TRUE, row.stage),
         ~Succeeded(out), Evidence(unk, row.attempt)
  PROVE  RecordOK(new, out, unk, ts, eff) /\ RowMoves(row, new)
  <1>1. new.gen \in Nat /\ row.gen \in Nat
    BY DEF Job
  <1>2. ~Uncommitted(new) /\ ~Uncommitted(row)
    BY DEF Uncommitted, RowFields, PrecommitStages
  <1>3. ~Doomed(row)
    BY DEF Doomed, RecordOK, StageOK, PrecommitStages
  <1>4. RecordOK(new, out, unk, ts, eff)
    BY <1>2, <1>3 DEF RecordOK, StageOK, RowFields
  <1> QED
    BY <1>1, <1>2, <1>3, <1>4 DEF RowMoves, RowFields

LEMMA MarkUnknownStep ==
  ASSUME WorkerInv, WorkerTypeOK', NEW r \in Runners, MarkUnknown(r)
  PROVE  WorkerInv'
  <1>1. /\ pc[r] \in {"mark_unknown", "reconcile_unknown"} /\ pc[r] \in WorkingPCs /\ pc[r] # "idle"
        /\ Leave(r) /\ UNCHANGED recordVars
    BY DEF MarkUnknown, WorkingPCs, ExecutingPCs, FinalizingPCs
  <1>2. PICK j \in Jobs : on[r] = j
    BY <1>1, RunnerFacts
  <1>3. /\ \/ jobs[j].status = "executing"
           \/ jobs[j].status = "finalizing" /\ jobs[j].stage = "outcome_reconciliation"
        /\ claim[r].gen = jobs[j].gen
        /\ jobs'[j] = [jobs[j] EXCEPT !.status = "outcome_unknown", !.lease = "none", !.error = TRUE]
        /\ \A k \in Jobs \ {j} : jobs'[k] = jobs[k]
    BY <1>2, PutRecord DEF WorkerInv, MarkUnknown, mark_outcome_unknown_started,
       mark_outcome_unknown_finalizing, OwnsClaim
  <1>4. /\ jobs[j] \in Job /\ jobs'[j] \in Job
        /\ RecordOK(jobs[j], Outcomes(log, j), Unknowns(log, j), toolStatus[j], effects[j])
    BY JobFacts DEF WorkerTypeOK, QueueTypeOK
  <1>5. RowFields(jobs'[j], jobs[j], "outcome_unknown", TRUE, jobs[j].stage)
    BY <1>3, <1>4 DEF RowFields, Job
  <1>6. ~Succeeded(Outcomes(log, j)) /\ Evidence(Unknowns(log, j), jobs[j].attempt)
    <2>1. /\ SameRow(claim[r], jobs[j])
          /\ RunnerOK(pc[r], claim[r], jobs[j], Outcomes(log, j), Unknowns(log, j),
                      toolStatus[j], effects[j])
      BY <1>1, <1>2, <1>3, HolderKnows DEF Claimed
    <2> QED
      BY <1>1, <2>1 DEF RunnerOK, SameRow
  <1>7. /\ RecordOK(jobs'[j], Outcomes(log, j), Unknowns(log, j), toolStatus[j], effects[j])
        /\ RowMoves(jobs[j], jobs'[j])
    <2>1. \/ jobs[j].status = "executing"
          \/ jobs[j].status = "finalizing" /\ jobs[j].stage = "outcome_reconciliation"
      BY <1>3
    <2> QED
      BY <1>4, <1>5, <1>6, <2>1, MarkUnknownRow
  <1>8. pc'[r] = "idle" /\ OthersStay(r)
    BY <1>1, Moves DEF WorkerInv
  <1>9. /\ claim[r].gen = jobs[j].gen /\ jobs'[j].gen = jobs[j].gen
        /\ \A k \in Jobs \ {j} : jobs'[k] = jobs[k]
    BY <1>3, <1>5 DEF RowFields
  <1> QED
    BY <1>1, <1>2, <1>7, <1>8, <1>9, FencedStep

\* What reconcile_durable_tool_outcome finds.
LEMMA DurableFacts ==
  ASSUME NEW j, NEW row
  PROVE  /\ DurableOutcome(j, row) \in {"success", "failure", "unknown"}
         /\ DurableOutcome(j, row) = "success" => Succeeded(Outcomes(log, j))
         /\ DurableOutcome(j, row) = "failure" =>
               \E e \in Outcomes(log, j) :
                  e.kind = "tool.error" /\ e.attempt = row.attempt /\ e.gen <= row.gen
         /\ (/\ ~Succeeded(Outcomes(log, j))
             /\ \E e \in Outcomes(log, j) :
                   e.kind = "tool.error" /\ e.attempt = row.attempt /\ e.gen <= row.gen)
               => DurableOutcome(j, row) = "failure"
         /\ (/\ DurableOutcome(j, row) # "success"
             /\ \A e \in Outcomes(log, j) : e.attempt = row.attempt /\ e.gen <= row.gen)
               => ~Succeeded(Outcomes(log, j))
  BY DEF DurableOutcome, DurableEvents, Outcomes, Succeeded

LEMMA ReconcileFailureRow ==
  ASSUME NEW row \in Job, NEW new \in Job, NEW out, NEW unk, NEW ts, NEW eff,
         RecordOK(row, out, unk, ts, eff),
         row.status = "finalizing", row.stage = "outcome_reconciliation",
         RowFields(new, row, "finalizing", TRUE, "tool_known_failure"),
         \E e \in out : e.kind = "tool.error" /\ e.attempt = row.attempt /\ e.gen <= row.gen
  PROVE  /\ RecordOK(new, out, unk, "failed", eff)
         /\ RowMoves(row, new) /\ Refused(out) /\ ~Succeeded(out)
         /\ RunnerOK("finalizing", new, new, out, unk, "failed", eff)
  <1>1. new.gen \in Nat /\ row.gen \in Nat
    BY DEF Job
  <1>2. ~Uncommitted(new) /\ ~Uncommitted(row)
    BY DEF Uncommitted, RowFields, PrecommitStages
  <1>3. ~Doomed(row)
    BY DEF Doomed, RecordOK, StageOK, PrecommitStages
  <1>4. Refused(out) /\ ~Succeeded(out)
    BY DEF Refused, RecordOK
  <1>5. RecordOK(new, out, unk, "failed", eff)
    BY <1>2, <1>4 DEF RecordOK, StageOK, RowFields
  <1>6. RunnerOK("finalizing", new, new, out, unk, "failed", eff)
    <2>1. /\ "finalizing" \in WorkingPCs /\ "finalizing" \notin ExecutingPCs
          /\ StatusAt("finalizing") = "finalizing" /\ "finalizing" \in SettlingPCs
      BY DEF WorkingPCs, ExecutingPCs, FinalizingPCs, StatusAt, SettlingPCs
    <2>2. Informed("finalizing", new, new)
      BY DEF Informed
    <2> QED
      BY <1>1, <2>1, <2>2 DEF RunnerOK, RowFields
  <1>7. RowMoves(row, new)
    BY <1>1, <1>2, <1>3 DEF RowMoves, RowFields
  <1> QED
    BY <1>4, <1>5, <1>6, <1>7

LEMMA ReconcileFailureStep ==
  ASSUME WorkerInv, WorkerTypeOK', NEW r \in Runners, ReconcileFailure(r)
  PROVE  WorkerInv'
  <1>1. /\ pc[r] = "reconcile" /\ pc[r] \in WorkingPCs /\ pc[r] # "idle"
        /\ Advance(r, "finalizing") /\ UNCHANGED <<log, effects>>
    BY DEF ReconcileFailure, WorkingPCs, FinalizingPCs
  <1>2. PICK j \in Jobs : on[r] = j
    BY <1>1, RunnerFacts
  <1>3. /\ DurableOutcome(j, claim[r]) = "failure"
        /\ toolStatus'[j] = "failed" /\ \A k \in Jobs \ {j} : toolStatus'[k] = toolStatus[k]
    BY <1>2 DEF ReconcileFailure, set_tool_status, WorkerInv, WorkerTypeOK
  <1>4. /\ jobs[j].status = "finalizing" /\ claim[r].gen = jobs[j].gen
        /\ jobs'[j] = [jobs[j] EXCEPT !.error = TRUE, !.stage = "tool_known_failure"]
        /\ \A k \in Jobs \ {j} : jobs'[k] = jobs[k]
    BY <1>2, PutRecord DEF WorkerInv, ReconcileFailure, set_finalizing_failure, OwnsClaim
  <1>5. /\ jobs[j] \in Job /\ jobs'[j] \in Job
        /\ RecordOK(jobs[j], Outcomes(log, j), Unknowns(log, j), toolStatus[j], effects[j])
    BY JobFacts DEF WorkerTypeOK, QueueTypeOK
  <1>6. RowFields(jobs'[j], jobs[j], "finalizing", TRUE, "tool_known_failure")
    BY <1>4, <1>5 DEF RowFields, Job
  <1>7. /\ jobs[j].stage = "outcome_reconciliation"
        /\ \E e \in Outcomes(log, j) : /\ e.kind = "tool.error"
                                       /\ e.attempt = jobs[j].attempt /\ e.gen <= jobs[j].gen
    <2>1. /\ SameRow(claim[r], jobs[j])
          /\ RunnerOK(pc[r], claim[r], jobs[j], Outcomes(log, j), Unknowns(log, j),
                      toolStatus[j], effects[j])
      BY <1>1, <1>2, <1>4, HolderKnows DEF Claimed
    <2> QED
      BY <1>1, <1>3, <2>1, DurableFacts DEF RunnerOK, SameRow
  <1>8. /\ RecordOK(jobs'[j], Outcomes(log, j), Unknowns(log, j), "failed", effects[j])
        /\ RowMoves(jobs[j], jobs'[j]) /\ ~Succeeded(Outcomes(log, j))
        /\ RunnerOK("finalizing", jobs'[j], jobs'[j], Outcomes(log, j), Unknowns(log, j),
                    "failed", effects[j])
    <2>1. jobs[j].status = "finalizing"
      BY <1>4
    <2> QED
      BY <1>5, <1>6, <1>7, <2>1, ReconcileFailureRow
  <1>9. /\ pc'[r] = "finalizing" /\ on'[r] = j /\ claim'[r] = jobs'[j] /\ OthersStay(r)
        /\ "finalizing" \notin ExecutingPCs
    BY <1>1, <1>2, Moves DEF WorkerInv, ExecutingPCs
  <1>10. /\ claim[r].gen = jobs[j].gen /\ jobs'[j].gen = jobs[j].gen
         /\ \A k \in Jobs \ {j} : jobs'[k] = jobs[k]
    BY <1>4, <1>6 DEF RowFields
  <1>11. Touches({r}, j) /\ JobRecordOK(j)'
    BY <1>1, <1>3, <1>8, <1>9, <1>10 DEF Touches, OthersStay, JobRecordOK
  <1>12. RunnerOK(pc'[r], claim'[r], jobs'[j], Outcomes(log', j), Unknowns(log', j),
                  toolStatus'[j], effects'[j])
    BY <1>1, <1>3, <1>8, <1>9
  <1>13. effects' = effects /\ log' = log
    BY <1>1
  <1>14. toolStatus'[j] # "completed"
    BY <1>3
  <1> QED
    BY <1>1, <1>2, <1>8, <1>9, <1>10, <1>11, <1>12, <1>13, <1>14, HolderStep

\* The end of a finalization: the row completes, goes back to the queue when
\* nothing had committed, or fails.
LEMMA FinishRow ==
  ASSUME NEW row \in Job, NEW new \in Job, NEW out, NEW unk, NEW ts, NEW eff,
         RecordOK(row, out, unk, ts, eff), row.status = "finalizing",
         \/ /\ ~row.error /\ Succeeded(out) /\ ts = "completed"
            /\ RowFields(new, row, "completed", row.error, row.stage)
         \/ /\ row.error /\ row.stage \in PrecommitStages /\ row.attempt < MaxAttempts
            /\ RowFields(new, row, "queued", row.error, row.stage)
         \/ /\ row.error /\ (row.stage \in PrecommitStages => row.attempt >= MaxAttempts)
            /\ RowFields(new, row, "failed", row.error, row.stage)
  PROVE  RecordOK(new, out, unk, ts, eff) /\ RowMoves(row, new)
  <1>1. /\ new.gen \in Nat /\ row.gen \in Nat /\ new.attempt \in Nat /\ row.attempt \in Nat
        /\ MaxAttempts \in Nat
    BY QueueAssumption DEF Job
  <1>2. CASE ~row.error
    <2>1. RowFields(new, row, "completed", row.error, row.stage) /\ Succeeded(out) /\ ts = "completed"
      BY <1>2
    <2>2. ~Uncommitted(new) /\ ~Uncommitted(row) /\ ~Doomed(row)
      BY <1>2, <2>1 DEF Uncommitted, RowFields, PrecommitStages, Doomed, RecordOK, StageOK
    <2>3. RecordOK(new, out, unk, ts, eff)
      BY <1>2, <2>1, <2>2 DEF RecordOK, StageOK, RowFields
    <2> QED
      BY <1>1, <2>1, <2>2, <2>3 DEF RowMoves, RowFields
  <1>3. CASE /\ row.error /\ row.stage \in PrecommitStages /\ row.attempt < MaxAttempts
             /\ RowFields(new, row, "queued", row.error, row.stage)
    <2>1. Uncommitted(new) /\ Uncommitted(row) /\ ~Doomed(row)
      BY <1>1, <1>3 DEF Uncommitted, RowFields, Doomed
    <2>2. RecordOK(new, out, unk, ts, eff)
      BY <1>3, <2>1 DEF RecordOK, StageOK, RowFields
    <2> QED
      BY <1>1, <1>3, <2>1, <2>2 DEF RowMoves, RowFields
  <1>4. CASE /\ row.error
             /\ RowFields(new, row, "failed", row.error, row.stage)
    <2>1. (Uncommitted(new) <=> Uncommitted(row)) /\ Doomed(new)
      BY <1>4 DEF Uncommitted, RowFields, Doomed
    <2>2. StageOK(new)
      BY <1>4 DEF RecordOK, StageOK, RowFields
    <2>3. RecordOK(new, out, unk, ts, eff)
      BY <1>4, <2>1, <2>2 DEF RecordOK, RowFields
    <2> QED
      BY <1>1, <1>4, <2>1, <2>3 DEF RowMoves, RowFields
  <1> QED
    BY <1>2, <1>3, <1>4

\* The event of the trigger is no outcome event.
LEMMA TerminalEventFacts ==
  ASSUME NEW j, log' = log \cup TerminalEvents(j)
  PROVE  \A k : Outcomes(log', k) = Outcomes(log, k) /\ Unknowns(log', k) = Unknowns(log, k)
  BY DEF TerminalEvents, EventOf, Outcomes, Unknowns

LEMMA FinishStep ==
  ASSUME Backend = "postgres", WorkerInv, WorkerTypeOK', NEW r \in Runners, Finish(r)
  PROVE  WorkerInv'
  <1>1. /\ TailRecorded(r) /\ pc[r] \in SettlingPCs /\ pc[r] \in WorkingPCs /\ pc[r] # "idle"
        /\ Leave(r) /\ toolStatus' = toolStatus /\ effects' = effects
    BY DEF Finish, NeedsPrepare, TailRecorded, WorkingPCs, FinalizingPCs, SettlingPCs
  <1>2. PICK j \in Jobs : on[r] = j
    BY <1>1, RunnerFacts
  <1>3. \A k : Outcomes(log', k) = Outcomes(log, k) /\ Unknowns(log', k) = Unknowns(log, k)
    BY TerminalEventFacts DEF Finish
  <1>4. /\ jobs[j].status = "finalizing" /\ claim[r].gen = jobs[j].gen
        /\ jobs'[j] = Finished(jobs[j], Retryable(r))
        /\ \A k \in Jobs \ {j} : jobs'[k] = jobs[k]
    BY <1>2, PutRecord DEF WorkerInv, Finish, finish_finalizing_started, OwnsClaim
  <1>5. /\ jobs[j] \in Job /\ jobs'[j] \in Job /\ jobs[j].error \in BOOLEAN
        /\ jobs[j].attempt \in Nat
        /\ RecordOK(jobs[j], Outcomes(log, j), Unknowns(log, j), toolStatus[j], effects[j])
    BY JobFacts DEF WorkerTypeOK, QueueTypeOK
  <1>6. /\ SameRow(claim[r], jobs[j])
        /\ RunnerOK(pc[r], claim[r], jobs[j], Outcomes(log, j), Unknowns(log, j),
                    toolStatus[j], effects[j])
    BY <1>1, <1>2, <1>4, HolderKnows DEF Claimed
  <1>7. jobs[j].error /\ Retryable(r) => jobs[j].stage \in PrecommitStages
    <2> SUFFICES ASSUME jobs[j].error, Retryable(r), jobs[j].stage \notin PrecommitStages PROVE FALSE
      OBVIOUS
    <2>1. /\ claim[r].error /\ claim[r].stage = "tool_known_failure"
          /\ \E e \in Outcomes(log, j) : /\ e.kind = "tool.error" /\ e.attempt = claim[r].attempt
                                         /\ e.gen <= claim[r].gen
      BY <1>1, <1>6 DEF RunnerOK, SameRow
    <2>2. ~Succeeded(Outcomes(log, j))
      BY <1>5, <2>1 DEF RecordOK, Refused
    <2>3. DurableOutcome(j, claim[r]) = "failure"
      BY <2>1, <2>2, DurableFacts
    <2> QED
      BY <1>2, <2>1, <2>3 DEF Retryable
  <1>8. jobs[j].error /\ ~Retryable(r) => jobs[j].stage \notin PrecommitStages
    BY <1>6 DEF Retryable, SameRow, PrecommitStages
  <1>9. ~jobs[j].error => Succeeded(Outcomes(log, j)) /\ toolStatus[j] = "completed"
    BY <1>1, <1>6 DEF RunnerOK, SameRow
  <1>10. MaxAttempts \in Nat
    BY QueueAssumption
  <1>11. \/ /\ ~jobs[j].error /\ Succeeded(Outcomes(log, j)) /\ toolStatus[j] = "completed"
            /\ RowFields(jobs'[j], jobs[j], "completed", jobs[j].error, jobs[j].stage)
         \/ /\ jobs[j].error /\ jobs[j].stage \in PrecommitStages /\ jobs[j].attempt < MaxAttempts
            /\ RowFields(jobs'[j], jobs[j], "queued", jobs[j].error, jobs[j].stage)
         \/ /\ jobs[j].error /\ (jobs[j].stage \in PrecommitStages => jobs[j].attempt >= MaxAttempts)
            /\ RowFields(jobs'[j], jobs[j], "failed", jobs[j].error, jobs[j].stage)
    <2>1. CASE ~jobs[j].error
      <3>1. RowFields(jobs'[j], jobs[j], "completed", jobs[j].error, jobs[j].stage)
        BY <1>4, <1>5, <2>1 DEF Finished, RowFields, Job
      <3> QED
        BY <1>9, <2>1, <3>1
    <2>2. CASE jobs[j].error /\ Retryable(r) /\ jobs[j].attempt < MaxAttempts
      <3>1. RowFields(jobs'[j], jobs[j], "queued", jobs[j].error, jobs[j].stage)
        BY <1>4, <1>5, <2>2 DEF Finished, RowFields, Job
      <3> QED
        BY <1>7, <2>2, <3>1
    <2>3. CASE jobs[j].error /\ ~(Retryable(r) /\ jobs[j].attempt < MaxAttempts)
      <3>1. RowFields(jobs'[j], jobs[j], "failed", jobs[j].error, jobs[j].stage)
        BY <1>4, <1>5, <2>3 DEF Finished, RowFields, Job
      <3>2. jobs[j].stage \in PrecommitStages => ~(jobs[j].attempt < MaxAttempts)
        BY <1>8, <2>3, Zenon
      <3>3. jobs[j].stage \in PrecommitStages => jobs[j].attempt >= MaxAttempts
        BY <1>5, <1>10, <3>2
      <3> QED
        BY <2>3, <3>1, <3>3
    <2> QED
      BY <2>1, <2>2, <2>3
  <1>12. /\ RecordOK(jobs'[j], Outcomes(log, j), Unknowns(log, j), toolStatus[j], effects[j])
         /\ RowMoves(jobs[j], jobs'[j])
    <2>1. jobs[j].status = "finalizing"
      BY <1>4
    <2> QED
      BY <1>5, <1>11, <2>1, FinishRow
  <1>13. pc'[r] = "idle" /\ OthersStay(r)
    BY <1>1, Moves DEF WorkerInv
  <1>14. claim[r].gen = jobs[j].gen /\ \A k \in Jobs \ {j} : jobs'[k] = jobs[k]
    BY <1>4
  <1>15. Touches({r}, j) /\ JobRecordOK(j)'
    BY <1>1, <1>3, <1>12, <1>13, <1>14 DEF Touches, OthersStay, JobRecordOK
  <1> QED
    BY <1>1, <1>2, <1>3, <1>12, <1>13, <1>14, <1>15, HolderStep

-----------------------------------------------------------------------------
(* Taking a claim *)

NewClaim(new, row, status, attempt, error, stage) ==
    /\ new.status = status /\ new.error = error /\ new.stage = stage
    /\ new.attempt = attempt /\ new.gen = row.gen + 1

\* The claim leaves the record in order, and its holder starts at p.
ClaimOK(row, new, p, out, unk, ts, eff) ==
    /\ RecordOK(new, out, unk, ts, eff)
    /\ RowMoves(row, new)
    /\ Uncommitted(new) => Uncommitted(row)
    /\ RunnerOK(p, new, new, out, unk, ts, eff)

LEMMA StartRow ==
  ASSUME NEW row \in Job, NEW new \in Job, NEW out, NEW unk, NEW ts, NEW eff,
         RecordOK(row, out, unk, ts, eff), row.status \in {"queued", "running"},
         NewClaim(new, row, "running", row.attempt + 1, FALSE, "none")
  PROVE  ClaimOK(row, new, "precommit", out, unk, ts, eff)
  <1>1. row.gen \in Nat /\ new.gen \in Nat
    BY DEF Job
  <1>2. /\ Uncommitted(row) /\ Uncommitted(new) /\ ~Doomed(row) /\ eff = 0 /\ out = {}
        /\ ~Succeeded(out) /\ ~Refused(out)
    BY DEF NewClaim, RecordOK, Uncommitted, Doomed, Succeeded, Refused
  <1>3. RecordOK(new, out, unk, ts, eff)
    BY <1>2 DEF RecordOK, NewClaim, StageOK
  <1>4. RowMoves(row, new)
    BY <1>1, <1>2 DEF RowMoves, NewClaim
  <1>5. /\ "precommit" \in WorkingPCs /\ StatusAt("precommit") = "running"
        /\ "precommit" \notin ExecutingPCs /\ Informed("precommit", new, new)
    BY DEF WorkingPCs, StatusAt, ExecutingPCs, Informed
  <1>6. RunnerOK("precommit", new, new, out, unk, ts, eff)
    BY <1>1, <1>5 DEF RunnerOK, NewClaim, SettlingPCs
  <1> QED
    BY <1>2, <1>3, <1>4, <1>6 DEF ClaimOK

LEMMA ResumeRow ==
  ASSUME NEW row \in Job, NEW new \in Job, NEW out, NEW unk, NEW ts, NEW eff,
         RecordOK(row, out, unk, ts, eff), row.status = "finalizing",
         \A e \in out : e.gen \in Nat,
         NewClaim(new, row, "finalizing", row.attempt, row.error, row.stage)
  PROVE  ClaimOK(row, new, IF row.stage = "outcome_reconciliation" THEN "reconcile"
                           ELSE "finalizing", out, unk, ts, eff)
  <1>1. /\ row.gen \in Nat /\ new.gen \in Nat /\ row.attempt \in Nat /\ row.error \in BOOLEAN
        /\ MaxAttempts \in Nat
    BY QueueAssumption DEF Job
  <1>2. (Uncommitted(row) <=> Uncommitted(new)) /\ (Doomed(row) <=> Doomed(new))
    BY DEF NewClaim, Uncommitted, Doomed
  <1>3. StageOK(row) /\ StageOK(new)
    BY DEF NewClaim, RecordOK, StageOK
  <1>4. \A e \in out : e.attempt = new.attempt /\ e.gen <= new.gen
    BY <1>1 DEF NewClaim, RecordOK
  <1>5. RecordOK(new, out, unk, ts, eff)
    BY <1>2, <1>3, <1>4 DEF RecordOK, NewClaim
  <1>6. RowMoves(row, new)
    BY <1>1, <1>2 DEF RowMoves, NewClaim
  <1>7. CASE row.stage = "outcome_reconciliation"
    <2>1. /\ "reconcile" \in WorkingPCs /\ StatusAt("reconcile") = "finalizing"
          /\ "reconcile" \notin ExecutingPCs /\ Informed("reconcile", new, new)
      BY DEF WorkingPCs, StatusAt, ExecutingPCs, FinalizingPCs, Informed
    <2>2. ~new.error /\ ~Uncommitted(new)
      BY <1>3, <1>7 DEF StageOK, NewClaim, Uncommitted, PrecommitStages
    <2>3. RunnerOK("reconcile", new, new, out, unk, ts, eff)
      BY <1>1, <1>7, <2>1, <2>2 DEF RunnerOK, NewClaim, SettlingPCs
    <2> QED
      BY <1>2, <1>5, <1>6, <1>7, <2>3 DEF ClaimOK
  <1>8. CASE row.stage # "outcome_reconciliation"
    <2>1. /\ "finalizing" \in WorkingPCs /\ StatusAt("finalizing") = "finalizing"
          /\ "finalizing" \notin ExecutingPCs /\ Informed("finalizing", new, new)
      BY DEF WorkingPCs, StatusAt, ExecutingPCs, FinalizingPCs, Informed
    <2>2. ~new.error => Succeeded(out) /\ ts = "completed"
      BY <1>3, <1>8 DEF StageOK, NewClaim, RecordOK
    <2>3. new.error /\ new.stage \notin PrecommitStages =>
             /\ new.stage = "tool_known_failure"
             /\ \E e \in out : e.kind = "tool.error" /\ e.attempt = new.attempt /\ e.gen <= new.gen
      BY <1>3, <1>4 DEF StageOK, NewClaim, RecordOK, Refused
    <2>4. (new.error /\ new.attempt >= MaxAttempts) => Doomed(new)
      BY DEF Doomed, NewClaim
    <2>5. RunnerOK("finalizing", new, new, out, unk, ts, eff)
      BY <1>1, <2>1, <2>2, <2>3, <2>4 DEF RunnerOK, NewClaim, SettlingPCs
    <2> QED
      BY <1>2, <1>5, <1>6, <1>8, <2>5 DEF ClaimOK
  <1> QED
    BY <1>7, <1>8

LEMMA RecoverRow ==
  ASSUME NEW row \in Job, NEW new \in Job, NEW out, NEW unk, NEW ts, NEW eff,
         RecordOK(row, out, unk, ts, eff), row.status = "executing",
         \A e \in out : e.gen \in Nat,
         NewClaim(new, row, "finalizing", row.attempt, FALSE, "outcome_reconciliation")
  PROVE  ClaimOK(row, new, "reconcile", out, unk, ts, eff)
  <1>1. row.gen \in Nat /\ new.gen \in Nat
    BY DEF Job
  <1>2. ~Uncommitted(row) /\ ~Uncommitted(new) /\ ~Doomed(row)
    BY DEF NewClaim, Uncommitted, Doomed, PrecommitStages
  <1>3. \A e \in out : e.attempt = new.attempt /\ e.gen <= new.gen
    BY <1>1 DEF NewClaim, RecordOK
  <1>4. RecordOK(new, out, unk, ts, eff)
    BY <1>2, <1>3 DEF RecordOK, StageOK, NewClaim
  <1>5. RowMoves(row, new)
    BY <1>1, <1>2 DEF RowMoves, NewClaim
  <1>6. /\ "reconcile" \in WorkingPCs /\ StatusAt("reconcile") = "finalizing"
        /\ "reconcile" \notin ExecutingPCs /\ Informed("reconcile", new, new)
    BY DEF WorkingPCs, StatusAt, ExecutingPCs, FinalizingPCs, Informed
  <1>7. RunnerOK("reconcile", new, new, out, unk, ts, eff)
    BY <1>1, <1>2, <1>6 DEF RunnerOK, NewClaim, SettlingPCs
  <1> QED
    BY <1>2, <1>4, <1>5, <1>7 DEF ClaimOK

LEMMA CancellationRow ==
  ASSUME NEW row \in Job, NEW new \in Job, NEW out, NEW unk, NEW ts, NEW eff,
         RecordOK(row, out, unk, ts, eff), row.status = "cancel_requested", NEW stage,
         NewClaim(new, row, "cancel_requested", row.attempt, row.error, stage)
  PROVE  \A p \in {"canceling", "cleanup"} : ClaimOK(row, new, p, out, unk, ts, eff)
  <1>1. row.gen \in Nat /\ new.gen \in Nat
    BY DEF Job
  <1>2. /\ Uncommitted(row) /\ Uncommitted(new) /\ ~Doomed(row) /\ eff = 0 /\ out = {}
        /\ ~Succeeded(out) /\ ~Refused(out)
    BY DEF NewClaim, RecordOK, Uncommitted, Doomed, Succeeded, Refused
  <1>3. RecordOK(new, out, unk, ts, eff)
    BY <1>2 DEF RecordOK, NewClaim, StageOK
  <1>4. RowMoves(row, new)
    BY <1>1, <1>2 DEF RowMoves, NewClaim
  <1>5. ASSUME NEW p \in {"canceling", "cleanup"} PROVE RunnerOK(p, new, new, out, unk, ts, eff)
    <2>1. /\ p \in CancelPCs /\ StatusAt(p) = "cancel_requested"
          /\ p \notin ExecutingPCs /\ Informed(p, new, new)
      BY DEF CancelPCs, StatusAt, ExecutingPCs, FinalizingPCs, Informed
    <2> QED
      BY <1>1, <2>1 DEF RunnerOK, NewClaim, SettlingPCs
  <1> QED
    BY <1>2, <1>3, <1>4, <1>5 DEF ClaimOK

LEMMA ClaimStep ==
  ASSUME WorkerInv, WorkerTypeOK', NEW r \in Runners, NEW j \in Jobs, NEW p,
         Take(r, j, p) \/ (Advance(r, p) /\ on[r] = j), UNCHANGED recordVars,
         \A k \in Jobs \ {j} : jobs'[k] = jobs[k], jobs'[j].gen = jobs[j].gen + 1,
         p \notin ExecutingPCs, p # "idle",
         ClaimOK(jobs[j], jobs'[j], p, Outcomes(log, j), Unknowns(log, j), toolStatus[j], effects[j])
  PROVE  WorkerInv'
  <1>1. pc'[r] = p /\ on'[r] = j /\ claim'[r] = jobs'[j] /\ OthersStay(r)
    BY Moves DEF WorkerInv
  <1>2. Touches({r}, j)
    BY <1>1, SameRecord DEF Touches, OthersStay
  <1>3. JobRecordOK(j)'
    BY SameRecord DEF JobRecordOK, ClaimOK
  <1>4. /\ RowMoves(jobs[j], jobs'[j]) /\ (Uncommitted(jobs'[j]) => Uncommitted(jobs[j]))
        /\ RunnerOK(pc'[r], claim'[r], jobs'[j], Outcomes(log, j), Unknowns(log, j),
                    toolStatus[j], effects[j])
    BY <1>1 DEF ClaimOK
  <1> QED
    BY <1>1, <1>2, <1>3, <1>4, NewClaimStep

LEMMA AcquisitionStep ==
  ASSUME WorkerInv, WorkerTypeOK', NEW r \in Runners, NEW j \in Jobs, Acquisition(r, j)
  PROVE  WorkerInv'
  <1>1. UNCHANGED recordVars
    BY DEF Acquisition, ClaimStart, ClaimFinalizing, ClaimExpiredExecuting, ClaimCancellation
  <1>2. /\ jobs[j] \in Job /\ jobs'[j] \in Job /\ jobs[j].gen \in Nat
        /\ RecordOK(jobs[j], Outcomes(log, j), Unknowns(log, j), toolStatus[j], effects[j])
        /\ \A e \in Outcomes(log, j) : e.gen \in Nat
    BY JobFacts DEF WorkerInv, WorkerTypeOK, QueueTypeOK, Outcomes, Event
  <1>3. \A p \in {"precommit", "reconcile", "finalizing", "canceling"} :
           p \notin ExecutingPCs /\ p # "idle"
    BY DEF ExecutingPCs
  <1>4. CASE ClaimStart(r, j)
    <2>1. /\ Take(r, j, "precommit") /\ jobs[j].status \in {"queued", "running"}
          /\ jobs'[j] = [status |-> "running", worker |-> WorkerOf[r], lease |-> "live",
                         gen |-> jobs[j].gen + 1, attempt |-> jobs[j].attempt + 1,
                         error |-> FALSE, stage |-> "none"]
          /\ \A k \in Jobs \ {j} : jobs'[k] = jobs[k]
      BY <1>4, PutRecord DEF ClaimStart, start, WorkerInv
    <2>2. NewClaim(jobs'[j], jobs[j], "running", jobs[j].attempt + 1, FALSE, "none")
      BY <2>1 DEF NewClaim
    <2>3. ClaimOK(jobs[j], jobs'[j], "precommit", Outcomes(log, j), Unknowns(log, j),
                  toolStatus[j], effects[j])
      BY <1>2, <2>1, <2>2, StartRow
    <2> QED
      BY <1>1, <1>3, <2>1, <2>2, <2>3, ClaimStep DEF NewClaim
  <1>5. CASE ClaimFinalizing(r, j)
    <2> DEFINE p == IF jobs[j].stage = "outcome_reconciliation" THEN "reconcile" ELSE "finalizing"
    <2>1. /\ Take(r, j, p) /\ jobs[j].status = "finalizing"
          /\ jobs'[j] = [jobs[j] EXCEPT !.worker = WorkerOf[r], !.lease = "live", !.gen = @ + 1]
          /\ \A k \in Jobs \ {j} : jobs'[k] = jobs[k]
      BY <1>5, PutRecord DEF ClaimFinalizing, resume_finalizing, WorkerInv
    <2>2. NewClaim(jobs'[j], jobs[j], "finalizing", jobs[j].attempt, jobs[j].error, jobs[j].stage)
      BY <1>2, <2>1 DEF NewClaim, Job
    <2>3. ClaimOK(jobs[j], jobs'[j], p, Outcomes(log, j), Unknowns(log, j),
                  toolStatus[j], effects[j])
      BY <1>2, <2>1, <2>2, ResumeRow
    <2>4. p \notin ExecutingPCs /\ p # "idle"
      BY <1>3
    <2>5. Take(r, j, p) /\ \A k \in Jobs \ {j} : jobs'[k] = jobs[k]
      BY <2>1
    <2> HIDE DEF p
    <2> QED
      BY <1>1, <2>2, <2>3, <2>4, <2>5, ClaimStep DEF NewClaim
  <1>6. CASE ClaimExpiredExecuting(r, j)
    <2>1. /\ Take(r, j, "reconcile") /\ jobs[j].status = "executing"
          /\ jobs'[j] = [jobs[j] EXCEPT !.status = "finalizing", !.worker = WorkerOf[r],
                              !.lease = "live", !.gen = @ + 1, !.error = FALSE,
                              !.stage = "outcome_reconciliation"]
          /\ \A k \in Jobs \ {j} : jobs'[k] = jobs[k]
      BY <1>6, PutRecord DEF ClaimExpiredExecuting, recover_expired_executing, WorkerInv
    <2>2. NewClaim(jobs'[j], jobs[j], "finalizing", jobs[j].attempt, FALSE, "outcome_reconciliation")
      BY <1>2, <2>1 DEF NewClaim, Job
    <2>3. ClaimOK(jobs[j], jobs'[j], "reconcile", Outcomes(log, j), Unknowns(log, j),
                  toolStatus[j], effects[j])
      BY <1>2, <2>1, <2>2, RecoverRow
    <2>4. Take(r, j, "reconcile") /\ \A k \in Jobs \ {j} : jobs'[k] = jobs[k]
      BY <2>1
    <2> QED
      BY <1>1, <1>3, <2>2, <2>3, <2>4, ClaimStep DEF NewClaim
  <1>7. CASE ClaimCancellation(r, j)
    <2>1. /\ Take(r, j, "canceling") /\ jobs[j].status = "cancel_requested"
          /\ jobs'[j] = [jobs[j] EXCEPT !.worker = WorkerOf[r], !.lease = "live", !.gen = @ + 1,
                              !.stage = "cancellation_pending"]
          /\ \A k \in Jobs \ {j} : jobs'[k] = jobs[k]
      BY <1>7, PutRecord DEF ClaimCancellation, claim_cancellation, WorkerInv
    <2>2. NewClaim(jobs'[j], jobs[j], "cancel_requested", jobs[j].attempt, jobs[j].error,
                   "cancellation_pending")
      BY <1>2, <2>1 DEF NewClaim, Job
    <2>3. ClaimOK(jobs[j], jobs'[j], "canceling", Outcomes(log, j), Unknowns(log, j),
                  toolStatus[j], effects[j])
      BY <1>2, <2>1, <2>2, CancellationRow
    <2>4. Take(r, j, "canceling") /\ \A k \in Jobs \ {j} : jobs'[k] = jobs[k]
      BY <2>1
    <2> QED
      BY <1>1, <1>3, <2>2, <2>3, <2>4, ClaimStep DEF NewClaim
  <1> QED
    BY <1>4, <1>5, <1>6, <1>7 DEF Acquisition

LEMMA BeginCleanupStep ==
  ASSUME WorkerInv, WorkerTypeOK', NEW r \in Runners, BeginCleanup(r)
  PROVE  WorkerInv'
  <1>1. PICK j \in Jobs : on[r] = j
    BY RunnerFacts DEF BeginCleanup
  <1>2. /\ jobs[j] \in Job /\ jobs'[j] \in Job /\ jobs[j].gen \in Nat
        /\ RecordOK(jobs[j], Outcomes(log, j), Unknowns(log, j), toolStatus[j], effects[j])
    BY JobFacts DEF WorkerInv, WorkerTypeOK, QueueTypeOK
  <1>3. /\ Advance(r, "cleanup") /\ jobs[j].status = "cancel_requested" /\ UNCHANGED recordVars
        /\ jobs'[j] = [jobs[j] EXCEPT !.gen = @ + 1, !.stage = "cancellation_cleanup",
                              !.lease = "live"]
        /\ \A k \in Jobs \ {j} : jobs'[k] = jobs[k]
    BY <1>1, PutRecord DEF BeginCleanup, begin_cancellation_cleanup, WorkerInv
  <1>4. NewClaim(jobs'[j], jobs[j], "cancel_requested", jobs[j].attempt, jobs[j].error,
                 "cancellation_cleanup")
    BY <1>2, <1>3 DEF NewClaim, Job
  <1>5. ClaimOK(jobs[j], jobs'[j], "cleanup", Outcomes(log, j), Unknowns(log, j),
                toolStatus[j], effects[j])
    BY <1>2, <1>3, <1>4, CancellationRow
  <1>6. /\ Advance(r, "cleanup") /\ UNCHANGED recordVars
        /\ \A k \in Jobs \ {j} : jobs'[k] = jobs[k]
    BY <1>3
  <1>7. "cleanup" \notin ExecutingPCs
    BY DEF ExecutingPCs
  <1> QED
    BY <1>1, <1>4, <1>5, <1>6, <1>7, ClaimStep DEF NewClaim

-----------------------------------------------------------------------------
(* Steps that leave the row alone *)

\* A step past the commit point, from p to q, that keeps the claim.
LEMMA ExecutingMove ==
  ASSUME NEW p \in ExecutingPCs, NEW q \in ExecutingPCs, NEW c, NEW row,
         NEW out, NEW unk, NEW ts, NEW eff, NEW out2, NEW unk2, NEW ts2, NEW eff2,
         RunnerOK(p, c, row, out, unk, ts, eff),
         \A e \in out2 : e.attempt = c.attempt /\ e.gen <= c.gen,
         q # "executing",
         q \in {"succeeded", "rejected"} => out2 = {},
         q \in {"succeeded", "result_recorded", "settle_ok"} => eff2 = 1,
         q \in {"result_recorded", "settle_ok"} => Succeeded(out2),
         q = "rejected" => ts2 # "completed",
         q = "settle_ok" => ts2 = "completed",
         q \in {"error_recorded", "settle_known"} => Refused(out2),
         q \in {"unknown", "mark_unknown"} => ~Succeeded(out2),
         q = "mark_unknown" => Evidence(unk2, c.attempt)
  PROVE  RunnerOK(q, c, row, out2, unk2, ts2, eff2)
  <1>1. /\ p \in WorkingPCs /\ q \in WorkingPCs /\ StatusAt(q) = StatusAt(p)
        /\ p # "precommit" /\ q \notin SettlingPCs
        /\ q \notin {"reconcile", "reconcile_unknown", "prepared"}
    BY DEF WorkingPCs, ExecutingPCs, StatusAt, SettlingPCs
  <1>2. Informed(q, c, row)
    BY <1>1 DEF Informed, RunnerOK
  <1> QED
    BY <1>1, <1>2 DEF RunnerOK

LEMMA WriteStep ==
  ASSUME WorkerInv, WorkerTypeOK', NEW r \in Runners, NEW j \in Jobs, on[r] = j, pc[r] # "idle",
         jobs' = jobs, \A k \in Jobs \ {j} : toolStatus'[k] = toolStatus[k] /\ effects'[k] = effects[k],
         \A k \in Jobs \ {j} : /\ Outcomes(log', k) = Outcomes(log, k)
                               /\ Unknowns(log', k) = Unknowns(log, k),
         Outcomes(log, j) \subseteq Outcomes(log', j),
         Unknowns(log, j) \subseteq Unknowns(log', j),
         Outcomes(log', j) # Outcomes(log, j) =>
            pc[r] \in ExecutingPCs /\ jobs[j].status = "executing",
         effects' # effects => pc[r] \in ExecutingPCs,
         toolStatus[j] = "completed" /\ Succeeded(Outcomes(log, j)) => toolStatus'[j] = "completed",
         toolStatus'[j] = "completed" =>
            \/ toolStatus[j] = "completed" \/ Succeeded(Outcomes(log, j))
            \/ pc[r] \in ExecutingPCs,
         RecordOK(jobs[j], Outcomes(log', j), Unknowns(log', j), toolStatus'[j], effects'[j]),
         NEW q, GoTo(r, q), UNCHANGED <<on, claim>>,
         RunnerOK(q, claim[r], jobs[j], Outcomes(log', j), Unknowns(log', j),
                  toolStatus'[j], effects'[j]),
         q \in WorkingPCs => pc[r] \in WorkingPCs,
         q \in ExecutingPCs => pc[r] \in ExecutingPCs
  PROVE  WorkerInv'
  <1>1. pc'[r] = q /\ on'[r] = j /\ claim'[r] = claim[r] /\ OthersStay(r)
    BY Moves DEF WorkerInv
  <1>2. Touches({r}, j)
    BY <1>1 DEF Touches, OthersStay
  <1>3. JobRecordOK(j)'
    BY DEF JobRecordOK
  <1>4. pc'[r] # "idle" =>
            /\ on'[r] = j
            /\ claim'[r].gen = claim[r].gen
            /\ RunnerOK(pc'[r], claim'[r], jobs[j], Outcomes(log', j),
                        Unknowns(log', j), toolStatus'[j], effects'[j])
            /\ pc'[r] \in WorkingPCs => pc[r] \in WorkingPCs
            /\ pc'[r] \in ExecutingPCs => pc[r] \in ExecutingPCs
    BY <1>1
  <1> QED
    BY <1>2, <1>3, <1>4, RecordStep

\* The runner leaves, or follows a cancellation of its own claim.
LEMMA LeavingStep ==
  ASSUME WorkerInv, WorkerTypeOK', NEW r \in Runners,
         RetryTailRefused(r) \/ Abandon(r) \/ Crash(r)
  PROVE  WorkerInv'
  <1>1. pc[r] # "idle" /\ jobs' = jobs /\ UNCHANGED recordVars
    BY DEF RetryTailRefused, Abandon, Crash, WorkingPCs, CancelPCs, ExecutingPCs, FinalizingPCs
  <1>2. PICK j \in Jobs : on[r] = j
    BY <1>1, RunnerFacts
  <1>3. \/ Leave(r)
        \/ Advance(r, "canceling") /\ jobs[j].status = "cancel_requested" /\ jobs[j].gen = claim[r].gen
    BY <1>2 DEF RetryTailRefused, Abandon, Crash, CancelRequestedByOwner
  <1>4. /\ toolStatus' = toolStatus /\ effects' = effects
        /\ \A k : Outcomes(log', k) = Outcomes(log, k) /\ Unknowns(log', k) = Unknowns(log, k)
    BY <1>1, SameRecord
  <1>5. OthersStay(r)
    BY <1>3, Moves DEF WorkerInv
  <1>6. Touches({r}, j)
    BY <1>1, <1>4, <1>5 DEF Touches, OthersStay
  <1>7. JobRecordOK(j)'
    BY <1>1, <1>4 DEF JobRecordOK, WorkerInv
  <1>8. pc'[r] # "idle" =>
            /\ on'[r] = j
            /\ claim'[r].gen = claim[r].gen
            /\ RunnerOK(pc'[r], claim'[r], jobs[j], Outcomes(log', j),
                        Unknowns(log', j), toolStatus'[j], effects'[j])
            /\ pc'[r] \notin WorkingPCs /\ pc'[r] \notin ExecutingPCs
    <2> SUFFICES ASSUME pc'[r] # "idle" PROVE
            /\ on'[r] = j
            /\ claim'[r].gen = claim[r].gen
            /\ RunnerOK(pc'[r], claim'[r], jobs[j], Outcomes(log', j),
                        Unknowns(log', j), toolStatus'[j], effects'[j])
            /\ pc'[r] \notin WorkingPCs /\ pc'[r] \notin ExecutingPCs
      OBVIOUS
    <2>1. /\ jobs[j].status = "cancel_requested" /\ jobs[j].gen = claim[r].gen /\ on'[r] = j
          /\ claim'[r] = jobs[j] /\ pc'[r] = "canceling"
      BY <1>1, <1>2, <1>3, Moves DEF WorkerInv
    <2>2. /\ "canceling" \in CancelPCs /\ StatusAt("canceling") = "cancel_requested"
          /\ "canceling" \notin ExecutingPCs /\ "canceling" \notin WorkingPCs
      BY DEF CancelPCs, StatusAt, ExecutingPCs, FinalizingPCs, WorkingPCs
    <2>3. jobs[j].gen \in Nat
      BY JobFacts
    <2>4. \A out, unk, ts, eff : RunnerOK("canceling", jobs[j], jobs[j], out, unk, ts, eff)
      BY <2>1, <2>2, <2>3 DEF RunnerOK, Informed, SettlingPCs
    <2> QED
      BY <2>1, <2>2, <2>4
  <1> QED
    BY <1>1, <1>2, <1>4, <1>6, <1>7, <1>8, RecordStep

\* The events that are no evidence of an outcome.
LEMMA OtherEvent ==
  ASSUME NEW e, append_event_once(e), e.kind \in {"execution.retry_queued", "execution.canceled"}
  PROVE  \A k : Outcomes(log', k) = Outcomes(log, k) /\ Unknowns(log', k) = Unknowns(log, k)
  BY DEF append_event_once, Outcomes, Unknowns

\* Steps that say nothing about the outcome.
LEMMA SilentStep ==
  ASSUME WorkerInv, WorkerTypeOK', NEW r \in Runners,
         EndWithoutEffect(r) \/ StorageError(r) \/ RecordRetryTail(r) \/ RecordCanceled(r)
  PROVE  WorkerInv'
  <1>1. PICK q \in {"rejected", "errored", "tail_done", "ack"} :
          /\ GoTo(r, q) /\ UNCHANGED <<on, claim>>
          /\ jobs' = jobs /\ toolStatus' = toolStatus /\ effects' = effects
          /\ \/ pc[r] = "executing" /\ q \in {"rejected", "errored"}
             \/ pc[r] \in {"succeeded", "rejected", "result_recorded", "error_recorded"} /\ q = "errored"
             \/ pc[r] = "finalizing" /\ q = "tail_done"
             \/ pc[r] = "cleanup" /\ q = "ack"
    BY DEF EndWithoutEffect, StorageError, RecordRetryTail, RecordCanceled, recordVars
  <1>2. PICK j \in Jobs : on[r] = j
    BY <1>1, RunnerFacts
  <1>3. \A k : Outcomes(log', k) = Outcomes(log, k) /\ Unknowns(log', k) = Unknowns(log, k)
    <2>1. CASE EndWithoutEffect(r) \/ StorageError(r)
      BY <2>1, SameRecord DEF EndWithoutEffect, StorageError
    <2>2. CASE RecordRetryTail(r)
      BY <2>2, OtherEvent DEF RecordRetryTail, RetryEvent, EventOf
    <2>3. CASE RecordCanceled(r)
      BY <2>3, OtherEvent DEF RecordCanceled, CanceledEvent, EventOf
    <2> QED
      BY <2>1, <2>2, <2>3
  <1>4. RunnerOK(pc[r], claim[r], jobs[j], Outcomes(log, j), Unknowns(log, j),
                 toolStatus[j], effects[j])
    BY <1>1, <1>2, RunnerFacts
  <1>5. RunnerOK(q, claim[r], jobs[j], Outcomes(log, j), Unknowns(log, j),
                 toolStatus[j], effects[j])
    <2>1. CASE q \in {"rejected", "errored"}
      <3>1. pc[r] \in ExecutingPCs /\ q \in ExecutingPCs
        BY <1>1, <2>1 DEF ExecutingPCs
      <3>2. /\ \A e \in Outcomes(log, j) : e.attempt = claim[r].attempt /\ e.gen <= claim[r].gen
            /\ q = "rejected" => Outcomes(log, j) = {} /\ effects[j] = 0
        BY <1>1, <1>4, <3>1 DEF RunnerOK
      <3>3. q = "rejected" => toolStatus[j] # "completed"
        BY <3>2, JobFacts DEF RecordOK
      <3> QED
        BY <1>4, <2>1, <3>1, <3>2, <3>3, ExecutingMove
    <2>2. CASE q = "tail_done"
      <3>1. /\ "finalizing" \notin ExecutingPCs /\ "tail_done" \notin ExecutingPCs
            /\ {"finalizing", "tail_done"} \subseteq WorkingPCs /\ {"finalizing", "tail_done"} \subseteq SettlingPCs
            /\ StatusAt("finalizing") = StatusAt("tail_done")
        BY DEF ExecutingPCs, FinalizingPCs, WorkingPCs, SettlingPCs, StatusAt
      <3>2. Informed("tail_done", claim[r], jobs[j])
        BY <1>1, <1>4, <2>2, <3>1 DEF RunnerOK, Informed
      <3> QED
        BY <1>1, <1>4, <2>2, <3>1, <3>2 DEF RunnerOK
    <2>3. CASE q = "ack"
      <3>1. /\ "ack" \in CancelPCs /\ "ack" \notin WorkingPCs /\ "ack" \notin ExecutingPCs
            /\ StatusAt("cleanup") = StatusAt("ack") /\ "ack" \notin SettlingPCs
        BY DEF CancelPCs, WorkingPCs, ExecutingPCs, FinalizingPCs, StatusAt, SettlingPCs
      <3>2. Informed("ack", claim[r], jobs[j])
        BY <3>1 DEF Informed
      <3> QED
        BY <1>1, <1>4, <2>3, <3>1, <3>2 DEF RunnerOK
    <2> QED
      BY <2>1, <2>2, <2>3
  <1>6. /\ q \in WorkingPCs => pc[r] \in WorkingPCs
        /\ q \in ExecutingPCs => pc[r] \in ExecutingPCs
        /\ pc[r] # "idle"
    BY <1>1 DEF WorkingPCs, ExecutingPCs, FinalizingPCs
  <1>7. RecordOK(jobs[j], Outcomes(log, j), Unknowns(log, j), toolStatus[j], effects[j])
    BY JobFacts
  <1> QED
    BY <1>1, <1>2, <1>3, <1>5, <1>6, <1>7, WriteStep

LEMMA PerformEffectStep ==
  ASSUME WorkerInv, WorkerTypeOK', NEW r \in Runners, PerformEffect(r)
  PROVE  WorkerInv'
  <1>1. PICK q \in {"succeeded", "rejected", "errored"} :
          /\ GoTo(r, q) /\ UNCHANGED <<on, claim>> /\ pc[r] = "executing"
          /\ jobs' = jobs /\ toolStatus' = toolStatus /\ log' = log
    BY DEF PerformEffect
  <1>2. PICK j \in Jobs : on[r] = j
    BY <1>1, RunnerFacts
  <1>3. /\ RunnerOK(pc[r], claim[r], jobs[j], Outcomes(log, j), Unknowns(log, j),
                    toolStatus[j], effects[j])
        /\ pc[r] \in ExecutingPCs /\ q \in ExecutingPCs /\ pc[r] \in WorkingPCs
    BY <1>1, <1>2, RunnerFacts DEF ExecutingPCs, WorkingPCs
  <1>4. effects[j] = 0 /\ Outcomes(log, j) = {} /\ ~Uncommitted(jobs[j])
    BY <1>1, <1>3 DEF RunnerOK
  <1>5. effects'[j] = 1 /\ \A k \in Jobs \ {j} : effects'[k] = effects[k]
    BY <1>2, <1>4 DEF PerformEffect, WorkerInv, WorkerTypeOK
  <1>6. RunnerOK(q, claim[r], jobs[j], Outcomes(log, j), Unknowns(log, j), toolStatus[j], effects'[j])
    <2>1. toolStatus[j] # "completed"
      BY <1>4, JobFacts DEF RecordOK
    <2> QED
      BY <1>3, <1>4, <1>5, <2>1, ExecutingMove
  <1>7. RecordOK(jobs[j], Outcomes(log, j), Unknowns(log, j), toolStatus[j], effects'[j])
    BY <1>4, <1>5, JobFacts DEF RecordOK
  <1> QED
    BY <1>1, <1>2, <1>3, <1>5, <1>6, <1>7, WriteStep

\* The status of a tool call as a runner may write it, with or without a claim.
LEMMA ToolStatusRow ==
  ASSUME NEW row, NEW out, NEW unk, NEW ts, NEW eff, NEW ts2,
         RecordOK(row, out, unk, ts, eff),
         \/ ts2 = "completed" /\ Succeeded(out)
         \/ ts2 = "failed" /\ (Refused(out) \/ Doomed(row))
  PROVE  RecordOK(row, out, unk, ts2, eff) /\ (Succeeded(out) => ts2 = "completed")
  <1>1. CASE ts2 = "completed" /\ Succeeded(out)
    BY <1>1 DEF RecordOK
  <1>2. CASE ts2 = "failed" /\ (Refused(out) \/ Doomed(row))
    <2>1. ~Succeeded(out)
      BY <1>2 DEF RecordOK, Doomed
    <2> QED
      BY <1>2, <2>1 DEF RecordOK
  <1> QED
    BY <1>1, <1>2

\* A runner moves on after it has written the status of the tool call.
LEMMA ToolStatusStep ==
  ASSUME WorkerInv, WorkerTypeOK', NEW r \in Runners, NEW j \in Jobs, on[r] = j, pc[r] # "idle",
         NEW ts2, set_tool_status(j, ts2), jobs' = jobs, log' = log, effects' = effects,
         \/ ts2 = "completed" /\ Succeeded(Outcomes(log, j))
         \/ ts2 = "failed" /\ (Refused(Outcomes(log, j)) \/ Doomed(jobs[j])),
         NEW q, GoTo(r, q), UNCHANGED <<on, claim>>,
         RunnerOK(q, claim[r], jobs[j], Outcomes(log, j), Unknowns(log, j), ts2, effects[j]),
         q \in WorkingPCs => pc[r] \in WorkingPCs,
         q \in ExecutingPCs => pc[r] \in ExecutingPCs
  PROVE  WorkerInv'
  <1>1. toolStatus'[j] = ts2 /\ \A k \in Jobs \ {j} : toolStatus'[k] = toolStatus[k]
    BY DEF WorkerInv, WorkerTypeOK, set_tool_status
  <1>2. RecordOK(jobs[j], Outcomes(log, j), Unknowns(log, j), toolStatus[j], effects[j])
    BY JobFacts
  <1>3. /\ RecordOK(jobs[j], Outcomes(log, j), Unknowns(log, j), ts2, effects[j])
        /\ Succeeded(Outcomes(log, j)) => ts2 = "completed"
    BY <1>2, ToolStatusRow
  <1> QED
    BY <1>1, <1>3, WriteStep

\* The file write that says completed before its event is on record: nobody
\* else is past the commit point, so no refusal can contradict it.
LEMMA RecordStatusEarlyStep ==
  ASSUME WorkerInv, WorkerTypeOK', NEW r \in Runners, RecordStatusEarly(r)
  PROVE  WorkerInv'
  <1>1. /\ pc[r] = "succeeded" /\ GoTo(r, "succeeded") /\ UNCHANGED <<on, claim>>
        /\ jobs' = jobs /\ log' = log /\ effects' = effects
    BY DEF RecordStatusEarly
  <1>2. PICK j \in Jobs : on[r] = j
    BY <1>1, RunnerFacts
  <1>3. toolStatus'[j] = "completed" /\ \A k \in Jobs \ {j} : toolStatus'[k] = toolStatus[k]
    BY <1>2 DEF RecordStatusEarly, WorkerInv, WorkerTypeOK, set_tool_status
  <1>4. /\ RunnerOK(pc[r], claim[r], jobs[j], Outcomes(log, j), Unknowns(log, j),
                    toolStatus[j], effects[j])
        /\ pc[r] \in ExecutingPCs /\ pc[r] \in WorkingPCs /\ pc[r] # "idle"
    BY <1>1, <1>2, RunnerFacts DEF ExecutingPCs, WorkingPCs
  <1>5. /\ Outcomes(log, j) = {} /\ effects[j] = 1 /\ ~Uncommitted(jobs[j])
        /\ \A e \in Outcomes(log, j) : e.attempt = claim[r].attempt /\ e.gen <= claim[r].gen
    BY <1>1, <1>4 DEF RunnerOK
  <1>6. RecordOK(jobs[j], Outcomes(log, j), Unknowns(log, j), "completed", effects[j])
    <2>1. ~Refused(Outcomes(log, j))
      BY <1>5 DEF Refused
    <2> QED
      BY <1>5, <2>1, JobFacts DEF RecordOK
  <1>7. RunnerOK("succeeded", claim[r], jobs[j], Outcomes(log, j), Unknowns(log, j),
                 "completed", effects[j])
    BY <1>1, <1>4, <1>5, ExecutingMove
  <1> QED
    BY <1>1, <1>2, <1>3, <1>4, <1>6, <1>7, WriteStep

LEMMA RecordToolStatusStep ==
  ASSUME WorkerInv, WorkerTypeOK', NEW r \in Runners, RecordToolStatus(r)
  PROVE  WorkerInv'
  <1>1. /\ pc[r] \in {"result_recorded", "error_recorded"} /\ UNCHANGED <<on, claim>>
        /\ jobs' = jobs /\ log' = log /\ effects' = effects
    BY DEF RecordToolStatus
  <1>2. PICK j \in Jobs : on[r] = j
    BY <1>1, RunnerFacts
  <1>3. /\ RunnerOK(pc[r], claim[r], jobs[j], Outcomes(log, j), Unknowns(log, j),
                    toolStatus[j], effects[j])
        /\ pc[r] \in ExecutingPCs /\ {"settle_ok", "settle_known"} \subseteq ExecutingPCs
        /\ pc[r] \in WorkingPCs /\ pc[r] # "idle"
    BY <1>1, <1>2, RunnerFacts DEF ExecutingPCs, WorkingPCs
  <1>4. \A e \in Outcomes(log, j) : e.attempt = claim[r].attempt /\ e.gen <= claim[r].gen
    BY <1>3 DEF RunnerOK
  <1>5. CASE pc[r] = "result_recorded"
    <2>1. set_tool_status(j, "completed") /\ GoTo(r, "settle_ok")
      BY <1>2, <1>5 DEF RecordToolStatus
    <2>2. Succeeded(Outcomes(log, j)) /\ effects[j] = 1
      BY <1>3, <1>5 DEF RunnerOK
    <2>3. RunnerOK("settle_ok", claim[r], jobs[j], Outcomes(log, j), Unknowns(log, j),
                   "completed", effects[j])
      BY <1>3, <1>4, <2>2, ExecutingMove
    <2> QED
      BY <1>1, <1>2, <1>3, <2>1, <2>2, <2>3, ToolStatusStep
  <1>6. CASE pc[r] = "error_recorded"
    <2>1. set_tool_status(j, "failed") /\ GoTo(r, "settle_known")
      BY <1>2, <1>6 DEF RecordToolStatus
    <2>2. Refused(Outcomes(log, j))
      BY <1>3, <1>6 DEF RunnerOK
    <2>3. RunnerOK("settle_known", claim[r], jobs[j], Outcomes(log, j), Unknowns(log, j),
                   "failed", effects[j])
      BY <1>3, <1>4, <2>2, ExecutingMove
    <2> QED
      BY <1>1, <1>2, <1>3, <2>1, <2>2, <2>3, ToolStatusStep
  <1> QED
    BY <1>1, <1>5, <1>6

LEMMA ReconcileAfterErrorStep ==
  ASSUME WorkerInv, WorkerTypeOK', NEW r \in Runners, ReconcileAfterError(r)
  PROVE  WorkerInv'
  <1>1. /\ pc[r] = "errored" /\ UNCHANGED <<on, claim>>
        /\ jobs' = jobs /\ log' = log /\ effects' = effects
    BY DEF ReconcileAfterError
  <1>2. PICK j \in Jobs : on[r] = j
    BY <1>1, RunnerFacts
  <1>3. /\ RunnerOK(pc[r], claim[r], jobs[j], Outcomes(log, j), Unknowns(log, j),
                    toolStatus[j], effects[j])
        /\ pc[r] \in ExecutingPCs /\ {"settle_ok", "unknown"} \subseteq ExecutingPCs
        /\ pc[r] \in WorkingPCs /\ pc[r] # "idle"
    BY <1>1, <1>2, RunnerFacts DEF ExecutingPCs, WorkingPCs
  <1>4. \A e \in Outcomes(log, j) : e.attempt = claim[r].attempt /\ e.gen <= claim[r].gen
    BY <1>3 DEF RunnerOK
  <1>5. RecordOK(jobs[j], Outcomes(log, j), Unknowns(log, j), toolStatus[j], effects[j])
    BY JobFacts
  <1>6. CASE DurableOutcome(j, claim[r]) = "success"
    <2>1. set_tool_status(j, "completed") /\ GoTo(r, "settle_ok")
      BY <1>2, <1>6 DEF ReconcileAfterError
    <2>2. Succeeded(Outcomes(log, j)) /\ effects[j] = 1
      BY <1>5, <1>6, DurableFacts DEF RecordOK
    <2>3. RunnerOK("settle_ok", claim[r], jobs[j], Outcomes(log, j), Unknowns(log, j),
                   "completed", effects[j])
      BY <1>3, <1>4, <2>2, ExecutingMove
    <2> QED
      BY <1>1, <1>2, <1>3, <2>1, <2>2, <2>3, ToolStatusStep
  <1>7. CASE DurableOutcome(j, claim[r]) = "failure"
    <2>1. set_tool_status(j, "failed") /\ GoTo(r, "unknown")
      BY <1>2, <1>7 DEF ReconcileAfterError
    <2>2. Refused(Outcomes(log, j))
      BY <1>7, DurableFacts DEF Refused
    <2>3. ~Succeeded(Outcomes(log, j))
      BY <1>5, <2>2 DEF RecordOK
    <2>4. RunnerOK("unknown", claim[r], jobs[j], Outcomes(log, j), Unknowns(log, j),
                   "failed", effects[j])
      BY <1>3, <1>4, <2>3, ExecutingMove
    <2> QED
      BY <1>1, <1>2, <1>3, <2>1, <2>2, <2>4, ToolStatusStep
  <1>8. CASE DurableOutcome(j, claim[r]) = "unknown"
    <2>1. toolStatus' = toolStatus /\ GoTo(r, "unknown")
      BY <1>2, <1>8 DEF ReconcileAfterError
    <2>2. ~Succeeded(Outcomes(log, j))
      BY <1>4, <1>8, DurableFacts
    <2>3. RunnerOK("unknown", claim[r], jobs[j], Outcomes(log, j), Unknowns(log, j),
                   toolStatus[j], effects[j])
      BY <1>3, <1>4, <2>2, ExecutingMove
    <2> QED
      BY <1>1, <1>2, <1>3, <1>5, <2>1, <2>3, WriteStep
  <1> QED
    BY <1>6, <1>7, <1>8, DurableFacts

LEMMA ReconcileSuccessStep ==
  ASSUME WorkerInv, WorkerTypeOK', NEW r \in Runners, ReconcileSuccess(r)
  PROVE  WorkerInv'
  <1>1. /\ pc[r] = "reconcile" /\ GoTo(r, "finalizing") /\ UNCHANGED <<on, claim>>
        /\ jobs' = jobs /\ log' = log /\ effects' = effects
    BY DEF ReconcileSuccess
  <1>2. PICK j \in Jobs : on[r] = j
    BY <1>1, RunnerFacts
  <1>3. set_tool_status(j, "completed") /\ Succeeded(Outcomes(log, j))
    BY <1>2, DurableFacts DEF ReconcileSuccess
  <1>4. RunnerOK(pc[r], claim[r], jobs[j], Outcomes(log, j), Unknowns(log, j),
                 toolStatus[j], effects[j])
    BY <1>1, <1>2, RunnerFacts
  <1>5. /\ {"reconcile", "finalizing"} \subseteq WorkingPCs /\ "finalizing" \notin ExecutingPCs
        /\ StatusAt("reconcile") = StatusAt("finalizing") /\ "finalizing" \in SettlingPCs
    BY DEF WorkingPCs, ExecutingPCs, FinalizingPCs, StatusAt, SettlingPCs
  <1>6. Informed("finalizing", claim[r], jobs[j]) /\ ~claim[r].error
    BY <1>1, <1>4, <1>5 DEF RunnerOK, Informed
  <1>7. RunnerOK("finalizing", claim[r], jobs[j], Outcomes(log, j), Unknowns(log, j),
                 "completed", effects[j])
    BY <1>1, <1>3, <1>4, <1>5, <1>6 DEF RunnerOK
  <1> QED
    BY <1>1, <1>2, <1>3, <1>5, <1>7, ToolStatusStep

LEMMA RecordFailedTailStep ==
  ASSUME Backend = "postgres", WorkerInv, WorkerTypeOK', NEW r \in Runners, RecordFailedTail(r)
  PROVE  WorkerInv'
  <1>1. /\ pc[r] = "finalizing" /\ GoTo(r, "tail_done") /\ UNCHANGED <<on, claim>>
        /\ jobs' = jobs /\ log' = log /\ effects' = effects /\ claim[r].error /\ ~WillQueue(r)
    BY DEF RecordFailedTail
  <1>2. PICK j \in Jobs : on[r] = j
    BY <1>1, RunnerFacts
  <1>3. set_tool_status(j, "failed")
    BY <1>2 DEF RecordFailedTail
  <1>4. /\ RunnerOK(pc[r], claim[r], jobs[j], Outcomes(log, j), Unknowns(log, j),
                    toolStatus[j], effects[j])
        /\ claim[r].attempt \in Nat /\ MaxAttempts \in Nat
    BY <1>1, <1>2, RunnerFacts, QueueAssumption
  <1>5. /\ {"tail_done", "finalizing"} \subseteq WorkingPCs /\ "tail_done" \notin ExecutingPCs
        /\ "finalizing" \notin ExecutingPCs
        /\ StatusAt("tail_done") = StatusAt("finalizing") /\ {"finalizing", "tail_done"} \subseteq SettlingPCs
    BY DEF WorkingPCs, ExecutingPCs, FinalizingPCs, StatusAt, SettlingPCs
  <1>6. Refused(Outcomes(log, j)) \/ Doomed(jobs[j])
    <2>1. CASE claim[r].stage = "tool_known_failure"
      BY <1>1, <1>4, <1>5, <2>1 DEF RunnerOK, PrecommitStages, Refused
    <2>2. CASE claim[r].stage # "tool_known_failure"
      <3>1. claim[r].attempt >= MaxAttempts
        BY <1>1, <1>4, <2>2 DEF WillQueue, Retryable
      <3> QED
        BY <1>1, <1>4, <1>5, <2>2, <3>1 DEF RunnerOK
    <2> QED
      BY <2>1, <2>2
  <1>7. Informed("tail_done", claim[r], jobs[j])
    BY <1>1, <1>4, <1>5 DEF RunnerOK, Informed
  <1>8. RunnerOK("tail_done", claim[r], jobs[j], Outcomes(log, j), Unknowns(log, j),
                 "failed", effects[j])
    BY <1>1, <1>4, <1>5, <1>7 DEF RunnerOK
  <1> QED
    BY <1>1, <1>2, <1>3, <1>5, <1>6, <1>8, ToolStatusStep

LEMMA AppendFacts ==
  ASSUME NEW e, NEW j, append_event_once(e), e.job = j
  PROVE  /\ \A k : k # j => Outcomes(log', k) = Outcomes(log, k) /\ Unknowns(log', k) = Unknowns(log, k)
         /\ e.kind \in {"tool.result", "tool.error"} =>
               /\ Outcomes(log', j) = Outcomes(log, j) \cup {e}
               /\ Unknowns(log', j) = Unknowns(log, j)
         /\ e.kind = "execution.outcome_unknown" =>
               /\ Outcomes(log', j) = Outcomes(log, j)
               /\ Unknowns(log', j) = Unknowns(log, j) \cup {e}
  BY DEF append_event_once, Outcomes, Unknowns

LEMMA AppendOutcomeStep ==
  ASSUME WorkerInv, WorkerTypeOK', NEW r \in Runners, AppendOutcome(r)
  PROVE  WorkerInv'
  <1>1. /\ pc[r] \in {"succeeded", "rejected"} /\ StillHolds(r) /\ UNCHANGED <<on, claim>>
        /\ jobs' = jobs /\ toolStatus' = toolStatus /\ effects' = effects
    BY DEF AppendOutcome
  <1>2. PICK j \in Jobs : on[r] = j
    BY <1>1, RunnerFacts
  <1>3. PICK kind, q :
          /\ \/ pc[r] = "succeeded" /\ kind = "tool.result" /\ q = "result_recorded"
             \/ pc[r] = "rejected" /\ kind = "tool.error" /\ q = "error_recorded"
          /\ GoTo(r, q) /\ append_event_once(OutcomeEvent(r, kind))
    BY DEF AppendOutcome
  <1> DEFINE e == OutcomeEvent(r, kind)
  <1>4. e.job = j /\ e.kind = kind /\ e.attempt = claim[r].attempt /\ e.gen = claim[r].gen
    BY <1>2 DEF OutcomeEvent, EventOf
  <1>5. append_event_once(e)
    BY <1>3
  <1> HIDE DEF e
  <1>6. /\ RunnerOK(pc[r], claim[r], jobs[j], Outcomes(log, j), Unknowns(log, j),
                    toolStatus[j], effects[j])
        /\ pc[r] \in ExecutingPCs /\ pc[r] \in WorkingPCs /\ claim[r].gen \in Nat
        /\ q \in ExecutingPCs
    BY <1>1, <1>2, <1>3, RunnerFacts DEF ExecutingPCs, WorkingPCs
  <1>7. /\ claim[r].gen = jobs[j].gen /\ jobs[j].status = "executing"
        /\ claim[r].attempt = jobs[j].attempt
    BY <1>1, <1>2, <1>6 DEF StillHolds, OwnsClaim, RunnerOK, StatusAt, ExecutingPCs
  <1>8. Outcomes(log, j) = {} /\ (pc[r] = "succeeded" => effects[j] = 1)
    BY <1>1, <1>6 DEF RunnerOK
  <1>9. /\ Outcomes(log', j) = {e} /\ Unknowns(log', j) = Unknowns(log, j)
        /\ \A k \in Jobs \ {j} : Outcomes(log', k) = Outcomes(log, k) /\ Unknowns(log', k) = Unknowns(log, k)
    BY <1>3, <1>4, <1>5, <1>8, AppendFacts
  <1>10. /\ kind = "tool.result" => Succeeded({e}) /\ ~Refused({e})
         /\ kind = "tool.error" => Refused({e}) /\ ~Succeeded({e})
    BY <1>4 DEF Succeeded, Refused
  <1>11. RecordOK(jobs[j], {e}, Unknowns(log, j), toolStatus[j], effects[j])
    <2>1. RecordOK(jobs[j], {}, Unknowns(log, j), toolStatus[j], effects[j])
      BY <1>8, JobFacts
    <2>2. ~Uncommitted(jobs[j]) /\ ~Doomed(jobs[j]) /\ ~jobs[j].error
      BY <1>7, <2>1 DEF Uncommitted, Doomed, RecordOK, StageOK
    <2>3. ~Succeeded({}) /\ ~Refused({})
      BY DEF Succeeded, Refused
    <2>4. /\ toolStatus[j] # "failed"
          /\ toolStatus[j] = "completed" => kind = "tool.result"
      BY <1>3, <1>6, <2>1, <2>2, <2>3 DEF RecordOK, RunnerOK
    <2> QED
      BY <1>3, <1>4, <1>6, <1>7, <1>8, <1>10, <2>1, <2>2, <2>4 DEF RecordOK
  <1>12. RunnerOK(q, claim[r], jobs[j], {e}, Unknowns(log, j), toolStatus[j], effects[j])
    BY <1>3, <1>4, <1>6, <1>8, <1>10, ExecutingMove
  <1>13. GoTo(r, q) /\ pc[r] # "idle"
    BY <1>1, <1>3
  <1> QED
    BY <1>1, <1>2, <1>6, <1>7, <1>8, <1>9, <1>11, <1>12, <1>13, WriteStep

LEMMA RecordUnknownEvidenceStep ==
  ASSUME WorkerInv, WorkerTypeOK', NEW r \in Runners, RecordUnknownEvidence(r)
  PROVE  WorkerInv'
  <1>1. /\ pc[r] \in {"unknown", "reconcile"} /\ StillHolds(r) /\ UNCHANGED <<on, claim>>
        /\ jobs' = jobs /\ toolStatus' = toolStatus /\ effects' = effects
    BY DEF RecordUnknownEvidence
  <1>2. PICK j \in Jobs : on[r] = j
    BY <1>1, RunnerFacts
  <1> DEFINE e == UnknownEvent(r)
  <1>3. e.job = j /\ e.kind = "execution.outcome_unknown" /\ e.attempt = claim[r].attempt
    BY <1>2 DEF UnknownEvent, EventOf
  <1>4. append_event_once(e)
    BY DEF RecordUnknownEvidence
  <1> HIDE DEF e
  <1>5. /\ RunnerOK(pc[r], claim[r], jobs[j], Outcomes(log, j), Unknowns(log, j),
                    toolStatus[j], effects[j])
        /\ pc[r] \in WorkingPCs /\ claim[r].gen \in Nat /\ pc[r] # "idle"
    BY <1>1, <1>2, RunnerFacts DEF ExecutingPCs, FinalizingPCs, WorkingPCs
  <1>6. /\ Outcomes(log', j) = Outcomes(log, j) /\ Unknowns(log', j) = Unknowns(log, j) \cup {e}
        /\ \A k \in Jobs \ {j} : Outcomes(log', k) = Outcomes(log, k) /\ Unknowns(log', k) = Unknowns(log, k)
    BY <1>3, <1>4, AppendFacts
  <1>7. Evidence(Unknowns(log', j), claim[r].attempt)
    BY <1>3, <1>6 DEF Evidence
  <1>8. RecordOK(jobs[j], Outcomes(log, j), Unknowns(log, j), toolStatus[j], effects[j])
    BY JobFacts
  <1>9. RecordOK(jobs[j], Outcomes(log', j), Unknowns(log', j), toolStatus[j], effects[j])
    <2>1. \A a : Evidence(Unknowns(log, j), a) => Evidence(Unknowns(log', j), a)
      BY <1>6 DEF Evidence
    <2> QED
      BY <1>6, <1>8, <2>1 DEF RecordOK
  <1>10. CASE pc[r] = "unknown"
    <2>1. GoTo(r, "mark_unknown")
      BY <1>10 DEF RecordUnknownEvidence
    <2>2. /\ {"unknown", "mark_unknown"} \subseteq ExecutingPCs
          /\ ~Succeeded(Outcomes(log, j))
          /\ \A d \in Outcomes(log, j) : d.attempt = claim[r].attempt /\ d.gen <= claim[r].gen
      BY <1>5, <1>10 DEF RunnerOK, ExecutingPCs
    <2>3. RunnerOK("mark_unknown", claim[r], jobs[j], Outcomes(log', j), Unknowns(log', j),
                   toolStatus[j], effects[j])
      BY <1>5, <1>6, <1>7, <1>10, <2>2, ExecutingMove
    <2> QED
      BY <1>1, <1>2, <1>5, <1>6, <1>9, <1>10, <2>1, <2>2, <2>3, WriteStep
  <1>11. CASE pc[r] = "reconcile"
    <2>1. GoTo(r, "reconcile_unknown") /\ DurableOutcome(j, claim[r]) = "unknown"
      BY <1>2, <1>11 DEF RecordUnknownEvidence
    <2>2. /\ {"reconcile", "reconcile_unknown"} \subseteq WorkingPCs
          /\ "reconcile_unknown" \notin ExecutingPCs /\ "reconcile" \notin ExecutingPCs
          /\ StatusAt("reconcile") = StatusAt("reconcile_unknown")
          /\ "reconcile_unknown" \notin SettlingPCs
      BY DEF WorkingPCs, ExecutingPCs, FinalizingPCs, StatusAt, SettlingPCs
    <2>3. claim[r].gen = jobs[j].gen /\ claim[r].attempt = jobs[j].attempt
      BY <1>1, <1>2, <1>5, <1>11, <2>2 DEF StillHolds, OwnsClaim, RunnerOK, Informed
    <2>4. ~Succeeded(Outcomes(log, j))
      BY <1>8, <2>1, <2>3, DurableFacts DEF RecordOK
    <2>5. Informed("reconcile_unknown", claim[r], jobs[j])
      BY <1>5, <1>11, <2>2 DEF RunnerOK, Informed
    <2>6. RunnerOK("reconcile_unknown", claim[r], jobs[j], Outcomes(log', j), Unknowns(log', j),
                   toolStatus[j], effects[j])
      BY <1>5, <1>6, <1>7, <1>11, <2>2, <2>4, <2>5 DEF RunnerOK
    <2> QED
      BY <1>1, <1>2, <1>5, <1>6, <1>9, <2>1, <2>2, <2>6, WriteStep
  <1> QED
    BY <1>1, <1>10, <1>11

-----------------------------------------------------------------------------
(* The operator, the clock and the end of a cancellation *)

\* The row moves under runners that are not past the commit point, or keeps
\* what they know of it.
LEMMA JobRowStep ==
  ASSUME WorkerInv, WorkerTypeOK', NEW j \in Jobs, NEW R \in SUBSET Runners, \A r, s \in R : r = s,
         \A k \in Jobs \ {j} : jobs'[k] = jobs[k], UNCHANGED recordVars,
         \A r \in R : pc'[r] = "idle",
         \A s \in Runners \ R : pc'[s] = pc[s] /\ on'[s] = on[s] /\ claim'[s] = claim[s],
         RecordOK(jobs'[j], Outcomes(log, j), Unknowns(log, j), toolStatus[j], effects[j]),
         RowMoves(jobs[j], jobs'[j]),
         \/ SameRow(jobs[j], jobs'[j])
         \/ /\ jobs[j].status \in {"queued", "running", "cancel_requested"}
            /\ jobs'[j].status \in {"cancel_requested", "canceled"}
            /\ jobs'[j].gen = jobs[j].gen
         \/ jobs[j].status = "absent"
  PROVE  WorkerInv'
  <1>1. /\ toolStatus' = toolStatus /\ effects' = effects
        /\ \A k : Outcomes(log', k) = Outcomes(log, k) /\ Unknowns(log', k) = Unknowns(log, k)
    BY SameRecord
  <1>2. Touches(R, j)
    BY <1>1 DEF Touches
  <1>3. JobRecordOK(j)'
    BY <1>1 DEF JobRecordOK
  <1>4. \A r \in R : OwnStepOK(r, j)
    BY DEF OwnStepOK
  <1>5. ASSUME NEW s \in Runners \ R, pc[s] # "idle", on[s] = j
        PROVE  Bystander(pc[s], claim[s], jobs[j], jobs'[j])
    <2>1. /\ RunnerOK(pc[s], claim[s], jobs[j], Outcomes(log, j), Unknowns(log, j),
                      toolStatus[j], effects[j])
          /\ claim[s].gen \in Nat /\ jobs[j].gen \in Nat
      BY <1>5, RunnerFacts, JobFacts
    <2>2. CASE SameRow(jobs[j], jobs'[j])
      <3>1. Uncommitted(jobs[j]) <=> Uncommitted(jobs'[j])
        BY <2>2 DEF SameRow, Uncommitted
      <3> QED
        BY <2>1, <2>2, <3>1 DEF Bystander, RunnerOK
    <2>3. CASE /\ jobs[j].status \in {"queued", "running", "cancel_requested"}
               /\ jobs'[j].status \in {"cancel_requested", "canceled"}
               /\ jobs'[j].gen = jobs[j].gen
      <3>1. pc[s] \notin ExecutingPCs
        BY <2>1, <2>3 DEF RunnerOK, Uncommitted
      <3>2. claim[s].gen <= jobs[j].gen
        BY <2>1 DEF RunnerOK
      <3>3. claim[s].gen = jobs[j].gen /\ pc[s] \in WorkingPCs => pc[s] = "precommit"
        <4>1. pc[s] \in WorkingPCs => claim[s].status \in {"running", "finalizing"} /\
                   (claim[s].status = "running" => pc[s] = "precommit")
          BY <2>1, <3>1, KnownStatus DEF RunnerOK
        <4> QED
          BY <2>1, <2>3, <4>1 DEF RunnerOK, Informed
      <3> QED
        BY <2>1, <2>3, <3>1, <3>2, <3>3 DEF Bystander
    <2> QED
      BY <2>1, <2>2, <2>3 DEF RunnerOK
  <1>6. OthersGoOn(R, j)
    BY <1>1, <1>5 DEF OthersGoOn
  <1> QED
    BY <1>2, <1>3, <1>4, <1>6, OneJobStep

\* A row before its commit point is canceled, or a lease expires.
LEMMA UncommittedRow ==
  ASSUME NEW row \in Job, NEW new \in Job, NEW out, NEW unk, NEW ts, NEW eff,
         RecordOK(row, out, unk, ts, eff),
         new.gen >= row.gen,
         row.status \in {"absent", "queued", "running", "cancel_requested"},
         new.status \in {"queued", "cancel_requested", "canceled"}
  PROVE  RecordOK(new, out, unk, ts, eff) /\ RowMoves(row, new)
  <1>1. /\ Uncommitted(row) /\ Uncommitted(new) /\ ~Doomed(row) /\ eff = 0 /\ out = {}
        /\ ~Succeeded(out) /\ ~Refused(out)
    BY DEF RecordOK, Uncommitted, Doomed, Succeeded, Refused
  <1>2. RecordOK(new, out, unk, ts, eff)
    BY <1>1 DEF RecordOK, StageOK
  <1> QED
    BY <1>1, <1>2 DEF RowMoves

LEMMA OperatorStep ==
  ASSUME WorkerInv, QueueInv, WorkerTypeOK', NEW j \in Jobs,
         EnqueueApproved(j) \/ RequestCancel(j) \/ Expire(j)
  PROVE  WorkerInv'
  <1>1. UNCHANGED recordVars /\ pc' = pc /\ on' = on /\ claim' = claim
    BY DEF EnqueueApproved, RequestCancel, Expire, runnerVars
  <1> DEFINE R == {}
  <1>0. /\ R \in SUBSET Runners /\ (\A r, s \in R : r = s) /\ (\A r \in R : pc'[r] = "idle")
        /\ \A s \in Runners \ R : pc'[s] = pc[s] /\ on'[s] = on[s] /\ claim'[s] = claim[s]
    BY <1>1
  <1> HIDE DEF R
  <1>2. /\ jobs[j] \in Job /\ jobs'[j] \in Job /\ jobs[j].gen \in Nat /\ jobs[j].attempt \in Nat
        /\ RecordOK(jobs[j], Outcomes(log, j), Unknowns(log, j), toolStatus[j], effects[j])
    BY JobFacts DEF WorkerTypeOK, QueueTypeOK
  <1>3. CASE EnqueueApproved(j)
    <2>1. /\ jobs[j].status = "absent" /\ jobs'[j] = [NoJob EXCEPT !.status = "queued"]
          /\ \A k \in Jobs \ {j} : jobs'[k] = jobs[k]
      BY <1>3, PutRecord DEF EnqueueApproved, enqueue, WorkerInv
    <2>2. jobs'[j].status = "queued" /\ jobs'[j].gen = 0
      BY <2>1 DEF NoJob
    <2>3. jobs[j].gen = 0
      BY <1>2, <2>1 DEF RecordOK, StageOK
    <2>4. /\ RecordOK(jobs'[j], Outcomes(log, j), Unknowns(log, j), toolStatus[j], effects[j])
          /\ RowMoves(jobs[j], jobs'[j])
      <3>1. jobs[j].status = "absent" /\ jobs'[j].gen >= jobs[j].gen
        BY <2>1, <2>2, <2>3
      <3> QED
        BY <1>2, <2>2, <3>1, UncommittedRow
    <2>5. jobs[j].status = "absent" /\ \A k \in Jobs \ {j} : jobs'[k] = jobs[k]
      BY <2>1
    <2> QED
      BY <1>0, <1>1, <2>4, <2>5, JobRowStep
  <1>4. CASE RequestCancel(j)
    <2>1. /\ jobs[j].status \in {"queued", "running"}
          /\ jobs'[j] = [jobs[j] EXCEPT !.status = "cancel_requested", !.stage = "cancellation_pending"]
          /\ \A k \in Jobs \ {j} : jobs'[k] = jobs[k]
      BY <1>4, PutRecord DEF RequestCancel, cancel, WorkerInv
    <2>2. /\ jobs'[j].status = "cancel_requested" /\ jobs'[j].gen = jobs[j].gen
          /\ jobs'[j].attempt = jobs[j].attempt
      BY <1>2, <2>1 DEF Job
    <2>3. /\ RecordOK(jobs'[j], Outcomes(log, j), Unknowns(log, j), toolStatus[j], effects[j])
          /\ RowMoves(jobs[j], jobs'[j])
      <3>1. jobs[j].status \in {"queued", "running"} /\ jobs'[j].gen >= jobs[j].gen
        BY <1>2, <2>1, <2>2
      <3> QED
        BY <1>2, <2>2, <3>1, UncommittedRow
    <2>4. jobs[j].status \in {"queued", "running"} /\ \A k \in Jobs \ {j} : jobs'[k] = jobs[k]
      BY <2>1
    <2> QED
      BY <1>0, <1>1, <2>2, <2>3, <2>4, JobRowStep
  <1>5. CASE Expire(j)
    <2>1. /\ jobs[j].lease = "live" /\ jobs'[j] = [jobs[j] EXCEPT !.lease = "expired"]
          /\ \A k \in Jobs \ {j} : jobs'[k] = jobs[k]
      BY <1>5, PutRecord DEF Expire, LeaseExpires, WorkerInv
    <2>2. SameRow(jobs[j], jobs'[j])
      BY <1>2, <2>1 DEF Job, SameRow
    <2>3. jobs[j].status # "absent"
      BY <2>1 DEF QueueInv, ClaimWellFormed
    <2>4. /\ Uncommitted(jobs'[j]) <=> Uncommitted(jobs[j])
          /\ Doomed(jobs'[j]) <=> Doomed(jobs[j])
          /\ StageOK(jobs'[j]) <=> StageOK(jobs[j])
      BY <2>2 DEF SameRow, Uncommitted, Doomed, StageOK
    <2>5. RecordOK(jobs'[j], Outcomes(log, j), Unknowns(log, j), toolStatus[j], effects[j])
      BY <1>2, <2>2, <2>4 DEF RecordOK, SameRow
    <2>6. RowMoves(jobs[j], jobs'[j])
      BY <1>2, <2>2, <2>3, <2>4 DEF RowMoves, SameRow
    <2>7. \A k \in Jobs \ {j} : jobs'[k] = jobs[k]
      BY <2>1
    <2> QED
      BY <1>0, <1>1, <2>2, <2>5, <2>6, <2>7, JobRowStep
  <1> QED
    BY <1>3, <1>4, <1>5

LEMMA AcknowledgeCanceledStep ==
  ASSUME WorkerInv, WorkerTypeOK', NEW r \in Runners, AcknowledgeCanceled(r)
  PROVE  WorkerInv'
  <1>1. PICK j \in Jobs : on[r] = j
    BY RunnerFacts DEF AcknowledgeCanceled
  <1>2. /\ jobs[j] \in Job /\ jobs'[j] \in Job /\ jobs[j].gen \in Nat
        /\ RecordOK(jobs[j], Outcomes(log, j), Unknowns(log, j), toolStatus[j], effects[j])
    BY JobFacts DEF WorkerTypeOK, QueueTypeOK
  <1>3. /\ jobs[j].status = "cancel_requested" /\ UNCHANGED recordVars /\ Leave(r)
        /\ jobs'[j] = [jobs[j] EXCEPT !.status = "canceled", !.lease = "none"]
        /\ \A k \in Jobs \ {j} : jobs'[k] = jobs[k]
    BY <1>1, PutRecord DEF AcknowledgeCanceled, acknowledge_canceled, WorkerInv
  <1>4. jobs'[j].status = "canceled" /\ jobs'[j].gen = jobs[j].gen
    BY <1>2, <1>3 DEF Job
  <1>5. /\ jobs[j].status = "cancel_requested" /\ jobs'[j].gen >= jobs[j].gen
        /\ UNCHANGED recordVars /\ \A k \in Jobs \ {j} : jobs'[k] = jobs[k]
    BY <1>2, <1>3, <1>4
  <1>6. /\ RecordOK(jobs'[j], Outcomes(log, j), Unknowns(log, j), toolStatus[j], effects[j])
        /\ RowMoves(jobs[j], jobs'[j])
    BY <1>2, <1>4, <1>5, UncommittedRow
  <1> DEFINE R == {r}
  <1>7. /\ R \in SUBSET Runners /\ (\A q, s \in R : q = s) /\ (\A s \in R : pc'[s] = "idle")
        /\ \A s \in Runners \ R : pc'[s] = pc[s] /\ on'[s] = on[s] /\ claim'[s] = claim[s]
    BY <1>3, Moves DEF WorkerInv, OthersStay
  <1> HIDE DEF R
  <1> QED
    BY <1>4, <1>5, <1>6, <1>7, JobRowStep

LEMMA AdoptCancellationStep ==
  ASSUME WorkerInv, WorkerTypeOK', NEW r \in Runners, NEW j \in Jobs, AdoptCancellation(r, j)
  PROVE  WorkerInv'
  <1>1. /\ jobs' = jobs /\ UNCHANGED recordVars /\ jobs[j].status = "cancel_requested"
        /\ Take(r, j, "canceling")
    BY DEF AdoptCancellation
  <1>2. /\ toolStatus' = toolStatus /\ effects' = effects
        /\ \A k : Outcomes(log', k) = Outcomes(log, k) /\ Unknowns(log', k) = Unknowns(log, k)
    BY <1>1, SameRecord
  <1>3. pc'[r] = "canceling" /\ on'[r] = j /\ claim'[r] = jobs[j] /\ OthersStay(r)
    BY <1>1, Moves DEF WorkerInv
  <1>4. Touches({r}, j)
    BY <1>1, <1>2, <1>3 DEF Touches, OthersStay
  <1>5. JobRecordOK(j)'
    BY <1>1, <1>2 DEF JobRecordOK, WorkerInv
  <1>6. jobs[j].gen \in Nat
    BY JobFacts
  <1>7. ASSUME NEW s \in Runners \ {r}, pc[s] # "idle", on[s] = j
        PROVE  Bystander(pc[s], claim[s], jobs[j], jobs[j])
    BY <1>7, RunnerFacts DEF Bystander, SameRow, RunnerOK
  <1>8. OthersGoOn({r}, j)
    BY <1>1, <1>2, <1>6, <1>7 DEF OthersGoOn, RowMoves
  <1>9. OwnStepOK(r, j)
    <2>1. /\ "canceling" \in CancelPCs /\ StatusAt("canceling") = "cancel_requested"
          /\ "canceling" \notin ExecutingPCs /\ "canceling" \notin WorkingPCs
      BY DEF CancelPCs, StatusAt, ExecutingPCs, FinalizingPCs, WorkingPCs
    <2>2. \A out, unk, ts, eff : RunnerOK("canceling", jobs[j], jobs[j], out, unk, ts, eff)
      BY <1>1, <1>6, <2>1 DEF RunnerOK, Informed, SettlingPCs
    <2> QED
      BY <1>1, <1>3, <2>1, <2>2 DEF OwnStepOK
  <1> QED
    BY <1>4, <1>5, <1>8, <1>9, OneJobStep

LEMMA WorkerInvInit ==
  ASSUME WorkerInit
  PROVE  WorkerInv
  <1>1. WorkerTypeOK
    BY WorkerTypeInit
  <1>2. ASSUME NEW j \in Jobs PROVE JobRecordOK(j)
    <2>1. /\ jobs[j] = NoJob /\ Outcomes(log, j) = {} /\ Unknowns(log, j) = {}
          /\ toolStatus[j] = "running" /\ effects[j] = 0
      BY DEF WorkerInit, QueueInit, Outcomes, Unknowns
    <2> QED
      BY <2>1 DEF JobRecordOK, RecordOK, StageOK, NoJob, Succeeded, Refused
  <1>3. \A r \in Runners : RunnerRecordOK(r)
    BY DEF WorkerInit, RunnerRecordOK
  <1>4. \A r, s \in Runners : Alone(r, s)
    BY DEF WorkerInit, Alone, WorkingPCs, ExecutingPCs, FinalizingPCs
  <1> QED
    BY <1>1, <1>2, <1>3, <1>4 DEF WorkerInv

\* The tail of the in-memory queue does not exist in Postgres.
LEMMA NoPublication ==
  ASSUME Backend = "postgres", WorkerInv, NEW r \in Runners
  PROVE  /\ ~PrepareTail(r) /\ ~PublishTail(r)
         /\ \A j \in Jobs : ~ClaimPublication(r, j)
  <1>1. ~PrepareTail(r)
    BY DEF PrepareTail, NeedsPrepare
  <1>2. ~PublishTail(r)
    <2>1. "publish" \notin WorkingPCs \cup CancelPCs
      BY DEF WorkingPCs, CancelPCs, ExecutingPCs, FinalizingPCs
    <2> QED
      BY <2>1, RunnerFacts DEF PublishTail, RunnerOK
  <1>3. ASSUME NEW j \in Jobs PROVE ~ClaimPublication(r, j)
    <2>1. StageOK(jobs[j])
      BY JobFacts DEF RecordOK
    <2> QED
      BY <2>1 DEF ClaimPublication, StageOK, PrecommitStages
  <1> QED
    BY <1>1, <1>2, <1>3

LEMMA WorkerInvStep ==
  ASSUME Backend = "postgres", WorkerInv, QueueInv, [WorkerNext]_vars
  PROVE  WorkerInv'
  <1>1. WorkerTypeOK'
    BY WorkerTypeStep DEF WorkerInv
  <1>2. CASE UNCHANGED vars
    BY <1>2 DEF vars, WorkerInv, WorkerTypeOK, QueueTypeOK, JobRecordOK, RunnerRecordOK, Alone
  <1>3. ASSUME NEW j \in Jobs, EnqueueApproved(j) \/ RequestCancel(j) \/ Expire(j)
        PROVE  WorkerInv'
    BY <1>1, <1>3, OperatorStep
  <1>4. ASSUME NEW r \in Runners, NEW j \in Jobs,
               Acquisition(r, j) \/ AdoptCancellation(r, j) \/ ClaimPublication(r, j)
        PROVE  WorkerInv'
    BY <1>1, <1>4, AcquisitionStep, AdoptCancellationStep, NoPublication
  <1>5. ASSUME NEW r \in Runners, RunnerStep(r) PROVE WorkerInv'
    <2>1. CASE Commit(r) \/ CommitWithConsumedToken(r)
      BY <1>1, <2>1, CommitStep
    <2>2. CASE FailPrecommit(r) \/ RetrySafeError(r) \/ BeginFinalizing(r)
      BY <1>1, <2>2, FinalizeStep
    <2>3. CASE MarkUnknown(r)
      BY <1>1, <2>3, MarkUnknownStep
    <2>4. CASE ReconcileFailure(r)
      BY <1>1, <2>4, ReconcileFailureStep
    <2>5. CASE Finish(r)
      BY <1>1, <2>5, FinishStep
    <2>6. CASE BeginCleanup(r)
      BY <1>1, <2>6, BeginCleanupStep
    <2>7. CASE RetryTailRefused(r) \/ Abandon(r)
      BY <1>1, <2>7, LeavingStep
    <2>8. CASE EndWithoutEffect(r) \/ StorageError(r) \/ RecordRetryTail(r) \/ RecordCanceled(r)
      BY <1>1, <2>8, SilentStep
    <2>9. CASE PerformEffect(r)
      BY <1>1, <2>9, PerformEffectStep
    <2>10. CASE RecordToolStatus(r) \/ RecordStatusEarly(r)
      BY <1>1, <2>10, RecordToolStatusStep, RecordStatusEarlyStep
    <2>11. CASE ReconcileAfterError(r)
      BY <1>1, <2>11, ReconcileAfterErrorStep
    <2>12. CASE ReconcileSuccess(r)
      BY <1>1, <2>12, ReconcileSuccessStep
    <2>13. CASE RecordFailedTail(r)
      BY <1>1, <2>13, RecordFailedTailStep
    <2>14. CASE AppendOutcome(r)
      BY <1>1, <2>14, AppendOutcomeStep
    <2>15. CASE RecordUnknownEvidence(r)
      BY <1>1, <2>15, RecordUnknownEvidenceStep
    <2>16. CASE AcknowledgeCanceled(r)
      BY <1>1, <2>16, AcknowledgeCanceledStep
    <2>17. CASE PrepareTail(r) \/ PublishTail(r)
      BY <2>17, NoPublication
    <2> QED
      BY <1>5, <2>1, <2>2, <2>3, <2>4, <2>5, <2>6, <2>7, <2>8, <2>9, <2>10, <2>11, <2>12,
         <2>13, <2>14, <2>15, <2>16, <2>17 DEF RunnerStep
  <1>6. ASSUME NEW r \in Runners, Crash(r) PROVE WorkerInv'
    BY <1>1, <1>6, LeavingStep
  <1> QED
    BY <1>2, <1>3, <1>4, <1>5, <1>6 DEF WorkerNext

LEMMA WorkerInvariant ==
  ASSUME Backend = "postgres"
  PROVE  WorkerSpec => [](WorkerInv /\ QueueInv)
  <1>1. WorkerInit => WorkerInv /\ QueueInv
    BY WorkerInvInit, WorkerTypeInit
  <1>2. WorkerInv /\ QueueInv /\ [WorkerNext]_vars => (WorkerInv /\ QueueInv)'
    BY WorkerInvStep, WorkerTypeStep DEF WorkerInv
  <1> QED
    BY <1>1, <1>2, PTL DEF WorkerSpec

LEMMA RecordFacts ==
  ASSUME WorkerInv
  PROVE  AtMostOneEffect /\ ResultIsNeverLost /\ VerdictIsBacked
  <1>1. AtMostOneEffect
    <2> SUFFICES ASSUME NEW j \in Jobs PROVE effects[j] <= 1
      BY DEF AtMostOneEffect
    <2>1. effects[j] \in {0, 1}
      BY JobFacts DEF RecordOK
    <2> QED
      BY <2>1
  <1>2. ASSUME NEW e \in log
        PROVE  /\ e.job \in Jobs
               /\ e.kind \in {"tool.result", "tool.error"} => e \in Outcomes(log, e.job)
    BY DEF WorkerInv, WorkerTypeOK, Event, Outcomes
  <1>3. ResultIsNeverLost
    BY <1>2, JobFacts DEF ResultIsNeverLost, RecordOK, Succeeded
  <1>4. CompletedIsBacked
    <2> SUFFICES ASSUME NEW j \in Jobs, jobs[j].status = "completed"
                 PROVE  /\ effects[j] = 1
                        /\ toolStatus[j] = "completed"
                        /\ \E e \in log : e.job = j /\ e.kind = "tool.result" /\ e.attempt = jobs[j].attempt
      BY DEF CompletedIsBacked
    <2>1. RecordOK(jobs[j], Outcomes(log, j), Unknowns(log, j), toolStatus[j], effects[j])
      BY JobFacts
    <2> QED
      BY <2>1 DEF RecordOK, Succeeded, Outcomes
  <1>5. UnknownIsBacked
    <2> SUFFICES ASSUME NEW j \in Jobs, jobs[j].status = "outcome_unknown"
                 PROVE  /\ \E e \in log : /\ e.job = j /\ e.kind = "execution.outcome_unknown"
                                          /\ e.attempt = jobs[j].attempt
                        /\ ~ \E e \in log : e.job = j /\ e.kind = "tool.result"
      BY DEF UnknownIsBacked
    <2>1. RecordOK(jobs[j], Outcomes(log, j), Unknowns(log, j), toolStatus[j], effects[j])
      BY JobFacts
    <2>2. ~Succeeded(Outcomes(log, j)) /\ Evidence(Unknowns(log, j), jobs[j].attempt)
      BY <2>1 DEF RecordOK
    <2> QED
      BY <2>2 DEF Succeeded, Outcomes, Evidence, Unknowns
  <1>6. NoOutcomeConflict
    <2> SUFFICES ASSUME NEW e \in log
                 PROVE  /\ e.kind = "tool.result" => toolStatus[e.job] # "failed"
                        /\ e.kind = "tool.error" => toolStatus[e.job] # "completed"
      BY JobFacts DEF NoOutcomeConflict, RecordOK
    <2>1. RecordOK(jobs[e.job], Outcomes(log, e.job), Unknowns(log, e.job), toolStatus[e.job],
                   effects[e.job])
      BY <1>2, JobFacts
    <2>2. /\ e.kind = "tool.result" => Succeeded(Outcomes(log, e.job))
          /\ e.kind = "tool.error" => Refused(Outcomes(log, e.job))
      BY <1>2 DEF Succeeded, Refused
    <2> QED
      BY <2>1, <2>2 DEF RecordOK, Doomed
  <1> QED
    BY <1>1, <1>3, <1>4, <1>5, <1>6 DEF VerdictIsBacked

\* With Postgres, whatever number of workers claim, crash, stall past their
\* lease, share a name, retry and recover, the outside world is changed at most
\* once per approved job.
THEOREM AtMostOneEffectHolds ==
  ASSUME Backend = "postgres"
  PROVE  WorkerSpec => []AtMostOneEffect
  BY WorkerInvariant, RecordFacts, PTL

\* With Postgres, a tool.result that append_tool_outcome made durable is never
\* contradicted: its job stays on the way to completed, under the same attempt.
THEOREM ResultIsNeverLostHolds ==
  ASSUME Backend = "postgres"
  PROVE  WorkerSpec => []ResultIsNeverLost
  BY WorkerInvariant, RecordFacts, PTL

\* With Postgres, the row's verdict, the session events and tool_calls.status,
\* which update_tool_call_status writes without a fence, tell one story.
THEOREM VerdictIsBackedHolds ==
  ASSUME Backend = "postgres"
  PROVE  WorkerSpec => []VerdictIsBacked
  BY WorkerInvariant, RecordFacts, PTL

-----------------------------------------------------------------------------
(* The promise to the approvals *)

\* What ApprovedAction allows the phase of an action to do, when the action has
\* happened a times.
PhaseMoves(p, q, a) ==
    \/ p = q
    \/ p = "none" /\ q = "open"
    \/ p = "open" /\ q \in {"committed", "canceled", "failed"}
    \/ p = "committed" /\ \/ q \in {"failed", "outcome_unknown"}
                          \/ q = "open" /\ a = 0
                          \/ q = "completed" /\ a = 1

LEMMA PhaseValues ==
  ASSUME NEW row
  PROVE  /\ row.status = "absent" => PhaseOf(row) = "none"
         /\ row.status \in {"queued", "running", "cancel_requested"} => PhaseOf(row) = "open"
         /\ row.status = "finalizing" /\ row.stage \in PrecommitStages => PhaseOf(row) = "open"
         /\ row.status = "finalizing" /\ row.stage \notin PrecommitStages => PhaseOf(row) = "committed"
         /\ row.status = "executing" => PhaseOf(row) = "committed"
         /\ row.status \in Terminal => PhaseOf(row) = row.status
  BY DEF PhaseOf, PrecommitStages, Terminal

\* What an operation of the queue does to status and stage of a row.
Turns(row, new) ==
    \/ row.status = "absent" /\ new.status = "queued"
    \/ row.status \in {"queued", "running"} /\ new.status \in {"running", "cancel_requested"}
    \/ row.status = "cancel_requested" /\ new.status \in {"cancel_requested", "canceled"}
    \/ row.status = "running" /\ new.status = "executing"
    \/ row.status = "executing" /\ new.status = "outcome_unknown"
    \/ row.status \in {"running", "executing"} /\ new.status = "finalizing"
    \/ row.status = "finalizing" /\ new.status = "finalizing" /\ new.stage = row.stage
    \/ row.status = "finalizing" /\ new.status = "finalizing" /\ new.stage = "tool_known_failure"
    \/ /\ row.status = "finalizing" /\ row.stage = "outcome_reconciliation"
       /\ new.status = "outcome_unknown"
    \/ row.status = "finalizing" /\ ~row.error /\ new.status = "completed"
    \/ row.status = "finalizing" /\ new.status \in {"queued", "failed"}
    \/ row.status = new.status /\ row.stage = new.stage

\* The phase a row passes to by an operation of the queue.
LEMMA RowPhases ==
  ASSUME NEW row \in Job, StageOK(row), NEW new \in Job, NEW a,
         Uncommitted(new) => a = 0, new.status = "completed" => a = 1,
         Turns(row, new)
  PROVE  PhaseMoves(PhaseOf(row), PhaseOf(new), a)
  <1>1. new.status \in {"queued", "running", "cancel_requested"} => Uncommitted(new)
    BY DEF Uncommitted
  <1>2. new.status = "finalizing" /\ new.stage \in PrecommitStages => Uncommitted(new)
    BY DEF Uncommitted
  <1>3. {"completed", "failed", "outcome_unknown", "canceled"} \subseteq Terminal
    BY DEF Terminal
  <1>4. row.status = "finalizing" /\ ~row.error => row.stage \notin PrecommitStages
    BY DEF StageOK, PrecommitStages
  <1>5. "outcome_reconciliation" \notin PrecommitStages /\ "tool_known_failure" \notin PrecommitStages
    BY DEF PrecommitStages
  <1>6. CASE row.status = new.status /\ row.stage = new.stage
    BY <1>6 DEF PhaseMoves, PhaseOf
  <1>7. CASE row.status \in {"absent", "queued", "running", "cancel_requested"}
             /\ ~(row.status = new.status /\ row.stage = new.stage)
    BY <1>3, <1>5, <1>7, PhaseValues DEF PhaseMoves, Turns
  <1>8. CASE row.status = "executing" /\ ~(row.status = new.status /\ row.stage = new.stage)
    BY <1>2, <1>3, <1>5, <1>8, PhaseValues DEF PhaseMoves, Turns
  <1>9. CASE row.status = "finalizing" /\ ~(row.status = new.status /\ row.stage = new.stage)
    BY <1>1, <1>2, <1>3, <1>4, <1>5, <1>9, PhaseValues DEF PhaseMoves, Turns
  <1> QED
    BY <1>6, <1>7, <1>8, <1>9 DEF Turns

LEMMA TurnsByQueue ==
  ASSUME NEW row \in Job, NEW w, NEW st \in Stages, NEW e \in BOOLEAN
  PROVE  /\ Turns(row, [row EXCEPT !.lease = "expired"])
         /\ row.status = "absent" => Turns(row, [NoJob EXCEPT !.status = "queued"])
         /\ row.status \in {"queued", "running"} =>
               /\ Turns(row, [row EXCEPT !.status = "cancel_requested", !.stage = st])
               /\ Turns(row, [status |-> "running", worker |-> w, lease |-> "live",
                              gen |-> row.gen + 1, attempt |-> row.attempt + 1,
                              error |-> FALSE, stage |-> "none"])
         /\ row.status = "running" => Turns(row, [row EXCEPT !.status = "executing"])
         /\ row.status \in {"running", "executing"} =>
               Turns(row, [row EXCEPT !.status = "finalizing", !.error = e, !.stage = st])
         /\ row.status = "executing" =>
               /\ Turns(row, [row EXCEPT !.status = "outcome_unknown", !.lease = "none", !.error = TRUE])
               /\ Turns(row, [row EXCEPT !.status = "finalizing", !.worker = w,
                              !.lease = "live", !.gen = @ + 1, !.error = FALSE,
                              !.stage = "outcome_reconciliation"])
         /\ row.status = "finalizing" =>
               /\ Turns(row, [row EXCEPT !.worker = w, !.lease = "live", !.gen = @ + 1])
               /\ Turns(row, [row EXCEPT !.error = TRUE, !.stage = "tool_known_failure"])
               /\ row.stage = "outcome_reconciliation" =>
                     Turns(row, [row EXCEPT !.status = "outcome_unknown", !.lease = "none",
                                            !.error = TRUE])
               /\ Turns(row, Finished(row, e))
         /\ row.status = "cancel_requested" =>
               /\ Turns(row, [row EXCEPT !.worker = w, !.lease = "live", !.gen = @ + 1,
                                         !.stage = "cancellation_pending"])
               /\ Turns(row, [row EXCEPT !.gen = @ + 1, !.stage = "cancellation_cleanup",
                                         !.lease = "live"])
               /\ Turns(row, [row EXCEPT !.status = "canceled", !.lease = "none"])
  BY DEF Turns, Job, NoJob, Finished

LEMMA PutTurns ==
  ASSUME WorkerTypeOK, NEW j \in Jobs, NEW new, Put(j, new), Turns(jobs[j], new)
  PROVE  Turns(jobs[j], jobs'[j]) /\ \A k \in Jobs \ {j} : jobs'[k] = jobs[k]
  BY PutRecord

LEMMA QueuePhaseStep ==
  ASSUME Backend = "postgres", WorkerInv, WorkerInv', effects' = effects, QueueNext
  PROVE  \E j \in Jobs : /\ PhaseMoves(PhaseOf(jobs[j]), PhaseOf(jobs'[j]), effects[j])
                         /\ \A k \in Jobs \ {j} : jobs'[k] = jobs[k]
  <1>1. PICK j \in Jobs : \/ enqueue(j) \/ cancel(j) \/ mark_outcome_published(j) \/ LeaseExpires(j)
                          \/ \E w \in Workers : Acquire(j, w)
                          \/ \E w \in Workers, g \in 0 .. jobs[j].gen : ClaimOperation(j, w, g)
    BY DEF QueueNext
  <1>2. /\ jobs[j] \in Job /\ jobs'[j] \in Job /\ WorkerTypeOK /\ StageOK(jobs[j])
        /\ jobs[j].error \in BOOLEAN
    BY JobFacts DEF WorkerInv, WorkerTypeOK, QueueTypeOK, RecordOK
  <1>3. /\ Uncommitted(jobs'[j]) => effects[j] = 0
        /\ jobs'[j].status = "completed" => effects[j] = 1
    <2>1. JobRecordOK(j)'
      BY DEF WorkerInv
    <2>2. RecordOK(jobs'[j], Outcomes(log', j), Unknowns(log', j), toolStatus'[j], effects[j])
      BY <2>1 DEF JobRecordOK
    <2> QED
      BY <2>2 DEF RecordOK
  <1>4. Turns(jobs[j], jobs'[j]) /\ \A k \in Jobs \ {j} : jobs'[k] = jobs[k]
    <2>1. {"precommit", "tool_precommit_retry", "tool_known_failure", "tool_execution",
           "cancellation_pending"} \subseteq Stages
      BY DEF Stages
    <2>2. CASE enqueue(j) \/ cancel(j) \/ LeaseExpires(j)
      BY <1>2, <2>1, <2>2, TurnsByQueue, PutTurns DEF enqueue, cancel, LeaseExpires
    <2>3. CASE mark_outcome_published(j)
      BY <2>3 DEF mark_outcome_published
    <2>4. ASSUME NEW w \in Workers, Acquire(j, w)
          PROVE  Turns(jobs[j], jobs'[j]) /\ \A k \in Jobs \ {j} : jobs'[k] = jobs[k]
      BY <1>2, <2>1, <2>4, TurnsByQueue, PutTurns DEF Acquire, start, resume_finalizing,
         recover_expired_executing, claim_cancellation
    <2>5. ASSUME NEW w \in Workers, NEW g, ClaimOperation(j, w, g)
          PROVE  Turns(jobs[j], jobs'[j]) /\ \A k \in Jobs \ {j} : jobs'[k] = jobs[k]
      <3>1. CASE begin_executing_started(j, w, g)
        BY <1>2, <2>1, <3>1, TurnsByQueue, PutTurns DEF begin_executing_started
      <3>2. CASE mark_outcome_unknown_started(j, w, g)
        BY <1>2, <2>1, <3>2, TurnsByQueue, PutTurns DEF mark_outcome_unknown_started
      <3>3. ASSUME NEW error \in BOOLEAN, NEW stage \in Stages,
                   begin_finalizing_started(j, w, g, error, stage)
            PROVE  Turns(jobs[j], jobs'[j]) /\ \A k \in Jobs \ {j} : jobs'[k] = jobs[k]
        BY <1>2, <3>3, TurnsByQueue, PutTurns DEF begin_finalizing_started
      <3>4. ASSUME NEW retryable \in BOOLEAN, finish_finalizing_started(j, w, g, retryable)
            PROVE  Turns(jobs[j], jobs'[j]) /\ \A k \in Jobs \ {j} : jobs'[k] = jobs[k]
        BY <1>2, <2>1, <3>4, TurnsByQueue, PutTurns DEF finish_finalizing_started
      <3>5. CASE set_finalizing_failure(j, w, g)
        BY <1>2, <2>1, <3>5, TurnsByQueue, PutTurns DEF set_finalizing_failure
      <3>6. CASE mark_outcome_unknown_finalizing(j, w, g)
        BY <1>2, <2>1, <3>6, TurnsByQueue, PutTurns DEF mark_outcome_unknown_finalizing
      <3>7. CASE prepare_outcome_tail(j, w, g)
        BY <3>7 DEF prepare_outcome_tail
      <3>8. CASE begin_cancellation_cleanup(j, w, g)
        BY <1>2, <2>1, <3>8, TurnsByQueue, PutTurns DEF begin_cancellation_cleanup
      <3>9. CASE acknowledge_canceled(j, w, g)
        BY <1>2, <2>1, <3>9, TurnsByQueue, PutTurns DEF acknowledge_canceled
      <3> QED
        BY <2>1, <2>5, <3>1, <3>2, <3>3, <3>4, <3>5, <3>6, <3>7, <3>8, <3>9 DEF ClaimOperation
    <2> QED
      BY <1>1, <2>2, <2>3, <2>4, <2>5
  <1>5. PhaseMoves(PhaseOf(jobs[j]), PhaseOf(jobs'[j]), effects[j])
    BY <1>2, <1>3, <1>4, RowPhases
  <1> QED
    BY <1>4, <1>5

ActionVars == <<[j \in Jobs |-> PhaseOf(jobs[j])], effects>>

LEMMA PhaseStep ==
  ASSUME NEW j \in Jobs, PhaseMoves(PhaseOf(jobs[j]), PhaseOf(jobs'[j]), effects[j]),
         \A k \in Jobs \ {j} : jobs'[k] = jobs[k], effects' = effects
  PROVE  [Action!ActionNext]_ActionVars
  <1> DEFINE phase == [k \in Jobs |-> PhaseOf(jobs[k])]
             new == [k \in Jobs |-> PhaseOf(jobs'[k])]
  <1>1. new = [phase EXCEPT ![j] = PhaseOf(jobs'[j])] /\ phase[j] = PhaseOf(jobs[j])
    OBVIOUS
  <1>2. CASE PhaseOf(jobs[j]) = PhaseOf(jobs'[j])
    BY <1>1, <1>2 DEF ActionVars
  <1>3. CASE PhaseOf(jobs[j]) # PhaseOf(jobs'[j])
    <2>1. \/ Action!Request(j) \/ Action!CommitAction(j) \/ Action!Retreat(j) \/ Action!CancelAction(j)
          \/ Action!FailAction(j) \/ Action!CompleteAction(j) \/ Action!LoseTrack(j)
      BY <1>1, <1>3 DEF PhaseMoves, Action!Request, Action!CommitAction, Action!Retreat,
         Action!CancelAction, Action!FailAction, Action!CompleteAction, Action!LoseTrack, Action!Move
    <2> QED
      BY <2>1 DEF Action!ActionNext
  <1> QED
    BY <1>2, <1>3

\* The tool may act under the verdict outcome_unknown, never under another one:
\* a runner at this point has no outcome event yet, which every other verdict
\* on a committed attempt needs.
LEMMA EffectPhase ==
  ASSUME WorkerInv, NEW r \in Runners, PerformEffect(r)
  PROVE  Action!ActionNext
  <1>1. pc[r] = "executing" /\ jobs' = jobs
    BY DEF PerformEffect
  <1>2. PICK j \in Jobs : on[r] = j
    BY <1>1, RunnerFacts
  <1>3. /\ RunnerOK(pc[r], claim[r], jobs[j], Outcomes(log, j), Unknowns(log, j),
                    toolStatus[j], effects[j])
        /\ RecordOK(jobs[j], Outcomes(log, j), Unknowns(log, j), toolStatus[j], effects[j])
        /\ jobs[j].status \in Statuses
    BY <1>1, <1>2, RunnerFacts, JobFacts DEF Job
  <1>4. effects[j] = 0 /\ Outcomes(log, j) = {} /\ ~Uncommitted(jobs[j])
    BY <1>1, <1>3 DEF RunnerOK, ExecutingPCs
  <1>5. ~Succeeded(Outcomes(log, j)) /\ ~Refused(Outcomes(log, j))
    BY <1>4 DEF Succeeded, Refused
  <1>6. \/ jobs[j].status \in {"executing", "outcome_unknown"}
        \/ jobs[j].status = "finalizing" /\ jobs[j].stage \notin PrecommitStages
    BY <1>3, <1>4, <1>5 DEF RecordOK, StageOK, Uncommitted, Statuses, Terminal, Claimed
  <1>7. PhaseOf(jobs[j]) \in {"committed", "outcome_unknown"}
    BY <1>6, PhaseValues DEF Terminal
  <1>8. effects' = [effects EXCEPT ![j] = 1]
    BY <1>2, <1>4 DEF PerformEffect, WorkerInv, WorkerTypeOK
  <1>9. Action!Act(j)
    BY <1>1, <1>4, <1>7, <1>8 DEF Action!Act
  <1> QED
    BY <1>9 DEF Action!ActionNext

LEMMA EffectsByTool ==
  ASSUME [WorkerNext]_vars
  PROVE  effects' = effects \/ \E r \in Runners : PerformEffect(r)
  <1>1. ASSUME NEW r \in Runners, RunnerStep(r), ~PerformEffect(r) PROVE effects' = effects
    BY <1>1 DEF RunnerStep, FailPrecommit, CommitWithConsumedToken, Commit,
       EndWithoutEffect, RetrySafeError, AppendOutcome, RecordToolStatus, RecordStatusEarly,
       StorageError, ReconcileAfterError, BeginFinalizing, RecordUnknownEvidence,
       MarkUnknown, ReconcileSuccess, ReconcileFailure, RecordRetryTail,
       RetryTailRefused, RecordFailedTail, PrepareTail, Finish, PublishTail,
       BeginCleanup, RecordCanceled, AcknowledgeCanceled, Abandon, recordVars
  <1> QED
    BY <1>1 DEF WorkerNext, vars, EnqueueApproved, RequestCancel, Expire, Acquisition, ClaimStart,
       ClaimFinalizing, ClaimExpiredExecuting, ClaimCancellation, AdoptCancellation,
       ClaimPublication, Crash, recordVars

LEMMA ActionStep ==
  ASSUME Backend = "postgres", WorkerInv, WorkerInv', [WorkerNext]_vars
  PROVE  [Action!ActionNext]_ActionVars
  <1>1. CASE \E r \in Runners : PerformEffect(r)
    BY <1>1, EffectPhase
  <1>2. CASE effects' = effects /\ jobs' = jobs
    BY <1>2 DEF ActionVars
  <1>3. CASE effects' = effects /\ jobs' # jobs
    <2>1. QueueNext
      BY <1>3, WorkerQueueStep DEF WorkerInv
    <2> QED
      BY <1>3, <2>1, QueuePhaseStep, PhaseStep
  <1> QED
    BY <1>1, <1>2, <1>3, EffectsByTool

\* With Postgres, runners, leases and crashes implement ApprovedAction: the
\* attempts of a job commit one at a time, an action happens at most once and
\* only after begin_executing_started, late ones only under outcome_unknown,
\* none of a job that was canceled or failed before its commit, and no verdict
\* is taken back.
THEOREM WorkerImplementsAction ==
  ASSUME Backend = "postgres"
  PROVE  WorkerSpec => ActionSpec
  <1>1. WorkerInit => Action!ActionInit
    BY PhaseValues DEF WorkerInit, QueueInit, NoJob, Action!ActionInit
  <1>2. WorkerInv /\ WorkerInv' /\ [WorkerNext]_vars => [Action!ActionNext]_ActionVars
    BY ActionStep
  <1> QED
    BY <1>1, <1>2, WorkerInvariant, PTL DEF WorkerSpec, ActionSpec, Action!Spec, ActionVars

-----------------------------------------------------------------------------
(* Announced verdicts and cancellations *)

\* The log only grows, and who may announce a cancellation or an end.
LEMMA LogStep ==
  ASSUME [WorkerNext]_vars
  PROVE  /\ log \subseteq log'
         /\ \A e \in log' \ log :
              /\ e.kind = "execution.canceled" =>
                    \E r \in Runners : RecordCanceled(r) /\ e = CanceledEvent(r)
              /\ e.kind = "execution.completed" =>
                    \E r \in Runners : \/ Finish(r) /\ e \in TerminalEvents(on[r])
                                       \/ PublishTail(r)
  <1>1. CASE log' = log
    BY <1>1
  <1>2. ASSUME NEW r \in Runners, NEW e, log' = log \cup {e},
               e.kind \notin {"execution.canceled", "execution.completed"}
        PROVE  /\ log \subseteq log'
               /\ \A d \in log' \ log : d.kind \notin {"execution.canceled", "execution.completed"}
    BY <1>2
  <1>3. ASSUME NEW r \in Runners, RunnerStep(r) PROVE
         /\ log \subseteq log'
         /\ \A e \in log' \ log :
              /\ e.kind = "execution.canceled" => RecordCanceled(r) /\ e = CanceledEvent(r)
              /\ e.kind = "execution.completed" => \/ Finish(r) /\ e \in TerminalEvents(on[r])
                                                   \/ PublishTail(r)
    <2>1. CASE FailPrecommit(r) \/ CommitWithConsumedToken(r) \/ Commit(r) \/ PerformEffect(r)
               \/ EndWithoutEffect(r) \/ RetrySafeError(r) \/ RecordToolStatus(r) \/ RecordStatusEarly(r)
               \/ StorageError(r) \/ ReconcileAfterError(r) \/ BeginFinalizing(r) \/ MarkUnknown(r)
               \/ ReconcileSuccess(r) \/ ReconcileFailure(r) \/ RetryTailRefused(r)
               \/ PrepareTail(r) \/ BeginCleanup(r) \/ AcknowledgeCanceled(r) \/ Abandon(r)
      <3>1. log' = log
        BY <2>1 DEF FailPrecommit, CommitWithConsumedToken, Commit, PerformEffect,
           EndWithoutEffect, RetrySafeError, RecordToolStatus, RecordStatusEarly, StorageError, ReconcileAfterError,
           BeginFinalizing, MarkUnknown, ReconcileSuccess, ReconcileFailure, RetryTailRefused,
           PrepareTail, BeginCleanup, AcknowledgeCanceled, Abandon, recordVars
      <3> QED
        BY <3>1
    <2>2. CASE AppendOutcome(r)
      BY <2>2 DEF AppendOutcome, append_event_once, OutcomeEvent, EventOf
    <2>3. CASE RecordUnknownEvidence(r)
      BY <2>3 DEF RecordUnknownEvidence, append_event_once, UnknownEvent, EventOf
    <2>4. CASE RecordRetryTail(r)
      BY <2>4 DEF RecordRetryTail, append_event_once, RetryEvent, EventOf
    <2>5. CASE RecordFailedTail(r)
      BY <2>5 DEF RecordFailedTail, append_event_once, FailedEvent, EventOf
    <2>6. CASE RecordCanceled(r)
      BY <2>6 DEF RecordCanceled, append_event_once, CanceledEvent, EventOf
    <2>7. CASE PublishTail(r)
      BY <2>7 DEF PublishTail, append_event_once, EventOf
    <2>8. CASE Finish(r)
      <3>1. log' = log \cup TerminalEvents(on[r])
        BY <2>8 DEF Finish
      <3>2. \A e \in TerminalEvents(on[r]) : e.kind # "execution.canceled"
        BY DEF TerminalEvents, EventOf
      <3> QED
        BY <2>8, <3>1, <3>2
    <2> QED
      BY <1>3, <2>1, <2>2, <2>3, <2>4, <2>5, <2>6, <2>7, <2>8 DEF RunnerStep
  <1>4. CASE \E r \in Runners : RunnerStep(r)
    BY <1>3, <1>4
  <1> QED
    BY <1>1, <1>4 DEF WorkerNext, vars, EnqueueApproved, RequestCancel, Expire, Acquisition,
       ClaimStart, ClaimFinalizing, ClaimExpiredExecuting, ClaimCancellation, AdoptCancellation,
       ClaimPublication, Crash, recordVars

CancelStatuses == {"cancel_requested", "canceled"}

\* No operation of the queue takes a cancellation back.
LEMMA CancelStays ==
  ASSUME QueueTypeOK, [QueueNext]_jobs, NEW k \in Jobs, jobs[k].status \in CancelStatuses
  PROVE  jobs'[k].status \in CancelStatuses
  <1>1. CASE jobs' = jobs
    BY <1>1
  <1>2. ASSUME NEW j \in Jobs, NEW new, Put(j, new),
               jobs[j].status \in CancelStatuses => new.status \in CancelStatuses
        PROVE  jobs'[k].status \in CancelStatuses
    BY <1>2 DEF QueueTypeOK, Put
  <1>3. ASSUME NEW j \in Jobs PROVE
          /\ jobs[j] \in Job
          /\ \A w, st : /\ [jobs[j] EXCEPT !.worker = w, !.lease = "live", !.gen = @ + 1,
                                           !.stage = st].status = jobs[j].status
                        /\ [jobs[j] EXCEPT !.gen = @ + 1, !.stage = st, !.lease = "live"].status
                              = jobs[j].status
          /\ [jobs[j] EXCEPT !.status = "canceled", !.lease = "none"].status = "canceled"
          /\ [jobs[j] EXCEPT !.lease = "expired"].status = jobs[j].status
    BY DEF QueueTypeOK, Job
  <1>4. ASSUME NEW j \in Jobs, enqueue(j) \/ cancel(j) \/ mark_outcome_published(j) \/ LeaseExpires(j)
        PROVE  jobs'[k].status \in CancelStatuses
    BY <1>2, <1>3, <1>4 DEF enqueue, cancel, mark_outcome_published, LeaseExpires, CancelStatuses
  <1>5. ASSUME NEW j \in Jobs, NEW w \in Workers, Acquire(j, w)
        PROVE  jobs'[k].status \in CancelStatuses
    <2>1. CASE claim_cancellation(j, w)
      <3> DEFINE new == [jobs[j] EXCEPT !.worker = w, !.lease = "live", !.gen = @ + 1,
                                        !.stage = "cancellation_pending"]
      <3>1. Put(j, new) /\ jobs[j].status = "cancel_requested"
        BY <2>1 DEF claim_cancellation
      <3>2. new.status = jobs[j].status
        BY <1>3
      <3> HIDE DEF new
      <3> QED
        BY <1>2, <3>1, <3>2
    <2>2. CASE ~claim_cancellation(j, w)
      <3>1. jobs[j].status \notin CancelStatuses /\ \E new : Put(j, new)
        BY <1>5, <2>2 DEF Acquire, start, resume_finalizing, recover_expired_executing, CancelStatuses
      <3> QED
        BY <1>2, <3>1
    <2> QED
      BY <2>1, <2>2
  <1>6. ASSUME NEW j \in Jobs, NEW w, NEW g, ClaimOperation(j, w, g)
        PROVE  jobs'[k].status \in CancelStatuses
    <2>1. CASE begin_cancellation_cleanup(j, w, g) \/ acknowledge_canceled(j, w, g)
      BY <1>2, <1>3, <2>1 DEF begin_cancellation_cleanup, acknowledge_canceled, CancelStatuses
    <2>2. CASE ~(begin_cancellation_cleanup(j, w, g) \/ acknowledge_canceled(j, w, g))
      <3>1. jobs[j].status \notin CancelStatuses /\ \E new : Put(j, new)
        BY <1>6, <2>2 DEF ClaimOperation, begin_executing_started, mark_outcome_unknown_started,
           begin_finalizing_started, finish_finalizing_started, set_finalizing_failure,
           mark_outcome_unknown_finalizing, prepare_outcome_tail, CancelStatuses
      <3> QED
        BY <1>2, <3>1
    <2> QED
      BY <2>1, <2>2
  <1> QED
    BY <1>1, <1>4, <1>5, <1>6 DEF QueueNext

\* A runner that cleans up has a claim on a cancellation.
CleanupKnows == \A r \in Runners : pc[r] = "cleanup" => claim[r].status = "cancel_requested"

CancelInv == WorkerTypeOK /\ QueueInv /\ CleanupKnows /\ CanceledEventIsTrue

\* Only begin_cancellation_cleanup brings a runner to the cleanup.
LEMMA CleanupStep ==
  ASSUME WorkerTypeOK, CleanupKnows, [WorkerNext]_vars, WorkerTypeOK'
  PROVE  CleanupKnows'
  <1> DEFINE Other(r) == \E q : /\ q # "cleanup" /\ GoTo(r, q)
                                /\ claim' = claim \/ \E c : claim' = [claim EXCEPT ![r] = c]
  <1>1. ASSUME NEW r \in Runners, Other(r) PROVE CleanupKnows'
    <2>1. pc'[r] # "cleanup" /\ \A s \in Runners \ {r} : pc'[s] = pc[s] /\ claim'[s] = claim[s]
      BY <1>1 DEF WorkerTypeOK, GoTo
    <2> QED
      BY <2>1 DEF CleanupKnows
  <1>2. CASE pc' = pc /\ claim' = claim
    BY <1>2 DEF CleanupKnows
  <1>3. ASSUME NEW r \in Runners, BeginCleanup(r) PROVE CleanupKnows'
    <2>1. PICK j \in Jobs : on[r] = j
      BY <1>3, NotIdle DEF RunnerStep
    <2>2. /\ jobs[j].status = "cancel_requested"
          /\ jobs'[j] = [jobs[j] EXCEPT !.gen = @ + 1, !.stage = "cancellation_cleanup", !.lease = "live"]
      BY <1>3, <2>1, PutRecord DEF BeginCleanup, begin_cancellation_cleanup
    <2>3. jobs'[j].status = "cancel_requested"
      BY <2>2 DEF WorkerTypeOK, QueueTypeOK, Job
    <2>4. claim'[r] = jobs'[j] /\ OthersStay(r)
      BY <1>3, <2>1, Moves DEF BeginCleanup
    <2> QED
      BY <2>3, <2>4 DEF CleanupKnows, OthersStay
  <1>4. ASSUME NEW r \in Runners, NEW j \in Jobs,
               Acquisition(r, j) \/ AdoptCancellation(r, j) \/ ClaimPublication(r, j)
        PROVE  Other(r)
    <2>1. PICK q \in {"precommit", "reconcile", "finalizing", "canceling", "publish"} : Take(r, j, q)
      BY <1>4 DEF Acquisition, ClaimStart, ClaimFinalizing, ClaimExpiredExecuting,
         ClaimCancellation, AdoptCancellation, ClaimPublication
    <2> QED
      BY <2>1 DEF Take
  <1>5. ASSUME NEW r \in Runners, Leave(r) PROVE Other(r)
    BY <1>5 DEF Leave
  <1>6. ASSUME NEW r \in Runners, NEW q, q # "cleanup", Advance(r, q) PROVE Other(r)
    BY <1>6 DEF Advance
  <1>7. ASSUME NEW r \in Runners, NEW q, q # "cleanup", GoTo(r, q), claim' = claim PROVE Other(r)
    BY <1>7
  <1>8. ASSUME NEW r \in Runners, RunnerStep(r), ~BeginCleanup(r) PROVE Other(r)
    <2>1. CASE FailPrecommit(r) \/ CommitWithConsumedToken(r) \/ Commit(r) \/ RetrySafeError(r)
               \/ BeginFinalizing(r) \/ ReconcileFailure(r)
      BY <1>6, <2>1 DEF FailPrecommit, CommitWithConsumedToken, Commit, RetrySafeError,
         BeginFinalizing, ReconcileFailure
    <2>2. CASE PerformEffect(r) \/ EndWithoutEffect(r) \/ AppendOutcome(r) \/ RecordToolStatus(r) \/ RecordStatusEarly(r)
               \/ StorageError(r) \/ RecordUnknownEvidence(r) \/ ReconcileAfterError(r)
      BY <1>7, <2>2 DEF PerformEffect, EndWithoutEffect, AppendOutcome, RecordToolStatus, RecordStatusEarly,
         StorageError, ReconcileAfterError, RecordUnknownEvidence
    <2>3. CASE ReconcileSuccess(r) \/ RecordRetryTail(r) \/ RecordFailedTail(r) \/ PrepareTail(r)
               \/ RecordCanceled(r)
      BY <1>7, <2>3 DEF ReconcileSuccess, RecordRetryTail, RecordFailedTail, PrepareTail,
         RecordCanceled
    <2>4. CASE MarkUnknown(r) \/ RetryTailRefused(r) \/ PublishTail(r) \/ AcknowledgeCanceled(r)
      BY <1>5, <2>4 DEF MarkUnknown, RetryTailRefused, PublishTail, AcknowledgeCanceled
    <2>5. CASE Finish(r) \/ Abandon(r)
      BY <1>5, <1>6, <2>5 DEF Finish, Abandon
    <2> QED
      BY <1>8, <2>1, <2>2, <2>3, <2>4, <2>5 DEF RunnerStep
  <1>9. ASSUME NEW r \in Runners, Crash(r) PROVE Other(r)
    BY <1>5, <1>9 DEF Crash
  <1> HIDE DEF Other
  <1>10. CASE \E j \in Jobs : EnqueueApproved(j) \/ RequestCancel(j) \/ Expire(j)
    BY <1>2, <1>10 DEF EnqueueApproved, RequestCancel, Expire, runnerVars
  <1>11. CASE UNCHANGED vars
    BY <1>2, <1>11 DEF vars
  <1> QED
    BY <1>1, <1>3, <1>4, <1>8, <1>9, <1>10, <1>11 DEF WorkerNext

LEMMA CancelInvStep ==
  ASSUME CancelInv, [WorkerNext]_vars
  PROVE  CancelInv'
  <1>1. WorkerTypeOK /\ QueueInv /\ QueueTypeOK /\ CleanupKnows
    BY DEF CancelInv, WorkerTypeOK
  <1>2. WorkerTypeOK' /\ QueueInv'
    BY <1>1, WorkerTypeStep
  <1>3. CleanupKnows'
    BY <1>1, <1>2, CleanupStep
  <1>4. ASSUME NEW e \in log', e.kind = "execution.canceled"
        PROVE  jobs'[e.job].status \in CancelStatuses
    <2>1. jobs[e.job].status \in CancelStatuses /\ e.job \in Jobs
      <3>1. CASE e \in log
        BY <1>1, <1>4, <3>1 DEF CancelInv, CanceledEventIsTrue, CancelStatuses, WorkerTypeOK, Event
      <3>2. CASE e \notin log
        <4>1. PICK r \in Runners : RecordCanceled(r) /\ e = CanceledEvent(r)
          BY <1>4, <3>2, LogStep
        <4>2. e.job = on[r] /\ on[r] \in Jobs
          BY <1>1, <4>1, NotIdle DEF CanceledEvent, EventOf, RunnerStep
        <4>3. jobs[on[r]].status = "cancel_requested"
          BY <1>1, <4>1 DEF RecordCanceled, StillHolds, CleanupKnows
        <4> QED
          BY <4>2, <4>3 DEF CancelStatuses
      <3> QED
        BY <3>1, <3>2
    <2>2. [QueueNext]_jobs
      BY <1>1, WorkerQueueStep
    <2> QED
      BY <1>1, <2>1, <2>2, CancelStays
  <1>5. CanceledEventIsTrue'
    BY <1>4 DEF CanceledEventIsTrue, CancelStatuses
  <1> QED
    BY <1>2, <1>3, <1>5 DEF CancelInv

\* Once finalize_execution_cancellation has appended execution.canceled, the job
\* is being canceled or canceled for good, in both backends, also when the
\* runner that wrote it crashes or loses its claim before acknowledge_canceled.
THEOREM CanceledEventHolds == WorkerSpec => []CanceledEventIsTrue
  <1>1. WorkerInit => CancelInv
    <2>1. WorkerInit => WorkerTypeOK /\ QueueInv
      BY WorkerTypeInit
    <2>2. WorkerInit => CleanupKnows /\ CanceledEventIsTrue
      BY DEF WorkerInit, CleanupKnows, CanceledEventIsTrue
    <2> QED
      BY <2>1, <2>2 DEF CancelInv
  <1>2. CancelInv /\ [WorkerNext]_vars => CancelInv'
    BY CancelInvStep
  <1>3. CancelInv => CanceledEventIsTrue
    BY DEF CancelInv
  <1> QED
    BY <1>1, <1>2, <1>3, PTL DEF WorkerSpec

\* A job ends as completed or failed by finish_finalizing_started alone.
LEMMA EndedByFinish ==
  ASSUME WorkerTypeOK, [WorkerNext]_vars, NEW k \in Jobs,
         jobs'[k].status \in {"completed", "failed"}, jobs'[k].status # jobs[k].status
  PROVE  \E r \in Runners : Finish(r) /\ on[r] = k
  <1>1. ASSUME NEW j \in Jobs, NEW new, Put(j, new),
               new.status \in {"completed", "failed"} => new.status = jobs[j].status
        PROVE  FALSE
    BY <1>1 DEF WorkerTypeOK, QueueTypeOK, Put
  <1>2. ASSUME NEW j \in Jobs PROVE jobs[j] \in Job
    BY DEF WorkerTypeOK, QueueTypeOK
  <1>3. ASSUME NEW j \in Jobs, EnqueueApproved(j) \/ RequestCancel(j) \/ Expire(j) PROVE FALSE
    <2>1. /\ [NoJob EXCEPT !.status = "queued"].status = "queued"
          /\ [jobs[j] EXCEPT !.status = "cancel_requested", !.stage = "cancellation_pending"].status
                = "cancel_requested"
          /\ [jobs[j] EXCEPT !.lease = "expired"].status = jobs[j].status
      BY <1>2 DEF Job, NoJob
    <2> QED
      BY <1>1, <1>3, <2>1 DEF EnqueueApproved, RequestCancel, Expire, enqueue, cancel, LeaseExpires
  <1>4. ASSUME NEW r \in Runners, NEW j \in Jobs,
               Acquisition(r, j) \/ AdoptCancellation(r, j) \/ ClaimPublication(r, j)
        PROVE  FALSE
    <2>1. PICK new : /\ jobs' = jobs \/ Put(j, new)
                     /\ new.status \notin {"completed", "failed"}
      <3>1. CASE AdoptCancellation(r, j) \/ ClaimPublication(r, j)
        <4>1. jobs' = jobs /\ NoJob.status = "absent"
          BY <3>1 DEF AdoptCancellation, ClaimPublication, NoJob
        <4> QED
          BY <4>1
      <3>2. CASE ClaimStart(r, j)
        BY <3>2 DEF ClaimStart, start
      <3>3. CASE ClaimFinalizing(r, j)
        <4> DEFINE new == [jobs[j] EXCEPT !.worker = WorkerOf[r], !.lease = "live", !.gen = @ + 1]
        <4>1. Put(j, new) /\ jobs[j].status = "finalizing"
          BY <3>3 DEF ClaimFinalizing, resume_finalizing
        <4>2. new.status = jobs[j].status
          BY <1>2 DEF Job
        <4> HIDE DEF new
        <4> QED
          BY <4>1, <4>2
      <3>4. CASE ClaimExpiredExecuting(r, j)
        <4> DEFINE new == [jobs[j] EXCEPT !.status = "finalizing", !.worker = WorkerOf[r],
                              !.lease = "live", !.gen = @ + 1, !.error = FALSE,
                              !.stage = "outcome_reconciliation"]
        <4>1. Put(j, new)
          BY <3>4 DEF ClaimExpiredExecuting, recover_expired_executing
        <4>2. new.status = "finalizing"
          BY <1>2 DEF Job
        <4> HIDE DEF new
        <4> QED
          BY <4>1, <4>2
      <3>5. CASE ClaimCancellation(r, j)
        <4> DEFINE new == [jobs[j] EXCEPT !.worker = WorkerOf[r], !.lease = "live", !.gen = @ + 1,
                              !.stage = "cancellation_pending"]
        <4>1. Put(j, new) /\ jobs[j].status = "cancel_requested"
          BY <3>5 DEF ClaimCancellation, claim_cancellation
        <4>2. new.status = jobs[j].status
          BY <1>2 DEF Job
        <4> HIDE DEF new
        <4> QED
          BY <4>1, <4>2
      <3> QED
        BY <1>4, <3>1, <3>2, <3>3, <3>4, <3>5 DEF Acquisition
    <2> QED
      BY <1>1, <2>1
  <1>5. ASSUME NEW r \in Runners, RunnerStep(r), ~Finish(r) PROVE FALSE
    <2>1. PICK j \in Jobs : on[r] = j
      BY <1>5, NotIdle
    <2>2. CASE jobs' = jobs
      BY <2>2
    <2>3. ASSUME NEW error, NEW stage,
                 begin_finalizing_started(j, WorkerOf[r], claim[r].gen, error, stage)
          PROVE  FALSE
      <3>1. [jobs[j] EXCEPT !.status = "finalizing", !.error = error, !.stage = stage].status = "finalizing"
        BY <1>2 DEF Job
      <3> QED
        BY <1>1, <2>3, <3>1 DEF begin_finalizing_started
    <2>4. CASE FailPrecommit(r) \/ RetrySafeError(r) \/ BeginFinalizing(r)
      BY <2>1, <2>3, <2>4 DEF FailPrecommit, RetrySafeError, BeginFinalizing
    <2>5. CASE Commit(r) \/ CommitWithConsumedToken(r)
      <3>1. [jobs[j] EXCEPT !.status = "executing"].status = "executing"
        BY <1>2 DEF Job
      <3> QED
        BY <1>1, <2>1, <2>5, <3>1 DEF Commit, CommitWithConsumedToken, begin_executing_started
    <2>6. CASE MarkUnknown(r)
      <3>1. [jobs[j] EXCEPT !.status = "outcome_unknown", !.lease = "none", !.error = TRUE].status
              = "outcome_unknown"
        BY <1>2 DEF Job
      <3> QED
        BY <1>1, <2>1, <2>6, <3>1 DEF MarkUnknown, mark_outcome_unknown_started,
           mark_outcome_unknown_finalizing
    <2>7. CASE ReconcileFailure(r)
      <3>1. [jobs[j] EXCEPT !.error = TRUE, !.stage = "tool_known_failure"].status = jobs[j].status
        BY <1>2 DEF Job
      <3> QED
        BY <1>1, <2>1, <2>7, <3>1 DEF ReconcileFailure, set_finalizing_failure
    <2>8. CASE PrepareTail(r)
      <3>1. \A st : [jobs[j] EXCEPT !.stage = st].status = jobs[j].status
        BY <1>2 DEF Job
      <3> QED
        BY <1>1, <2>1, <2>8, <3>1 DEF PrepareTail, prepare_outcome_tail
    <2>9. CASE PublishTail(r)
      <3>1. \A st : [jobs[j] EXCEPT !.stage = st].status = jobs[j].status
        BY <1>2 DEF Job
      <3> QED
        BY <1>1, <2>1, <2>2, <2>9, <3>1 DEF PublishTail, mark_outcome_published
    <2>10. CASE BeginCleanup(r)
      <3>1. [jobs[j] EXCEPT !.gen = @ + 1, !.stage = "cancellation_cleanup", !.lease = "live"].status
              = jobs[j].status
        BY <1>2 DEF Job
      <3> QED
        BY <1>1, <2>1, <2>10, <3>1 DEF BeginCleanup, begin_cancellation_cleanup
    <2>11. CASE AcknowledgeCanceled(r)
      <3>1. [jobs[j] EXCEPT !.status = "canceled", !.lease = "none"].status = "canceled"
        BY <1>2 DEF Job
      <3> QED
        BY <1>1, <2>1, <2>11, <3>1 DEF AcknowledgeCanceled, acknowledge_canceled
    <2> QED
      BY <1>5, <2>2, <2>4, <2>5, <2>6, <2>7, <2>8, <2>9, <2>10, <2>11 DEF RunnerStep,
         PerformEffect, EndWithoutEffect, AppendOutcome, RecordToolStatus, RecordStatusEarly, StorageError,
         ReconcileAfterError, RecordUnknownEvidence, ReconcileSuccess, RecordRetryTail,
         RetryTailRefused, RecordFailedTail, RecordCanceled, Abandon
  <1>6. PICK r \in Runners : Finish(r)
    BY <1>3, <1>4, <1>5 DEF WorkerNext, vars, Crash
  <1>7. on[r] = k
    <2>1. PICK j \in Jobs : on[r] = j
      BY <1>6, NotIdle DEF RunnerStep
    <2>2. \A i \in Jobs \ {j} : jobs'[i] = jobs[i]
      BY <1>6, <2>1, PutRecord DEF Finish, finish_finalizing_started
    <2> QED
      BY <2>1, <2>2
  <1> QED
    BY <1>6, <1>7

Announced(l, row, j, kind) ==
    \E e \in l : e.job = j /\ e.kind = kind /\ e.attempt = row.attempt /\ e.gen = row.gen

\* OutcomeIsAnnounced for one job, in Postgres.
JobIsAnnounced(l, row, j) ==
    /\ row.status = "completed" => Announced(l, row, j, "execution.completed")
    /\ row.status = "failed" => Announced(l, row, j, "execution.failed")
    /\ \A e \in l : e.job = j /\ e.kind = "execution.completed" => row.status = "completed"

LEMMA AnnouncedByJob ==
  ASSUME Backend = "postgres"
  PROVE  OutcomeIsAnnounced <=> \A j \in Jobs : JobIsAnnounced(log, jobs[j], j)
  BY DEF OutcomeIsAnnounced, JobIsAnnounced, Announced

LEMMA AnnouncedStep ==
  ASSUME Backend = "postgres", WorkerInv, QueueInv, [WorkerNext]_vars, NEW j \in Jobs,
         JobIsAnnounced(log, jobs[j], j)
  PROVE  JobIsAnnounced(log', jobs'[j], j)
  <1>1. WorkerTypeOK /\ QueueTypeOK /\ log \subseteq log'
    BY LogStep DEF WorkerInv, WorkerTypeOK
  <1>2. jobs[j].status \in Terminal =>
           /\ jobs'[j].status = jobs[j].status /\ jobs'[j].attempt = jobs[j].attempt
           /\ jobs'[j].gen = jobs[j].gen
    <2>1. [TableStep]_jobs
      BY <1>1, WorkerQueueStep, QueueStep
    <2> QED
      BY <2>1 DEF TableStep, RowStep
  <1>3. {"completed", "failed"} \subseteq Terminal
    BY DEF Terminal
  <1>4. CASE jobs'[j].status \in {"completed", "failed"} /\ jobs'[j].status # jobs[j].status
    <2>1. PICK r \in Runners : Finish(r) /\ on[r] = j
      BY <1>1, <1>4, EndedByFinish
    <2> DEFINE e == EventOf(j, IF jobs'[j].status = "completed" THEN "execution.completed"
                               ELSE "execution.failed",
                            jobs'[j].attempt, jobs'[j].gen, jobs'[j].worker)
    <2>2. log' = log \cup {e}
      BY <1>4, <2>1 DEF Finish, TerminalEvents
    <2>3. /\ e.job = j /\ e.attempt = jobs'[j].attempt /\ e.gen = jobs'[j].gen
          /\ e.kind = IF jobs'[j].status = "completed" THEN "execution.completed" ELSE "execution.failed"
      BY DEF EventOf
    <2> HIDE DEF e
    <2>4. \A d \in log : d.job = j /\ d.kind = "execution.completed" => FALSE
      BY <1>2, <1>3, <1>4 DEF JobIsAnnounced
    <2> QED
      BY <1>4, <2>2, <2>3, <2>4 DEF JobIsAnnounced, Announced
  <1>5. CASE ~(jobs'[j].status \in {"completed", "failed"} /\ jobs'[j].status # jobs[j].status)
    <2>1. \A e \in log' : e.job = j /\ e.kind = "execution.completed" => jobs'[j].status = "completed"
      <3> SUFFICES ASSUME NEW e \in log', e.job = j, e.kind = "execution.completed"
                   PROVE  jobs'[j].status = "completed"
        OBVIOUS
      <3>1. CASE e \in log
        BY <1>2, <1>3, <3>1 DEF JobIsAnnounced
      <3>2. CASE e \notin log
        <4>1. PICK r \in Runners : Finish(r) /\ e \in TerminalEvents(on[r])
          BY <3>2, LogStep, NoPublication
        <4> QED
          BY <4>1 DEF TerminalEvents, EventOf
      <3> QED
        BY <3>1, <3>2
    <2>2. jobs'[j].status \in {"completed", "failed"} =>
            jobs[j].status = jobs'[j].status /\ jobs'[j].attempt = jobs[j].attempt /\ jobs'[j].gen = jobs[j].gen
      BY <1>2, <1>3, <1>5
    <2> QED
      BY <1>1, <2>1, <2>2 DEF JobIsAnnounced, Announced
  <1> QED
    BY <1>4, <1>5

-----------------------------------------------------------------------------
(* Announced verdicts in memory *)

\* Where the row of a claim can be after its finalization has begun, until the
\* job is claimed again.
Past == {"finalizing", "queued", "cancel_requested"} \cup Terminal

\* What no operation of the queue does to a row.
Goes(row, new) ==
    row.status # "absent" =>
        /\ new.status # "absent" /\ row.gen <= new.gen
        /\ new.gen = row.gen => new.attempt = row.attempt
        /\ row.status \in Past /\ new.gen = row.gen => new.status \in Past
        /\ row.status \in Terminal => new.status = row.status /\ new.gen = row.gen

KeepsError(row, new) ==
    row.status \in Past /\ new.gen = row.gen /\ new.status = "finalizing" =>
        row.status = "finalizing" /\ new.error = row.error

KeepsStage(row, new) == new.stage = "completion_published" => row.stage = "completion_published"

Steady(row, new) == Goes(row, new) /\ KeepsError(row, new) /\ KeepsStage(row, new)

\* The rows that the operations of the queue write.
LEMMA SteadyRows ==
  ASSUME NEW row \in Job, NEW w, NEW st \in Stages \ {"completion_published"}, NEW e \in BOOLEAN
  PROVE  /\ Steady(row, row)
         /\ Steady(row, [row EXCEPT !.lease = "expired"])
         /\ row.status = "absent" => Steady(row, [NoJob EXCEPT !.status = "queued"])
         /\ row.status \in {"queued", "running"} =>
               /\ Steady(row, [row EXCEPT !.status = "cancel_requested", !.stage = st])
               /\ Steady(row, [status |-> "running", worker |-> w, lease |-> "live",
                               gen |-> row.gen + 1, attempt |-> row.attempt + 1,
                               error |-> FALSE, stage |-> "none"])
         /\ row.status = "running" => Steady(row, [row EXCEPT !.status = "executing"])
         /\ row.status \in {"running", "executing"} =>
               Steady(row, [row EXCEPT !.status = "finalizing", !.error = e, !.stage = st])
         /\ row.status \in {"executing", "finalizing"} =>
               Steady(row, [row EXCEPT !.status = "outcome_unknown", !.lease = "none", !.error = TRUE])
         /\ row.status = "executing" =>
               Steady(row, [row EXCEPT !.status = "finalizing", !.worker = w,
                              !.lease = "live", !.gen = @ + 1, !.error = FALSE,
                              !.stage = "outcome_reconciliation"])
         /\ row.status = "finalizing" =>
               /\ Steady(row, [row EXCEPT !.worker = w, !.lease = "live", !.gen = @ + 1])
               /\ Steady(row, [row EXCEPT !.stage = st])
               /\ Steady(row, Finished(row, e))
         /\ row.status = "cancel_requested" =>
               /\ Steady(row, [row EXCEPT !.worker = w, !.lease = "live", !.gen = @ + 1,
                                         !.stage = "cancellation_pending"])
               /\ Steady(row, [row EXCEPT !.gen = @ + 1, !.stage = "cancellation_cleanup",
                                         !.lease = "live"])
               /\ Steady(row, [row EXCEPT !.status = "canceled", !.lease = "none"])
  <1>1. row.gen \in Nat /\ row.attempt \in Nat /\ row.gen <= row.gen /\ row.gen <= row.gen + 1
        /\ row.gen + 1 # row.gen
    BY DEF Job
  <1>4. /\ Steady(row, row)
        /\ Steady(row, [row EXCEPT !.lease = "expired"])
    BY <1>1 DEF Steady, Goes, KeepsError, KeepsStage, Job, Past, Terminal
  <1>5. row.status = "absent" => Steady(row, [NoJob EXCEPT !.status = "queued"])
    BY DEF Steady, Goes, KeepsError, KeepsStage, NoJob, Past, Terminal
  <1>6. ASSUME row.status \in {"queued", "running"}
        PROVE  /\ Steady(row, [row EXCEPT !.status = "cancel_requested", !.stage = st])
               /\ Steady(row, [status |-> "running", worker |-> w, lease |-> "live",
                               gen |-> row.gen + 1, attempt |-> row.attempt + 1,
                               error |-> FALSE, stage |-> "none"])
    BY <1>1, <1>6 DEF Steady, Goes, KeepsError, KeepsStage, Job, Past, Terminal
  <1>7. row.status = "running" => Steady(row, [row EXCEPT !.status = "executing"])
    BY <1>1 DEF Steady, Goes, KeepsError, KeepsStage, Job, Past, Terminal
  <1>8. row.status \in {"running", "executing"} =>
               Steady(row, [row EXCEPT !.status = "finalizing", !.error = e, !.stage = st])
    BY <1>1 DEF Steady, Goes, KeepsError, KeepsStage, Job, Past, Terminal
  <1>9. row.status \in {"executing", "finalizing"} =>
               Steady(row, [row EXCEPT !.status = "outcome_unknown", !.lease = "none", !.error = TRUE])
    BY <1>1 DEF Steady, Goes, KeepsError, KeepsStage, Job, Past, Terminal
  <1>10. row.status = "executing" =>
               Steady(row, [row EXCEPT !.status = "finalizing", !.worker = w,
                              !.lease = "live", !.gen = @ + 1, !.error = FALSE,
                              !.stage = "outcome_reconciliation"])
    BY <1>1 DEF Steady, Goes, KeepsError, KeepsStage, Job, Past, Terminal
  <1>11. ASSUME row.status = "finalizing"
         PROVE  /\ Steady(row, [row EXCEPT !.worker = w, !.lease = "live", !.gen = @ + 1])
                /\ Steady(row, [row EXCEPT !.stage = st])
                /\ Steady(row, Finished(row, e))
    <2>1. Steady(row, [row EXCEPT !.worker = w, !.lease = "live", !.gen = @ + 1])
      BY <1>1, <1>11 DEF Steady, Goes, KeepsError, KeepsStage, Job, Past, Terminal
    <2>2. Steady(row, [row EXCEPT !.stage = st])
      BY <1>1, <1>11 DEF Steady, Goes, KeepsError, KeepsStage, Job, Past, Terminal
    <2>3. /\ Finished(row, e).status \in {"completed", "queued", "failed"}
          /\ Finished(row, e).gen = row.gen /\ Finished(row, e).attempt = row.attempt
          /\ Finished(row, e).stage = row.stage
      BY DEF Finished, Job
    <2>4. Steady(row, Finished(row, e))
      BY <1>1, <1>11, <2>3 DEF Steady, Goes, KeepsError, KeepsStage, Past, Terminal
    <2> QED
      BY <2>1, <2>2, <2>4
  <1>12. ASSUME row.status = "cancel_requested"
         PROVE  /\ Steady(row, [row EXCEPT !.worker = w, !.lease = "live", !.gen = @ + 1,
                                         !.stage = "cancellation_pending"])
                /\ Steady(row, [row EXCEPT !.gen = @ + 1, !.stage = "cancellation_cleanup",
                                         !.lease = "live"])
                /\ Steady(row, [row EXCEPT !.status = "canceled", !.lease = "none"])
    BY <1>1, <1>12 DEF Steady, Goes, KeepsError, KeepsStage, Job, Past, Terminal
  <1> QED
    BY <1>4, <1>5, <1>6, <1>7, <1>8, <1>9, <1>10, <1>11, <1>12

\* A recorded outcome is marked, and a reconciled failure is noted.
LEMMA MarkedRows ==
  ASSUME NEW row \in Job, NEW new
  PROVE  /\ row.status \in Terminal /\ (\E st : new = [row EXCEPT !.stage = st]) =>
               Goes(row, new) /\ KeepsError(row, new)
         /\ row.status = "finalizing"
            /\ new = [row EXCEPT !.error = TRUE, !.stage = "tool_known_failure"] =>
               Goes(row, new) /\ KeepsStage(row, new)
  <1>1. row.gen \in Nat /\ row.gen <= row.gen
    BY DEF Job
  <1> QED
    BY <1>1 DEF Goes, KeepsError, KeepsStage, Job, Past, Terminal

\* Only a reconciled failure changes the error of a finalization, and only the
\* publication marks an outcome as published.
LEMMA RowsGo ==
  ASSUME WorkerTypeOK, QueueInv, [WorkerNext]_vars, NEW k \in Jobs
  PROVE  /\ Goes(jobs[k], jobs'[k])
         /\ KeepsError(jobs[k], jobs'[k]) \/ \E r \in Runners : ReconcileFailure(r) /\ on[r] = k
         /\ KeepsStage(jobs[k], jobs'[k]) \/ \E r \in Runners : PublishTail(r) /\ on[r] = k
  <1>1. ASSUME NEW j \in Jobs PROVE jobs[j] \in Job /\ Steady(jobs[j], jobs[j])
    <2>1. jobs[j] \in Job
      BY DEF WorkerTypeOK, QueueTypeOK
    <2>2. "none" \in Stages \ {"completion_published"} /\ TRUE \in BOOLEAN
      BY DEF Stages
    <2> QED
      BY <2>1, <2>2, SteadyRows
  <1>2. ASSUME NEW j \in Jobs, NEW new, Put(j, new), Steady(jobs[j], new)
        PROVE  Steady(jobs[k], jobs'[k])
    BY <1>1, <1>2, PutRecord
  <1>3. CASE jobs' = jobs
    BY <1>1, <1>3 DEF Steady
  <1>4. {"none", "precommit", "tool_precommit_retry", "tool_known_failure", "tool_execution",
         "cancellation_pending", "failure_pending", "completion_pending"}
            \subseteq Stages \ {"completion_published"}
    BY DEF Stages
  <1>5. ASSUME NEW j \in Jobs, EnqueueApproved(j) \/ RequestCancel(j) \/ Expire(j)
        PROVE  Steady(jobs[k], jobs'[k])
    BY <1>1, <1>2, <1>4, <1>5, SteadyRows DEF EnqueueApproved, RequestCancel, Expire, enqueue,
       cancel, LeaseExpires
  <1>6. ASSUME NEW r \in Runners, NEW j \in Jobs, Acquisition(r, j)
        PROVE  Steady(jobs[k], jobs'[k])
    <2>1. CASE ClaimStart(r, j)
      BY <1>1, <1>2, <1>4, <2>1, SteadyRows DEF ClaimStart, start
    <2>2. CASE ClaimFinalizing(r, j)
      BY <1>1, <1>2, <1>4, <2>2, SteadyRows DEF ClaimFinalizing, resume_finalizing
    <2>3. CASE ClaimExpiredExecuting(r, j)
      BY <1>1, <1>2, <1>4, <2>3, SteadyRows DEF ClaimExpiredExecuting, recover_expired_executing
    <2>4. CASE ClaimCancellation(r, j)
      BY <1>1, <1>2, <1>4, <2>4, SteadyRows DEF ClaimCancellation, claim_cancellation
    <2> QED
      BY <1>6, <2>1, <2>2, <2>3, <2>4 DEF Acquisition
  <1>7. ASSUME NEW r \in Runners, RunnerStep(r), ~ReconcileFailure(r), ~PublishTail(r)
        PROVE  Steady(jobs[k], jobs'[k])
    <2>1. PICK j \in Jobs : on[r] = j
      BY <1>7, NotIdle
    <2>2. CASE jobs' = jobs
      BY <1>1, <2>2
    <2>3. ASSUME NEW error \in BOOLEAN, NEW stage \in Stages \ {"completion_published"},
                 begin_finalizing_started(j, WorkerOf[r], claim[r].gen, error, stage)
          PROVE  Steady(jobs[k], jobs'[k])
      BY <1>1, <1>2, <2>3, SteadyRows DEF begin_finalizing_started
    <2>4. CASE FailPrecommit(r) \/ RetrySafeError(r) \/ BeginFinalizing(r)
      BY <1>4, <2>1, <2>3, <2>4 DEF FailPrecommit, RetrySafeError, BeginFinalizing
    <2>5. CASE Commit(r) \/ CommitWithConsumedToken(r)
      BY <1>1, <1>2, <1>4, <2>1, <2>5, SteadyRows DEF Commit, CommitWithConsumedToken,
         begin_executing_started
    <2>6. CASE MarkUnknown(r)
      BY <1>1, <1>2, <1>4, <2>1, <2>6, SteadyRows DEF MarkUnknown, mark_outcome_unknown_started,
         mark_outcome_unknown_finalizing
    <2>7. CASE PrepareTail(r)
      BY <1>1, <1>2, <1>4, <2>1, <2>7, SteadyRows DEF PrepareTail, prepare_outcome_tail
    <2>8. CASE Finish(r)
      <3>1. Retryable(r) \in BOOLEAN
        BY DEF Retryable, WorkerTypeOK, Job
      <3>2. Put(j, Finished(jobs[j], Retryable(r))) /\ jobs[j].status = "finalizing"
        BY <2>1, <2>8 DEF Finish, finish_finalizing_started
      <3> QED
        BY <1>1, <1>2, <1>4, <3>1, <3>2, SteadyRows
    <2>9. CASE BeginCleanup(r)
      BY <1>1, <1>2, <1>4, <2>1, <2>9, SteadyRows DEF BeginCleanup, begin_cancellation_cleanup
    <2>10. CASE AcknowledgeCanceled(r)
      BY <1>1, <1>2, <1>4, <2>1, <2>10, SteadyRows DEF AcknowledgeCanceled, acknowledge_canceled
    <2> QED
      BY <1>7, <2>2, <2>4, <2>5, <2>6, <2>7, <2>8, <2>9, <2>10 DEF RunnerStep,
         PerformEffect, EndWithoutEffect, AppendOutcome, RecordToolStatus, RecordStatusEarly, StorageError,
         ReconcileAfterError, RecordUnknownEvidence, ReconcileSuccess, RecordRetryTail,
         RetryTailRefused, RecordFailedTail, RecordCanceled, Abandon
  <1>8. ASSUME NEW r \in Runners, ReconcileFailure(r)
        PROVE  Steady(jobs[k], jobs'[k]) \/ /\ Goes(jobs[k], jobs'[k]) /\ on[r] = k
                                            /\ KeepsStage(jobs[k], jobs'[k])
    <2>1. PICK j \in Jobs : on[r] = j
      BY <1>8, NotIdle DEF RunnerStep
    <2>2. /\ jobs[j].status = "finalizing"
          /\ Put(j, [jobs[j] EXCEPT !.error = TRUE, !.stage = "tool_known_failure"])
      BY <1>8, <2>1 DEF ReconcileFailure, set_finalizing_failure
    <2>3. /\ jobs'[j] = [jobs[j] EXCEPT !.error = TRUE, !.stage = "tool_known_failure"]
          /\ \A i \in Jobs \ {j} : jobs'[i] = jobs[i]
      BY <2>2, PutRecord
    <2>4. Goes(jobs[j], jobs'[j]) /\ KeepsStage(jobs[j], jobs'[j])
      BY <1>1, <2>2, <2>3, MarkedRows
    <2>5. CASE j = k
      BY <2>1, <2>5, <2>4
    <2>6. CASE j # k
      BY <1>1, <2>6, <2>3
    <2> QED
      BY <2>5, <2>6
  <1>9. ASSUME NEW r \in Runners, PublishTail(r), jobs' # jobs
        PROVE  Steady(jobs[k], jobs'[k]) \/ /\ Goes(jobs[k], jobs'[k]) /\ on[r] = k
                                            /\ KeepsError(jobs[k], jobs'[k])
    <2>1. PICK j \in Jobs : on[r] = j
      BY <1>9, NotIdle DEF RunnerStep
    <2>2. /\ jobs[j].status \in Terminal
          /\ \/ Put(j, [jobs[j] EXCEPT !.stage = "completion_published"])
             \/ Put(j, [jobs[j] EXCEPT !.stage = "failure_published"])
      BY <1>9, <2>1 DEF PublishTail, mark_outcome_published, Terminal
    <2>3. /\ \/ jobs'[j] = [jobs[j] EXCEPT !.stage = "completion_published"]
             \/ jobs'[j] = [jobs[j] EXCEPT !.stage = "failure_published"]
          /\ \A i \in Jobs \ {j} : jobs'[i] = jobs[i]
      BY <2>2, PutRecord
    <2>4. Goes(jobs[j], jobs'[j]) /\ KeepsError(jobs[j], jobs'[j])
      BY <1>1, <2>2, <2>3, MarkedRows
    <2>5. CASE j = k
      BY <2>1, <2>5, <2>4
    <2>6. CASE j # k
      BY <1>1, <2>6, <2>3
    <2> QED
      BY <2>5, <2>6
  <1> QED
    BY <1>3, <1>5, <1>6, <1>7, <1>8, <1>9 DEF WorkerNext, vars, Steady, Crash,
       AdoptCancellation, ClaimPublication

TailPCs == {"tail_done", "prepared"}

\* The runner goes on with the row that it remembers.
Keeps(r) ==
    /\ pc[r] # "idle" /\ on'[r] = on[r] /\ claim'[r] = claim[r]
    /\ pc'[r] \in ExecutingPCs => pc[r] \in ExecutingPCs
    /\ pc'[r] \in FinalizingPCs => pc[r] \in FinalizingPCs
    /\ pc'[r] = "publish" => pc[r] = "publish"
    /\ pc'[r] \in TailPCs /\ claim[r].error =>
          pc[r] \in TailPCs \/ RecordRetryTail(r) \/ RecordFailedTail(r)

\* A finalization begins under a new claim, from a row that is not finalized yet,
\* or goes on.
Enters(r) ==
    LET j == on'[r] IN
    \/ jobs[j].gen < jobs'[j].gen
    \/ jobs[j].status \in {"running", "executing"}
    \/ pc[r] \in FinalizingPCs /\ on[r] = j /\ claim[r].gen = jobs[j].gen

\* The runner remembers the row that its operation returned.
Renews(r) ==
    /\ on'[r] \in Jobs /\ claim'[r] = jobs'[on'[r]] /\ claim'[r].status # "absent"
    /\ pc'[r] \in ExecutingPCs => claim'[r].status = "executing"
    /\ pc'[r] \in FinalizingPCs => claim'[r].status = "finalizing" /\ Enters(r)
    /\ pc'[r] = "publish" => claim'[r].status \in Terminal
    /\ pc'[r] \notin TailPCs

LEMMA StagesApart ==
  /\ "executing" \in ExecutingPCs /\ "unknown" \in ExecutingPCs
  /\ "reconcile" \in FinalizingPCs /\ "finalizing" \in FinalizingPCs
  /\ TailPCs \subseteq FinalizingPCs /\ "reconcile" \notin TailPCs /\ "finalizing" \notin TailPCs
  /\ \A p \in {"idle", "precommit", "canceling", "cleanup", "ack", "publish"} :
        p \notin ExecutingPCs /\ p \notin FinalizingPCs
  /\ \A p \in ExecutingPCs : p \notin FinalizingPCs /\ p # "publish"
  /\ "publish" \notin FinalizingPCs
  BY DEF ExecutingPCs, FinalizingPCs, TailPCs

LEMMA TakesRenew ==
  ASSUME WorkerTypeOK, NEW r \in Runners, NEW j \in Jobs,
         Acquisition(r, j) \/ AdoptCancellation(r, j) \/ ClaimPublication(r, j)
  PROVE  OthersStay(r) /\ Renews(r)
  <1>1. jobs[j] \in Job /\ jobs[j].gen < jobs[j].gen + 1
    <2>1. jobs[j] \in Job
      BY DEF WorkerTypeOK, QueueTypeOK
    <2>2. jobs[j].gen \in Nat
      BY <2>1 DEF Job
    <2> QED
      BY <2>1, <2>2
  <1>2. CASE ClaimStart(r, j)
    <2>1. pc'[r] = "precommit" /\ on'[r] = j /\ claim'[r] = jobs'[j] /\ OthersStay(r)
      BY <1>2, Moves DEF ClaimStart
    <2>2. jobs'[j].status = "running"
      BY <1>2, PutRecord DEF ClaimStart, start
    <2> QED
      BY <2>1, <2>2, StagesApart DEF Renews
  <1>3. CASE ClaimFinalizing(r, j)
    <2>1. PICK p \in {"reconcile", "finalizing"} : Take(r, j, p)
      BY <1>3 DEF ClaimFinalizing
    <2>2. pc'[r] = p /\ on'[r] = j /\ claim'[r] = jobs'[j] /\ OthersStay(r)
      BY <2>1, Moves
    <2>3. /\ jobs'[j] = [jobs[j] EXCEPT !.worker = WorkerOf[r], !.lease = "live", !.gen = @ + 1]
          /\ jobs[j].status = "finalizing"
      BY <1>3, PutRecord DEF ClaimFinalizing, resume_finalizing
    <2>4. jobs'[j].status = "finalizing" /\ jobs'[j].gen = jobs[j].gen + 1
      BY <1>1, <2>3 DEF Job
    <2> QED
      BY <1>1, <2>2, <2>4, StagesApart DEF Renews, Enters
  <1>4. CASE ClaimExpiredExecuting(r, j)
    <2>1. pc'[r] = "reconcile" /\ on'[r] = j /\ claim'[r] = jobs'[j] /\ OthersStay(r)
      BY <1>4, Moves DEF ClaimExpiredExecuting
    <2>2. jobs'[j] = [jobs[j] EXCEPT !.status = "finalizing", !.worker = WorkerOf[r],
                              !.lease = "live", !.gen = @ + 1, !.error = FALSE,
                              !.stage = "outcome_reconciliation"]
      BY <1>4, PutRecord DEF ClaimExpiredExecuting, recover_expired_executing
    <2>3. jobs'[j].status = "finalizing" /\ jobs'[j].gen = jobs[j].gen + 1
      BY <1>1, <2>2 DEF Job
    <2> QED
      BY <1>1, <2>1, <2>3, StagesApart DEF Renews, Enters
  <1>5. CASE ClaimCancellation(r, j)
    <2>1. pc'[r] = "canceling" /\ on'[r] = j /\ claim'[r] = jobs'[j] /\ OthersStay(r)
      BY <1>5, Moves DEF ClaimCancellation
    <2>2. /\ jobs'[j] = [jobs[j] EXCEPT !.worker = WorkerOf[r], !.lease = "live", !.gen = @ + 1,
                              !.stage = "cancellation_pending"]
          /\ jobs[j].status = "cancel_requested"
      BY <1>5, PutRecord DEF ClaimCancellation, claim_cancellation
    <2>3. jobs'[j].status = "cancel_requested"
      BY <1>1, <2>2 DEF Job
    <2> QED
      BY <2>1, <2>3, StagesApart DEF Renews, TailPCs
  <1>6. CASE AdoptCancellation(r, j)
    <2>1. /\ pc'[r] = "canceling" /\ on'[r] = j /\ claim'[r] = jobs'[j] /\ OthersStay(r)
          /\ jobs'[j].status = "cancel_requested"
      BY <1>6, Moves DEF AdoptCancellation
    <2> QED
      BY <2>1, StagesApart DEF Renews, TailPCs
  <1>7. CASE ClaimPublication(r, j)
    <2>1. /\ pc'[r] = "publish" /\ on'[r] = j /\ claim'[r] = jobs'[j] /\ OthersStay(r)
          /\ jobs'[j].status \in Terminal /\ jobs'[j].status # "absent"
      BY <1>7, Moves DEF ClaimPublication, Terminal
    <2> QED
      BY <2>1, StagesApart DEF Renews, TailPCs
  <1> QED
    BY <1>2, <1>3, <1>4, <1>5, <1>6, <1>7 DEF Acquisition

\* The operations of a runner after which it remembers the new row.
LEMMA AdvancesRenew ==
  ASSUME WorkerTypeOK, NEW r \in Runners,
         \/ FailPrecommit(r) \/ RetrySafeError(r) \/ BeginFinalizing(r) \/ Commit(r)
         \/ CommitWithConsumedToken(r) \/ ReconcileFailure(r) \/ BeginCleanup(r)
  PROVE  OthersStay(r) /\ Renews(r)
  <1>1. PICK j \in Jobs : on[r] = j
    BY NotIdle DEF RunnerStep
  <1>2. jobs[j] \in Job
    BY DEF WorkerTypeOK, QueueTypeOK
  <1>3. ASSUME NEW error, NEW stage, Advance(r, "finalizing"),
               begin_finalizing_started(j, WorkerOf[r], claim[r].gen, error, stage)
        PROVE  OthersStay(r) /\ Renews(r)
    <2>1. pc'[r] = "finalizing" /\ on'[r] = j /\ claim'[r] = jobs'[j] /\ OthersStay(r)
      BY <1>1, <1>3, Moves
    <2>2. /\ jobs[j].status \in {"running", "executing"}
          /\ jobs'[j] = [jobs[j] EXCEPT !.status = "finalizing", !.error = error, !.stage = stage]
      BY <1>3, PutRecord DEF begin_finalizing_started
    <2>3. jobs'[j].status = "finalizing"
      BY <1>2, <2>2 DEF Job
    <2> QED
      BY <2>1, <2>2, <2>3, StagesApart DEF Renews, Enters
  <1>4. CASE FailPrecommit(r) \/ RetrySafeError(r) \/ BeginFinalizing(r)
    BY <1>1, <1>3, <1>4 DEF FailPrecommit, RetrySafeError, BeginFinalizing
  <1>5. CASE Commit(r) \/ CommitWithConsumedToken(r)
    <2>1. PICK p \in {"executing", "unknown"} : Advance(r, p)
      BY <1>5 DEF Commit, CommitWithConsumedToken
    <2>2. pc'[r] = p /\ on'[r] = j /\ claim'[r] = jobs'[j] /\ OthersStay(r)
      BY <1>1, <2>1, Moves
    <2>3. jobs'[j] = [jobs[j] EXCEPT !.status = "executing"]
      BY <1>1, <1>5, PutRecord DEF Commit, CommitWithConsumedToken, begin_executing_started
    <2>4. jobs'[j].status = "executing"
      BY <1>2, <2>3 DEF Job
    <2> QED
      BY <2>2, <2>4, StagesApart DEF Renews, TailPCs
  <1>6. CASE ReconcileFailure(r)
    <2>1. /\ pc'[r] = "finalizing" /\ on'[r] = j /\ claim'[r] = jobs'[j] /\ OthersStay(r)
          /\ pc[r] = "reconcile"
      BY <1>1, <1>6, Moves DEF ReconcileFailure
    <2>2. /\ jobs[j].status = "finalizing" /\ claim[r].gen = jobs[j].gen
          /\ jobs'[j] = [jobs[j] EXCEPT !.error = TRUE, !.stage = "tool_known_failure"]
      BY <1>1, <1>6, PutRecord DEF ReconcileFailure, set_finalizing_failure, OwnsClaim
    <2>3. jobs'[j].status = "finalizing"
      BY <1>2, <2>2 DEF Job
    <2> QED
      BY <1>1, <2>1, <2>2, <2>3, StagesApart DEF Renews, Enters
  <1>7. CASE BeginCleanup(r)
    <2>1. pc'[r] = "cleanup" /\ on'[r] = j /\ claim'[r] = jobs'[j] /\ OthersStay(r)
      BY <1>1, <1>7, Moves DEF BeginCleanup
    <2>2. /\ jobs[j].status = "cancel_requested"
          /\ jobs'[j] = [jobs[j] EXCEPT !.gen = @ + 1, !.stage = "cancellation_cleanup",
                                        !.lease = "live"]
      BY <1>1, <1>7, PutRecord DEF BeginCleanup, begin_cancellation_cleanup
    <2>3. jobs'[j].status = "cancel_requested"
      BY <1>2, <2>2 DEF Job
    <2> QED
      BY <2>1, <2>3, StagesApart DEF Renews, TailPCs
  <1> QED
    BY <1>4, <1>5, <1>6, <1>7

\* The steps of a runner that keeps the row it remembers.
LEMMA OthersKeep ==
  ASSUME WorkerTypeOK, NEW r \in Runners,
         \/ PerformEffect(r) \/ EndWithoutEffect(r) \/ AppendOutcome(r) \/ RecordToolStatus(r) \/ RecordStatusEarly(r)
         \/ StorageError(r) \/ ReconcileAfterError(r) \/ RecordUnknownEvidence(r)
         \/ ReconcileSuccess(r) \/ RecordRetryTail(r) \/ RecordFailedTail(r) \/ PrepareTail(r)
         \/ RecordCanceled(r)
  PROVE  OthersStay(r) /\ Keeps(r)
  <1>1. ASSUME NEW q, GoTo(r, q), UNCHANGED <<on, claim>>
        PROVE  pc'[r] = q /\ on'[r] = on[r] /\ claim'[r] = claim[r] /\ OthersStay(r)
    BY <1>1, Moves
  <1>2. CASE PerformEffect(r) \/ EndWithoutEffect(r) \/ AppendOutcome(r) \/ RecordToolStatus(r) \/ RecordStatusEarly(r)
             \/ StorageError(r) \/ ReconcileAfterError(r)
    <2>1. PICK q \in ExecutingPCs : GoTo(r, q) /\ UNCHANGED <<on, claim>> /\ pc[r] \in ExecutingPCs
      BY <1>2 DEF PerformEffect, EndWithoutEffect, AppendOutcome, RecordToolStatus, RecordStatusEarly, StorageError,
         ReconcileAfterError, ExecutingPCs
    <2> QED
      BY <1>1, <2>1, StagesApart DEF Keeps
  <1>3. CASE RecordUnknownEvidence(r)
    <2>1. /\ UNCHANGED <<on, claim>>
          /\ \/ pc[r] = "unknown" /\ GoTo(r, "mark_unknown")
             \/ pc[r] = "reconcile" /\ GoTo(r, "reconcile_unknown")
      BY <1>3 DEF RecordUnknownEvidence
    <2> QED
      BY <1>1, <2>1 DEF Keeps, ExecutingPCs, FinalizingPCs, TailPCs
  <1>4. CASE ReconcileSuccess(r)
    BY <1>1, <1>4 DEF ReconcileSuccess, Keeps, ExecutingPCs, FinalizingPCs, TailPCs
  <1>5. CASE RecordRetryTail(r) \/ RecordFailedTail(r)
    <2>1. GoTo(r, "tail_done") /\ UNCHANGED <<on, claim>> /\ pc[r] = "finalizing"
      BY <1>5 DEF RecordRetryTail, RecordFailedTail
    <2> QED
      BY <1>1, <1>5, <2>1 DEF Keeps, ExecutingPCs, FinalizingPCs, TailPCs
  <1>6. CASE PrepareTail(r)
    <2>1. /\ GoTo(r, "prepared") /\ UNCHANGED <<on, claim>>
          /\ pc[r] = "tail_done" \/ (pc[r] = "finalizing" /\ ~claim[r].error)
      BY <1>6 DEF PrepareTail, TailRecorded
    <2> QED
      BY <1>1, <2>1 DEF Keeps, ExecutingPCs, FinalizingPCs, TailPCs
  <1>7. CASE RecordCanceled(r)
    BY <1>1, <1>7 DEF RecordCanceled, Keeps, ExecutingPCs, FinalizingPCs, TailPCs
  <1> QED
    BY <1>2, <1>3, <1>4, <1>5, <1>6, <1>7

\* At most one runner moves.
LEMMA RunnerMoves ==
  ASSUME WorkerTypeOK, [WorkerNext]_vars
  PROVE  \/ UNCHANGED runnerVars
         \/ \E r \in Runners : OthersStay(r) /\ (pc'[r] = "idle" \/ Keeps(r) \/ Renews(r))
  <1>1. ASSUME NEW r \in Runners, Leave(r) PROVE OthersStay(r) /\ pc'[r] = "idle"
    BY <1>1, Moves
  <1>2. ASSUME NEW r \in Runners, RunnerStep(r)
        PROVE  OthersStay(r) /\ (pc'[r] = "idle" \/ Keeps(r) \/ Renews(r))
    <2>1. PICK j \in Jobs : on[r] = j
      BY <1>2, NotIdle
    <2>2. CASE Finish(r) /\ Advance(r, "publish") /\ jobs'[on[r]].status \in Terminal
      <3>1. /\ pc'[r] = "publish" /\ on'[r] = j /\ claim'[r] = jobs'[j] /\ OthersStay(r)
            /\ jobs'[j].status # "absent" /\ jobs'[j].status \in Terminal
        BY <2>1, <2>2, Moves DEF Terminal
      <3> QED
        BY <3>1, StagesApart DEF Renews, TailPCs
    <2>3. CASE Abandon(r) /\ Advance(r, "canceling") /\ CancelRequestedByOwner(r)
      <3>1. /\ pc'[r] = "canceling" /\ on'[r] = j /\ claim'[r] = jobs'[j] /\ OthersStay(r)
            /\ jobs'[j].status = "cancel_requested"
        BY <2>1, <2>3, Moves DEF Abandon, CancelRequestedByOwner
      <3> QED
        BY <3>1, StagesApart DEF Renews, TailPCs
    <2>4. CASE Finish(r) \/ Abandon(r)
      BY <1>1, <2>2, <2>3, <2>4 DEF Finish, Abandon
    <2>5. CASE MarkUnknown(r) \/ RetryTailRefused(r) \/ PublishTail(r) \/ AcknowledgeCanceled(r)
      BY <1>1, <2>5 DEF MarkUnknown, RetryTailRefused, PublishTail, AcknowledgeCanceled
    <2> QED
      BY <1>2, <2>4, <2>5, AdvancesRenew, OthersKeep DEF RunnerStep
  <1>3. ASSUME NEW r \in Runners, Crash(r) PROVE OthersStay(r) /\ pc'[r] = "idle"
    BY <1>1, <1>3 DEF Crash
  <1> QED
    BY <1>2, <1>3, TakesRenew DEF WorkerNext, vars, runnerVars, EnqueueApproved, RequestCancel, Expire

\* What a runner in stage p that remembers c knows of the row.
Knows(p, c, row) ==
    /\ row.status # "absent" /\ c.gen <= row.gen
    /\ c.gen = row.gen => c.attempt = row.attempt
    /\ p \in ExecutingPCs => c.status = "executing"
    /\ p \in FinalizingPCs /\ c.gen = row.gen =>
          row.status \in Past /\ (row.status = "finalizing" => row.error = c.error)
    /\ p = "publish" => row.status \in Terminal /\ c.gen = row.gen

Holds(r) == claim[r].gen = jobs[on[r]].gen

\* A final failure is announced before the tail of its finalization.
TailOK(r) ==
    pc[r] \in TailPCs /\ Holds(r) /\ claim[r].error /\ ~WillQueue(r) => FailedEvent(r) \in log

\* No two runners finalize a job under its last claim.
Sole(r, s) ==
    (/\ pc[r] \in FinalizingPCs /\ pc[s] \in FinalizingPCs
     /\ on[r] = on[s] /\ Holds(r) /\ Holds(s)) => r = s

MemoryInv ==
    /\ WorkerTypeOK /\ QueueInv
    /\ \A r \in Runners : pc[r] # "idle" => Knows(pc[r], claim[r], jobs[on[r]])
    /\ \A r \in Runners : TailOK(r)
    /\ \A r, s \in Runners : Sole(r, s)
    /\ \A j \in Jobs : jobs[j].stage = "completion_published" => jobs[j].status = "completed"

LEMMA ClaimTypes ==
  ASSUME WorkerTypeOK, NEW r \in Runners, pc[r] # "idle"
  PROVE  /\ on[r] \in Jobs /\ claim[r] \in Job /\ jobs[on[r]] \in Job
         /\ claim[r].gen \in Nat /\ jobs[on[r]].gen \in Nat
  BY DEF WorkerTypeOK, QueueTypeOK, Job

\* What a runner that keeps its row still knows.
LEMMA KeepsKnowing ==
  ASSUME MemoryInv, WorkerTypeOK', [WorkerNext]_vars, NEW s \in Runners, Keeps(s)
  PROVE  /\ Knows(pc'[s], claim'[s], jobs'[on'[s]])
         /\ Holds(s)' => Holds(s)
  <1>1. PICK j \in Jobs : on[s] = j
    BY DEF Keeps, MemoryInv, WorkerTypeOK
  <1>2. /\ claim[s].gen \in Nat /\ jobs[j].gen \in Nat /\ jobs'[j].gen \in Nat
    BY <1>1, ClaimTypes DEF Keeps, MemoryInv, WorkerTypeOK, QueueTypeOK, Job
  <1>3. Knows(pc[s], claim[s], jobs[j])
    BY <1>1 DEF MemoryInv, Keeps
  <1>4. Goes(jobs[j], jobs'[j])
    BY RowsGo DEF MemoryInv
  <1>5. on'[s] = j /\ claim'[s] = claim[s]
    BY <1>1 DEF Keeps
  <1>6. claim[s].gen = jobs'[j].gen => jobs'[j].gen = jobs[j].gen
    BY <1>2, <1>3, <1>4 DEF Knows, Goes
  <1>7. ASSUME pc[s] \in FinalizingPCs, claim[s].gen = jobs'[j].gen, jobs'[j].status = "finalizing"
        PROVE  jobs'[j].error = claim[s].error
    <2>1. jobs[j].status \in Past /\ (jobs[j].status = "finalizing" => jobs[j].error = claim[s].error)
      BY <1>3, <1>6, <1>7 DEF Knows
    <2>2. CASE KeepsError(jobs[j], jobs'[j])
      BY <1>6, <1>7, <2>1, <2>2 DEF KeepsError
    <2>3. ASSUME NEW r \in Runners, ReconcileFailure(r), on[r] = j
          PROVE  jobs'[j].error = claim[s].error
      <3>1. pc[r] \in FinalizingPCs /\ claim[r].gen = jobs[j].gen /\ claim'[r] = jobs'[j]
        BY <2>3, StagesApart, Moves DEF ReconcileFailure, set_finalizing_failure, OwnsClaim, MemoryInv
      <3>2. r = s
        BY <1>1, <1>6, <1>7, <2>3, <3>1 DEF MemoryInv, Sole, Holds
      <3> QED
        BY <1>5, <3>1, <3>2
    <2> QED
      BY <2>2, <2>3, RowsGo DEF MemoryInv
  <1>8. Knows(pc'[s], claim[s], jobs'[j])
    <2>1. /\ jobs'[j].status # "absent" /\ claim[s].gen <= jobs'[j].gen
          /\ claim[s].gen = jobs'[j].gen => claim[s].attempt = jobs'[j].attempt
      BY <1>2, <1>3, <1>4, <1>6 DEF Knows, Goes
    <2>2. pc'[s] \in FinalizingPCs /\ claim[s].gen = jobs'[j].gen =>
             jobs'[j].status \in Past /\ (jobs'[j].status = "finalizing" => jobs'[j].error = claim[s].error)
      BY <1>3, <1>4, <1>6, <1>7 DEF Knows, Goes, Keeps
    <2>3. pc'[s] = "publish" => jobs'[j].status \in Terminal /\ claim[s].gen = jobs'[j].gen
      BY <1>3, <1>4 DEF Knows, Goes, Keeps
    <2> QED
      BY <1>3, <2>1, <2>2, <2>3 DEF Knows, Keeps
  <1> QED
    BY <1>1, <1>5, <1>6, <1>8 DEF Holds

\* The row that an operation returned is known.
LEMMA RenewsKnowing ==
  ASSUME WorkerTypeOK', NEW r \in Runners, Renews(r)
  PROVE  Knows(pc'[r], claim'[r], jobs'[on'[r]])
  <1>1. claim'[r] = jobs'[on'[r]] /\ jobs'[on'[r]].gen \in Nat
    BY DEF Renews, WorkerTypeOK, QueueTypeOK, Job
  <1>2. "finalizing" \in Past
    BY DEF Past
  <1> QED
    BY <1>1, <1>2 DEF Knows, Renews

\* A bystander keeps its row.
LEMMA BystandersKeep ==
  ASSUME WorkerTypeOK, NEW s \in Runners, pc[s] # "idle",
         pc'[s] = pc[s], on'[s] = on[s], claim'[s] = claim[s]
  PROVE  Keeps(s)
  BY DEF Keeps

\* Results and errors of tools are recorded while the job is executing.
LEMMA OutcomeStep ==
  ASSUME MemoryInv, [WorkerNext]_vars, NEW e \in log' \ log, e.kind \in {"tool.result", "tool.error"}
  PROVE  jobs[e.job].status = "executing"
  <1>1. ASSUME NEW r \in Runners, AppendOutcome(r), ~(log' = log), e \in log'
        PROVE  jobs[e.job].status = "executing"
    <2>1. e.job = on[r] /\ pc[r] \in ExecutingPCs /\ StillHolds(r) /\ pc[r] # "idle"
      BY <1>1 DEF AppendOutcome, append_event_once, OutcomeEvent, EventOf, ExecutingPCs
    <2>2. claim[r].status = "executing"
      BY <2>1 DEF MemoryInv, Knows
    <2> QED
      BY <2>1, <2>2 DEF StillHolds
  <1>2. ASSUME NEW r \in Runners, RunnerStep(r) PROVE AppendOutcome(r)
    <2>1. ASSUME NEW d, log' = log \cup {d}, d.kind \notin {"tool.result", "tool.error"} PROVE FALSE
      BY <2>1
    <2>2. CASE RecordUnknownEvidence(r)
      BY <2>1, <2>2 DEF RecordUnknownEvidence, append_event_once, UnknownEvent, EventOf
    <2>3. CASE RecordRetryTail(r)
      BY <2>1, <2>3 DEF RecordRetryTail, append_event_once, RetryEvent, EventOf
    <2>4. CASE RecordFailedTail(r)
      BY <2>1, <2>4 DEF RecordFailedTail, append_event_once, FailedEvent, EventOf
    <2>5. CASE RecordCanceled(r)
      BY <2>1, <2>5 DEF RecordCanceled, append_event_once, CanceledEvent, EventOf
    <2>6. CASE PublishTail(r)
      BY <2>1, <2>6 DEF PublishTail, append_event_once, EventOf
    <2>7. CASE Finish(r)
      <3>1. log' = log \cup TerminalEvents(on[r])
        BY <2>7 DEF Finish
      <3>2. \A d \in TerminalEvents(on[r]) : d.kind \notin {"tool.result", "tool.error"}
        BY DEF TerminalEvents, EventOf
      <3> QED
        BY <3>1, <3>2
    <2> QED
      BY <1>2, <2>2, <2>3, <2>4, <2>5, <2>6, <2>7 DEF RunnerStep, FailPrecommit,
         CommitWithConsumedToken, Commit, PerformEffect, EndWithoutEffect, RetrySafeError,
         RecordToolStatus, RecordStatusEarly, StorageError, ReconcileAfterError, BeginFinalizing, MarkUnknown,
         ReconcileSuccess, ReconcileFailure, RetryTailRefused, PrepareTail, BeginCleanup,
         AcknowledgeCanceled, Abandon, recordVars
  <1> QED
    BY <1>1, <1>2 DEF WorkerNext, vars, EnqueueApproved, RequestCancel, Expire, Acquisition,
       ClaimStart, ClaimFinalizing, ClaimExpiredExecuting, ClaimCancellation, AdoptCancellation,
       ClaimPublication, Crash, recordVars

\* The decision whether a failure is final does not change while it is carried
\* out.
LEMMA TailStep ==
  ASSUME Backend = "memory", MemoryInv, WorkerTypeOK', [WorkerNext]_vars,
         NEW s \in Runners, Keeps(s)
  PROVE  TailOK(s)'
  <1> SUFFICES ASSUME pc'[s] \in TailPCs, Holds(s)', claim'[s].error, ~WillQueue(s)'
               PROVE  FailedEvent(s)' \in log'
    BY DEF TailOK
  <1>1. on'[s] = on[s] /\ claim'[s] = claim[s] /\ pc[s] \in FinalizingPCs /\ Holds(s) /\ pc[s] # "idle"
    BY KeepsKnowing, StagesApart DEF Keeps
  <1>2. jobs[on[s]].status \in Past
    BY <1>1 DEF MemoryInv, Knows, Holds
  <1>3. log \subseteq log' /\ \A e \in log' \ log : e.job = on[s] => e.kind \notin {"tool.result", "tool.error"}
    BY <1>2, OutcomeStep, LogStep DEF Past, Terminal
  <1>4. WillQueue(s)' <=> WillQueue(s)
    <2>1. DurableEvents(on[s], claim[s])' = DurableEvents(on[s], claim[s])
      BY <1>1, <1>3 DEF DurableEvents
    <2>2. DurableOutcome(on[s], claim[s])' = DurableOutcome(on[s], claim[s])
      BY <2>1 DEF DurableOutcome
    <2> QED
      BY <1>1, <2>2 DEF WillQueue, Retryable
  <1>5. FailedEvent(s)' = FailedEvent(s)
    BY <1>1 DEF FailedEvent, EventOf
  <1>6. CASE pc[s] \in TailPCs
    BY <1>1, <1>3, <1>4, <1>5, <1>6 DEF MemoryInv, TailOK
  <1>7. CASE RecordRetryTail(s)
    BY <1>4, <1>7 DEF RecordRetryTail
  <1>8. CASE RecordFailedTail(s)
    BY <1>5, <1>8 DEF RecordFailedTail, append_event_once
  <1> QED
    BY <1>1, <1>6, <1>7, <1>8 DEF Keeps

LEMMA MemoryInvInit == WorkerInit => MemoryInv
  <1> SUFFICES ASSUME WorkerInit PROVE MemoryInv
    OBVIOUS
  <1>1. WorkerTypeOK /\ QueueInv
    BY WorkerTypeInit
  <1>2. \A r \in Runners : pc[r] = "idle"
    BY DEF WorkerInit
  <1>3. \A j \in Jobs : jobs[j].stage = "none"
    BY DEF WorkerInit, QueueInit, NoJob
  <1> QED
    BY <1>1, <1>2, <1>3, StagesApart DEF MemoryInv, TailOK, Sole

LEMMA MemoryInvStep ==
  ASSUME Backend = "memory", MemoryInv, [WorkerNext]_vars
  PROVE  MemoryInv'
  <1>1. WorkerTypeOK /\ QueueInv /\ WorkerTypeOK' /\ QueueInv'
    BY WorkerTypeStep DEF MemoryInv
  <1>2. ASSUME NEW j \in Jobs, jobs'[j].stage = "completion_published"
        PROVE  jobs'[j].status = "completed"
    <2>1. CASE KeepsStage(jobs[j], jobs'[j])
      <3>1. jobs[j].status = "completed"
        BY <1>2, <2>1 DEF KeepsStage, MemoryInv
      <3> QED
        BY <1>1, <3>1, RowsGo DEF Goes, Terminal
    <2>2. ASSUME NEW r \in Runners, PublishTail(r), on[r] = j PROVE jobs'[j].status = "completed"
      <3>1. CASE jobs' = jobs
        BY <1>2, <3>1 DEF MemoryInv
      <3>2. CASE jobs[j].status = "completed"
        BY <1>1, <3>2, RowsGo DEF Goes, Terminal
      <3>3. CASE Put(j, [jobs[j] EXCEPT !.stage = "failure_published"])
        <4>1. jobs[j] \in Job
          BY <1>1 DEF WorkerTypeOK, QueueTypeOK
        <4>2. jobs'[j].stage = "failure_published"
          BY <1>1, <3>3, <4>1, PutRecord DEF Job
        <4> QED
          BY <1>2, <4>2
      <3> QED
        BY <2>2, <3>1, <3>2, <3>3 DEF PublishTail, mark_outcome_published
    <2> QED
      BY <1>1, <2>1, <2>2, RowsGo
  <1>3. ASSUME NEW s \in Runners, pc'[s] # "idle", Keeps(s) \/ Renews(s)
        PROVE  Knows(pc'[s], claim'[s], jobs'[on'[s]]) /\ TailOK(s)'
    <2>1. CASE Keeps(s)
      BY <1>1, <2>1, KeepsKnowing, TailStep
    <2>2. CASE Renews(s)
      BY <1>1, <2>2, RenewsKnowing DEF Renews, TailOK
    <2> QED
      BY <1>3, <2>1, <2>2
  <1>4. ASSUME NEW s \in Runners, pc'[s] = "idle" PROVE TailOK(s)'
    BY <1>4, StagesApart DEF TailOK
  <1>5. ASSUME NEW s \in Runners, pc'[s] = pc[s], on'[s] = on[s], claim'[s] = claim[s], pc'[s] # "idle"
        PROVE  Keeps(s)
    BY <1>1, <1>5, BystandersKeep
  <1>6. ASSUME NEW s \in Runners, NEW r \in Runners, Keeps(s), Keeps(r) PROVE Sole(r, s)'
    <2> SUFFICES ASSUME pc'[r] \in FinalizingPCs, pc'[s] \in FinalizingPCs, on'[r] = on'[s],
                        Holds(r)', Holds(s)'
                 PROVE  r = s
      BY DEF Sole
    <2>1. Holds(r) /\ Holds(s) /\ on[r] = on[s] /\ pc[r] \in FinalizingPCs /\ pc[s] \in FinalizingPCs
      BY <1>1, <1>6, KeepsKnowing DEF Keeps
    <2> QED
      BY <2>1 DEF MemoryInv, Sole
  <1>7. ASSUME NEW s \in Runners, NEW r \in Runners, Keeps(s), Renews(r), pc'[r] \in FinalizingPCs,
               pc'[s] \in FinalizingPCs, on'[r] = on'[s], Holds(s)'
        PROVE  r = s
    <2>1. PICK j \in Jobs : on'[r] = j /\ on[s] = j
      BY <1>7 DEF Renews, Keeps
    <2>2. Holds(s) /\ claim[s].gen = jobs'[j].gen /\ pc[s] \in FinalizingPCs /\ pc[s] # "idle"
      BY <1>1, <1>7, <2>1, KeepsKnowing DEF Keeps, Holds
    <2>3. claim[s].gen = jobs[j].gen /\ jobs[j].status \in Past /\ jobs[j].gen \in Nat
      BY <1>1, <2>1, <2>2, ClaimTypes DEF MemoryInv, Knows, Holds
    <2>4. ~(jobs[j].gen < jobs'[j].gen) /\ jobs[j].status \notin {"running", "executing"}
      BY <2>2, <2>3 DEF Past, Terminal
    <2>5. pc[r] \in FinalizingPCs /\ on[r] = j /\ claim[r].gen = jobs[j].gen
      BY <1>7, <2>1, <2>4 DEF Renews, Enters
    <2> QED
      BY <2>1, <2>2, <2>3, <2>5 DEF MemoryInv, Sole, Holds
  <1>8. /\ \A s \in Runners : pc'[s] # "idle" => Knows(pc'[s], claim'[s], jobs'[on'[s]])
        /\ \A s \in Runners : TailOK(s)'
        /\ \A r, s \in Runners : Sole(r, s)'
    <2>1. CASE UNCHANGED runnerVars
      <3>1. \A s \in Runners : pc'[s] # "idle" => Keeps(s)
        BY <1>5, <2>1 DEF runnerVars
      <3>2. \A r, s \in Runners : Sole(r, s)'
        BY <1>6, <3>1, StagesApart DEF Sole
      <3> QED
        BY <1>3, <1>4, <3>1, <3>2
    <2>2. ASSUME NEW r \in Runners, OthersStay(r), pc'[r] = "idle" \/ Keeps(r) \/ Renews(r)
          PROVE  /\ \A s \in Runners : pc'[s] # "idle" => Knows(pc'[s], claim'[s], jobs'[on'[s]])
                 /\ \A s \in Runners : TailOK(s)'
                 /\ \A t, s \in Runners : Sole(t, s)'
      <3>1. \A s \in Runners \ {r} : pc'[s] # "idle" => Keeps(s)
        BY <1>5, <2>2 DEF OthersStay
      <3>2. ASSUME NEW t \in Runners, NEW s \in Runners PROVE Sole(t, s)'
        <4> SUFFICES ASSUME pc'[t] \in FinalizingPCs, pc'[s] \in FinalizingPCs, on'[t] = on'[s],
                            Holds(t)', Holds(s)', t # s
                     PROVE  FALSE
          BY DEF Sole
        <4>1. pc'[t] # "idle" /\ pc'[s] # "idle"
          BY StagesApart
        <4>2. CASE Keeps(t) /\ Keeps(s)
          BY <1>6, <4>2 DEF Sole
        <4>3. CASE t = r /\ Renews(r)
          BY <1>7, <3>1, <4>1, <4>3
        <4>4. CASE s = r /\ Renews(r)
          BY <1>7, <3>1, <4>1, <4>4
        <4> QED
          BY <2>2, <3>1, <4>1, <4>2, <4>3, <4>4
      <3> QED
        BY <1>3, <1>4, <2>2, <3>1, <3>2
    <2> QED
      BY <1>1, <2>1, <2>2, RunnerMoves
  <1> QED
    BY <1>1, <1>2, <1>8 DEF MemoryInv

\* OutcomeIsAnnounced for one job, in memory.
JobIsPublished(l, row, j) ==
    /\ row.status = "completed" /\ row.stage = "completion_published" =>
          Announced(l, row, j, "execution.completed")
    /\ row.status = "failed" => Announced(l, row, j, "execution.failed")
    /\ \A e \in l : e.job = j /\ e.kind = "execution.completed" => row.status = "completed"

LEMMA PublishedByJob ==
  ASSUME Backend = "memory"
  PROVE  OutcomeIsAnnounced <=> \A j \in Jobs : JobIsPublished(log, jobs[j], j)
  BY DEF OutcomeIsAnnounced, JobIsPublished, Announced

\* The end of a failed finalization has been announced.
LEMMA FailsAnnounced ==
  ASSUME Backend = "memory", MemoryInv, NEW r \in Runners, Finish(r), NEW j \in Jobs, on[r] = j,
         jobs'[j].status = "failed"
  PROVE  /\ FailedEvent(r) \in log
         /\ claim[r].gen = jobs'[j].gen /\ claim[r].attempt = jobs'[j].attempt
  <1>1. /\ jobs[j].status = "finalizing" /\ claim[r].gen = jobs[j].gen
        /\ jobs'[j] = Finished(jobs[j], Retryable(r))
    BY PutRecord DEF Finish, finish_finalizing_started, OwnsClaim, MemoryInv
  <1>2. pc[r] \in FinalizingPCs /\ pc[r] # "idle"
    BY DEF Finish, FinalizingPCs
  <1>3. claim[r].attempt = jobs[j].attempt /\ jobs[j].error = claim[r].error
    BY <1>1, <1>2 DEF MemoryInv, Knows
  <1>4. /\ jobs[j].error /\ ~(Retryable(r) /\ jobs[j].attempt < MaxAttempts)
        /\ jobs'[j].gen = jobs[j].gen /\ jobs'[j].attempt = jobs[j].attempt
    <2>1. jobs[j] \in Job
      BY DEF MemoryInv, WorkerTypeOK, QueueTypeOK
    <2> QED
      BY <1>1, <2>1 DEF Finished, Job
  <1>5. ~WillQueue(r)
    BY <1>3, <1>4 DEF WillQueue
  <1>6. pc[r] \in TailPCs
    BY <1>5 DEF Finish, NeedsPrepare, TailPCs
  <1> QED
    BY <1>1, <1>3, <1>4, <1>5, <1>6 DEF MemoryInv, TailOK, Holds

LEMMA PublishedStep ==
  ASSUME Backend = "memory", MemoryInv, [WorkerNext]_vars, NEW j \in Jobs,
         JobIsPublished(log, jobs[j], j)
  PROVE  JobIsPublished(log', jobs'[j], j)
  <1>1. WorkerTypeOK /\ QueueInv /\ log \subseteq log'
    BY LogStep DEF MemoryInv
  <1>2. jobs[j].status \in Terminal =>
           /\ jobs'[j].status = jobs[j].status /\ jobs'[j].attempt = jobs[j].attempt
           /\ jobs'[j].gen = jobs[j].gen
    BY <1>1, RowsGo DEF Goes, Terminal
  <1>3. {"completed", "failed"} \subseteq Terminal
    BY DEF Terminal
  <1>4. ASSUME jobs'[j].status = "failed"
        PROVE  Announced(log', jobs'[j], j, "execution.failed")
    <2>1. CASE jobs[j].status = "failed"
      BY <1>1, <1>2, <1>3, <2>1 DEF JobIsPublished, Announced
    <2>2. CASE jobs[j].status # "failed"
      <3>1. PICK r \in Runners : Finish(r) /\ on[r] = j
        BY <1>1, <1>4, <2>2, EndedByFinish
      <3>2. /\ FailedEvent(r) \in log
            /\ claim[r].gen = jobs'[j].gen /\ claim[r].attempt = jobs'[j].attempt
        BY <1>4, <3>1, FailsAnnounced
      <3>3. /\ FailedEvent(r).job = j /\ FailedEvent(r).kind = "execution.failed"
            /\ FailedEvent(r).attempt = claim[r].attempt /\ FailedEvent(r).gen = claim[r].gen
        BY <3>1 DEF FailedEvent, EventOf
      <3> QED
        BY <1>1, <3>2, <3>3 DEF Announced
    <2> QED
      BY <2>1, <2>2
  <1>5. ASSUME NEW r \in Runners, PublishTail(r), on[r] = j, jobs[j].status = "completed"
        PROVE  Announced(log', jobs'[j], j, "execution.completed")
    <2> DEFINE e == EventOf(j, "execution.completed", claim[r].attempt, claim[r].gen, claim[r].worker)
    <2>1. e \in log'
      BY <1>5 DEF PublishTail, append_event_once
    <2>2. /\ e.job = j /\ e.kind = "execution.completed" /\ e.attempt = claim[r].attempt
          /\ e.gen = claim[r].gen
      BY DEF EventOf
    <2>3. claim[r].gen = jobs[j].gen /\ claim[r].attempt = jobs[j].attempt
      BY <1>5 DEF MemoryInv, Knows, PublishTail
    <2> HIDE DEF e
    <2> QED
      BY <1>2, <1>3, <1>5, <2>1, <2>2, <2>3 DEF Announced
  <1>6. ASSUME jobs'[j].status = "completed", jobs'[j].stage = "completion_published"
        PROVE  Announced(log', jobs'[j], j, "execution.completed")
    <2>1. CASE jobs[j].stage = "completion_published"
      <3>1. jobs[j].status = "completed"
        BY <2>1 DEF MemoryInv
      <3> QED
        BY <1>1, <1>2, <1>3, <2>1, <3>1 DEF JobIsPublished, Announced
    <2>2. CASE jobs[j].stage # "completion_published"
      <3>1. PICK r \in Runners : PublishTail(r) /\ on[r] = j
        BY <1>1, <1>6, <2>2, RowsGo DEF KeepsStage
      <3>2. jobs[j].status = "completed"
        <4>1. CASE jobs[j].status \in Terminal
          BY <1>2, <1>6, <4>1
        <4>2. pc[r] = "publish" /\ pc[r] # "idle"
          BY <3>1 DEF PublishTail
        <4> QED
          BY <3>1, <4>1, <4>2 DEF MemoryInv, Knows
      <3> QED
        BY <1>5, <3>1, <3>2
    <2> QED
      BY <2>1, <2>2
  <1>7. ASSUME NEW e \in log', e.job = j, e.kind = "execution.completed"
        PROVE  jobs'[j].status = "completed"
    <2>1. CASE e \in log
      BY <1>2, <1>3, <1>7, <2>1 DEF JobIsPublished
    <2>2. CASE e \notin log
      <3>1. PICK r \in Runners : \/ Finish(r) /\ e \in TerminalEvents(on[r])
                                 \/ PublishTail(r)
        BY <1>7, <2>2, LogStep
      <3>2. PublishTail(r)
        BY <3>1 DEF TerminalEvents
      <3>3. jobs[on[r]].status = "completed" /\ e.job = on[r]
        BY <1>7, <2>2, <3>2 DEF PublishTail, append_event_once, EventOf
      <3> QED
        BY <1>2, <1>3, <1>7, <3>3
    <2> QED
      BY <2>1, <2>2
  <1> QED
    BY <1>4, <1>6, <1>7 DEF JobIsPublished

\* What is known of the runners on either backend.
BackendInv == IF Backend = "memory" THEN MemoryInv ELSE WorkerInv /\ QueueInv

\* On both backends every failed job has the event execution.failed of exactly its
\* last attempt and claim, every completed job (in memory: one whose publication
\* is marked) the event execution.completed, and execution.completed is
\* never announced of a job that is not completed.  In Postgres the trigger
\* writes them; in memory record_execution_failure_tail and
\* publish_execution_completion_tail do, in steps of their own between which
\* the runner may lose its claim.
THEOREM OutcomeIsAnnouncedHolds == WorkerSpec => []OutcomeIsAnnounced
  <1>1. WorkerInit => BackendInv /\ OutcomeIsAnnounced
    <2> SUFFICES ASSUME WorkerInit PROVE BackendInv /\ OutcomeIsAnnounced
      OBVIOUS
    <2>1. BackendInv
      BY QueueAssumption, MemoryInvInit, WorkerInvInit, WorkerTypeInit DEF BackendInv
    <2>2. OutcomeIsAnnounced
      BY DEF WorkerInit, QueueInit, NoJob, OutcomeIsAnnounced
    <2> QED
      BY <2>1, <2>2
  <1>2. BackendInv /\ OutcomeIsAnnounced /\ [WorkerNext]_vars => BackendInv' /\ OutcomeIsAnnounced'
    <2> SUFFICES ASSUME BackendInv, OutcomeIsAnnounced, [WorkerNext]_vars
                 PROVE  BackendInv' /\ OutcomeIsAnnounced'
      OBVIOUS
    <2>1. CASE Backend = "memory"
      <3>1. MemoryInv /\ MemoryInv'
        BY <2>1, MemoryInvStep DEF BackendInv
      <3>2. \A j \in Jobs : JobIsPublished(log', jobs'[j], j)
        BY <2>1, <3>1, PublishedByJob, PublishedStep
      <3> QED
        BY <2>1, <3>1, <3>2 DEF BackendInv, OutcomeIsAnnounced, JobIsPublished, Announced
    <2>2. CASE Backend = "postgres"
      <3>1. WorkerInv /\ QueueInv
        BY <2>2 DEF BackendInv
      <3>2. WorkerInv' /\ QueueInv'
        BY <2>2, <3>1, WorkerInvStep, WorkerTypeStep DEF WorkerInv
      <3>3. \A j \in Jobs : JobIsAnnounced(log', jobs'[j], j)
        BY <2>2, <3>1, AnnouncedByJob, AnnouncedStep
      <3> QED
        BY <2>2, <3>2, <3>3 DEF BackendInv, OutcomeIsAnnounced, JobIsAnnounced, Announced
    <2> QED
      BY <2>1, <2>2, QueueAssumption
  <1> QED
    BY <1>1, <1>2, PTL DEF WorkerSpec
=============================================================================
