--------------------------- MODULE ExecutionWorker ---------------------------
(***************************************************************************)
(* The code that runs approved tool executions (execution.rs,              *)
(* worker_execution_runtime.rs, worker_daemon.rs, the execution job        *)
(* handlers) on top of ExecutionQueue.                                     *)
(*                                                                         *)
(* A runner is one invocation of run_execution_job_as_worker or of one of  *)
(* the daemon's two recovery handlers.  It keeps the row its last queue    *)
(* operation returned (claim), which grows stale as soon as its lease      *)
(* expires; between two awaits anything can happen.  Two runners may carry *)
(* the same worker name: a restarted daemon keeps its WORKER_ID, and one   *)
(* daemon runs several jobs at a time.                                     *)
(*                                                                         *)
(* log holds the session events the runners append; toolStatus is          *)
(* tool_calls.status, which is written without a fence; effects counts     *)
(* how often the outside world was changed on behalf of a job.             *)
(***************************************************************************)
EXTENDS ExecutionQueue

CONSTANTS
    Runners,         \* concurrent handler invocations
    WorkerOf         \* the worker name each runner presents

ASSUME WorkerAssumption == WorkerOf \in [Runners -> Workers]

VARIABLES
    pc,              \* where each runner is
    on,              \* the job it works on
    claim,           \* the row returned by its last queue operation
    log,             \* session events
    toolStatus,      \* tool_calls.status of the job's tool call
    effects          \* external side effects performed for the job

runnerVars == <<pc, on, claim>>
recordVars == <<log, toolStatus, effects>>
vars == <<jobs, pc, on, claim, log, toolStatus, effects>>

ExecutingPCs  == {"executing", "succeeded", "rejected", "errored",
                  "result_recorded", "error_recorded", "settle_ok",
                  "settle_known", "unknown", "mark_unknown"}
FinalizingPCs == {"reconcile", "reconcile_unknown", "finalizing", "tail_done",
                  "prepared"}
CancelPCs     == {"canceling", "cleanup", "ack"}
WorkingPCs    == {"precommit"} \cup ExecutingPCs \cup FinalizingPCs
PCs           == {"idle", "publish"} \cup WorkingPCs \cup CancelPCs

Kinds == {"tool.result", "tool.error", "execution.retry_queued",
          "execution.outcome_unknown", "execution.canceled",
          "execution.completed", "execution.failed"}

\* An event with the parts of its payload that vary between two appends under
\* the same id; a part the payload does not carry is 0 or NoWorker.
Event == [job : Jobs, kind : Kinds, attempt : Nat, gen : Nat,
          worker : Workers \cup {NoWorker}]

WorkerTypeOK ==
    /\ QueueTypeOK
    /\ pc \in [Runners -> PCs]
    /\ on \in [Runners -> Jobs \cup {NoWorker}]
    /\ \A r \in Runners : pc[r] # "idle" => on[r] \in Jobs
    /\ claim \in [Runners -> Job]
    /\ log \subseteq Event
    /\ toolStatus \in [Jobs -> {"running", "completed", "failed"}]
    /\ effects \in [Jobs -> Nat]

WorkerInit ==
    /\ QueueInit
    /\ pc = [r \in Runners |-> "idle"]
    /\ on = [r \in Runners |-> NoWorker]
    /\ claim = [r \in Runners |-> NoJob]
    /\ log = {}
    /\ toolStatus = [j \in Jobs |-> "running"]
    /\ effects = [j \in Jobs |-> 0]
-----------------------------------------------------------------------------
(* Helpers *)

GoTo(r, label) == pc' = [pc EXCEPT ![r] = label]

\* The runner takes j with the row the queue just returned for it.
Take(r, j, label) ==
    /\ GoTo(r, label)
    /\ on' = [on EXCEPT ![r] = j]
    /\ claim' = [claim EXCEPT ![r] = jobs'[j]]

\* The runner keeps its job and remembers the row its operation returned.
Advance(r, label) ==
    /\ GoTo(r, label)
    /\ claim' = [claim EXCEPT ![r] = jobs'[on[r]]]
    /\ UNCHANGED on

\* A handler that drops its job and goes on.
LeaveHalfway(r) ==
    /\ UNCHANGED pc
    /\ on' = [on EXCEPT ![r] = NoWorker]
    /\ claim' = [claim EXCEPT ![r] = NoJob]

Leave(r) ==
    /\ GoTo(r, "idle")
    /\ on' = [on EXCEPT ![r] = NoWorker]
    /\ claim' = [claim EXCEPT ![r] = NoJob]

\* The fence without the comparison of generations.
StillHoldsByName(r) ==
    /\ jobs[on[r]].status = claim[r].status
    /\ jobs[on[r]].worker = WorkerOf[r]
    /\ jobs[on[r]].lease = "live"

\* The fence of append_event_once_for_execution_claim: the row is in the
\* status the runner believes in and still belongs to its claim.
StillHolds(r) ==
    /\ jobs[on[r]].status = claim[r].status
    /\ OwnsClaim(on[r], WorkerOf[r], claim[r].gen)

EventOf(j, kind, attempt, gen, worker) ==
    [job |-> j, kind |-> kind, attempt |-> attempt, gen |-> gen,
     worker |-> worker]

\* Ids made by execution_attempt_event_id do not depend on the generation, so
\* an earlier event of the same job, kind and attempt has the same id; the
\* append is refused when its payload is different.
IdentityCollision(e) ==
    \E d \in log : d.job = e.job /\ d.kind = e.kind /\ d.attempt = e.attempt
                   /\ d # e

append_event_once(e) == log' = log \cup {e}

\* Reconciliation that accepts an outcome of any attempt.
DurableEventsOfAnyAttempt(j, row) ==
    {e \in log : e.job = j /\ e.kind \in {"tool.result", "tool.error"}}

\* Reconciliation that only accepts the outcome of its own generation.
DurableEventsOfOwnGeneration(j, row) ==
    {e \in log : /\ e.job = j
                 /\ e.kind \in {"tool.result", "tool.error"}
                 /\ e.attempt = row.attempt
                 /\ e.gen = row.gen}

\* latest_durable_tool_outcome_event: the outcome of the claim's own attempt,
\* recorded under its generation or an earlier one.
DurableEvents(j, row) ==
    {e \in log : /\ e.job = j
                 /\ e.kind \in {"tool.result", "tool.error"}
                 /\ e.attempt = row.attempt
                 /\ e.gen <= row.gen}

DurableOutcome(j, row) ==
    IF \E e \in DurableEvents(j, row) : e.kind = "tool.result" THEN "success"
    ELSE IF \E e \in DurableEvents(j, row) : e.kind = "tool.error" THEN "failure"
    ELSE "unknown"

set_tool_status(j, status) == toolStatus' = [toolStatus EXCEPT ![j] = status]
-----------------------------------------------------------------------------
(* The operator's side *)

\* enqueue_approved_job, after the approval of the tool call.
EnqueueApproved(j) ==
    /\ enqueue(j)
    /\ UNCHANGED <<runnerVars, recordVars>>

\* cancel_execution_job_route: nothing happens once the attempt committed.
RequestCancel(j) ==
    /\ cancel(j)
    /\ UNCHANGED <<runnerVars, recordVars>>

Expire(j) ==
    /\ LeaseExpires(j)
    /\ UNCHANGED <<runnerVars, recordVars>>
-----------------------------------------------------------------------------
(* Taking a job.  The handlers read the row first and choose the operation  *)
(* by its status; the operation repeats the condition, so a stale read can  *)
(* only make it fail.                                                       *)

ClaimStart(r, j) ==
    /\ pc[r] = "idle"
    /\ start(j, WorkerOf[r])
    /\ Take(r, j, "precommit")
    /\ UNCHANGED recordVars

ClaimFinalizing(r, j) ==
    /\ pc[r] = "idle"
    /\ resume_finalizing(j, WorkerOf[r])
    /\ Take(r, j, IF jobs[j].stage = "outcome_reconciliation"
                  THEN "reconcile" ELSE "finalizing")
    /\ UNCHANGED recordVars

ClaimExpiredExecuting(r, j) ==
    /\ pc[r] = "idle"
    /\ recover_expired_executing(j, WorkerOf[r])
    /\ Take(r, j, "reconcile")
    /\ UNCHANGED recordVars

ClaimCancellation(r, j) ==
    /\ pc[r] = "idle"
    /\ claim_cancellation(j, WorkerOf[r])
    /\ Take(r, j, "canceling")
    /\ UNCHANGED recordVars

\* run_execution_job_as_worker finds a cancellation that already belongs to
\* its worker name and goes on with the row it read, without a new claim.
AdoptCancellation(r, j) ==
    /\ pc[r] = "idle"
    /\ jobs[j].status = "cancel_requested"
    /\ jobs[j].worker = WorkerOf[r]
    /\ jobs[j].lease = "live"
    /\ UNCHANGED jobs
    /\ Take(r, j, "canceling")
    /\ UNCHANGED recordVars

\* A terminal row whose outcome is not published yet (in-memory queue).
ClaimPublication(r, j) ==
    /\ pc[r] = "idle"
    /\ \/ jobs[j].status = "completed" /\ jobs[j].stage = "completion_pending"
       \/ jobs[j].status = "failed" /\ jobs[j].stage = "failure_pending"
    /\ UNCHANGED jobs
    /\ Take(r, j, "publish")
    /\ UNCHANGED recordVars
-----------------------------------------------------------------------------
(* Running the attempt: run_claimed_execution_job *)

\* One of the checks before the commit point fails: session, environment,
\* approval, task grant, commit token, remote computer, tool arguments.
FailPrecommit(r) ==
    /\ pc[r] = "precommit"
    /\ begin_finalizing_started(on[r], WorkerOf[r], claim[r].gen, TRUE, "precommit")
    /\ Advance(r, "finalizing")
    /\ UNCHANGED recordVars

\* The approval's commit token was consumed before: commit, then report the
\* outcome as unknown instead of running the tool.
CommitWithConsumedToken(r) ==
    /\ pc[r] = "precommit"
    /\ begin_executing_started(on[r], WorkerOf[r], claim[r].gen)
    /\ Advance(r, "unknown")
    /\ UNCHANGED recordVars

\* ExecutionCommit::begin that trusts the claim it holds.
CommitUnfenced(r) ==
    /\ pc[r] = "precommit"
    /\ jobs[on[r]].status = "running"
    /\ Put(on[r], [jobs[on[r]] EXCEPT !.status = "executing"])
    /\ Advance(r, "executing")
    /\ UNCHANGED recordVars

\* ExecutionCommit::begin, immediately before the side effect.
Commit(r) ==
    /\ pc[r] = "precommit"
    /\ begin_executing_started(on[r], WorkerOf[r], claim[r].gen)
    /\ Advance(r, "executing")
    /\ UNCHANGED recordVars

\* The tool acts.  It reports success, a failure it is sure of (a non-zero
\* exit, a refused action) or an error that leaves the outcome open.
PerformEffect(r) ==
    /\ pc[r] = "executing"
    /\ effects' = [effects EXCEPT ![on[r]] = @ + 1]
    /\ \E label \in {"succeeded", "rejected", "errored"} : GoTo(r, label)
    /\ UNCHANGED <<jobs, on, claim, log, toolStatus>>

\* The tool ends without having acted: a refusal it is sure of, or an error
\* (for instance of the commit token) that does not say so.
EndWithoutEffect(r) ==
    /\ pc[r] = "executing"
    /\ \E label \in {"rejected", "errored"} : GoTo(r, label)
    /\ UNCHANGED <<jobs, on, claim, recordVars>>

\* An error marked execution_retry_safe: nothing was committed.
RetrySafeError(r) ==
    /\ pc[r] = "executing"
    /\ begin_finalizing_started(on[r], WorkerOf[r], claim[r].gen, TRUE,
                                "tool_precommit_retry")
    /\ Advance(r, "finalizing")
    /\ UNCHANGED recordVars

OutcomeEvent(r, kind) ==
    EventOf(on[r], kind, claim[r].attempt, claim[r].gen, NoWorker)

\* append_tool_outcome, and record_known_tool_failure_if_missing for a tool
\* that leaves the event to its caller.
AppendOutcome(r) ==
    /\ pc[r] \in {"succeeded", "rejected"}
    /\ StillHolds(r)
    /\ \/ pc[r] = "succeeded" /\ append_event_once(OutcomeEvent(r, "tool.result"))
                              /\ GoTo(r, "result_recorded")
       \/ pc[r] = "rejected"  /\ append_event_once(OutcomeEvent(r, "tool.error"))
                              /\ GoTo(r, "error_recorded")
    /\ UNCHANGED <<jobs, on, claim, toolStatus, effects>>

\* execute_approved_remote_computer_file_write says completed before its event,
\* without a fence; the artifact and the transport event come in between.
RecordStatusEarly(r) ==
    /\ pc[r] = "succeeded"
    /\ set_tool_status(on[r], "completed")
    /\ GoTo(r, "succeeded")
    /\ UNCHANGED <<jobs, on, claim, log, effects>>

\* update_tool_call_status after the append; no fence.
RecordToolStatus(r) ==
    /\ \/ pc[r] = "result_recorded" /\ set_tool_status(on[r], "completed")
                                    /\ GoTo(r, "settle_ok")
       \/ pc[r] = "error_recorded"  /\ set_tool_status(on[r], "failed")
                                    /\ GoTo(r, "settle_known")
    /\ UNCHANGED <<jobs, on, claim, log, effects>>

\* The store answers an append or an update with an error of its own.
StorageError(r) ==
    /\ pc[r] \in {"succeeded", "rejected", "result_recorded", "error_recorded"}
    /\ GoTo(r, "errored")
    /\ UNCHANGED <<jobs, on, claim, recordVars>>

\* An error that does not settle the outcome: look for a durable one
\* (reconcile_durable_tool_outcome).
ReconcileAfterError(r) ==
    /\ pc[r] = "errored"
    /\ LET outcome == DurableOutcome(on[r], claim[r]) IN
          \/ outcome = "success" /\ set_tool_status(on[r], "completed")
                                 /\ GoTo(r, "settle_ok")
          \/ outcome = "failure" /\ set_tool_status(on[r], "failed")
                                 /\ GoTo(r, "unknown")
          \/ outcome = "unknown" /\ UNCHANGED toolStatus /\ GoTo(r, "unknown")
    /\ UNCHANGED <<jobs, on, claim, log, effects>>

\* complete_started_execution_job, or retry_or_fail_started_execution_job
\* with the stage tool_known_failure.
BeginFinalizing(r) ==
    /\ \/ /\ pc[r] = "settle_ok"
          /\ begin_finalizing_started(on[r], WorkerOf[r], claim[r].gen, FALSE,
                                      "tool_execution")
       \/ /\ pc[r] = "settle_known"
          /\ begin_finalizing_started(on[r], WorkerOf[r], claim[r].gen, TRUE,
                                      "tool_known_failure")
    /\ Advance(r, "finalizing")
    /\ UNCHANGED recordVars

UnknownEvent(r) ==
    EventOf(on[r], "execution.outcome_unknown", claim[r].attempt, 0, NoWorker)

\* record_execution_outcome_unknown_{started,finalizing}: evidence first ...
RecordUnknownEvidence(r) ==
    /\ pc[r] \in {"unknown", "reconcile"}
    /\ StillHolds(r)
    /\ \/ pc[r] = "unknown" /\ GoTo(r, "mark_unknown")
       \/ /\ pc[r] = "reconcile"
          /\ DurableOutcome(on[r], claim[r]) = "unknown"
          /\ GoTo(r, "reconcile_unknown")
    /\ append_event_once(UnknownEvent(r))
    /\ UNCHANGED <<jobs, on, claim, toolStatus, effects>>

\* ... then the status.
MarkUnknown(r) ==
    /\ \/ /\ pc[r] = "mark_unknown"
          /\ mark_outcome_unknown_started(on[r], WorkerOf[r], claim[r].gen)
       \/ /\ pc[r] = "reconcile_unknown"
          /\ mark_outcome_unknown_finalizing(on[r], WorkerOf[r], claim[r].gen)
    /\ Leave(r)
    /\ UNCHANGED recordVars
-----------------------------------------------------------------------------
(* Finishing: finish_outcome_reconciliation, finish_finalizing_execution_job *)

ReconcileSuccess(r) ==
    /\ pc[r] = "reconcile"
    /\ DurableOutcome(on[r], claim[r]) = "success"
    /\ set_tool_status(on[r], "completed")
    /\ GoTo(r, "finalizing")
    /\ UNCHANGED <<jobs, on, claim, log, effects>>

ReconcileFailure(r) ==
    /\ pc[r] = "reconcile"
    /\ DurableOutcome(on[r], claim[r]) = "failure"
    /\ set_finalizing_failure(on[r], WorkerOf[r], claim[r].gen)
    /\ set_tool_status(on[r], "failed")
    /\ Advance(r, "finalizing")
    /\ UNCHANGED <<log, effects>>

\* A failure is retried unless the attempt committed and failed for certain.
Retryable(r) ==
    /\ claim[r].error
    /\ ~ /\ claim[r].stage = "tool_known_failure"
         /\ DurableOutcome(on[r], claim[r]) = "failure"

WillQueue(r) == Retryable(r) /\ claim[r].attempt < MaxAttempts

RetryEvent(r) == EventOf(on[r], "execution.retry_queued", claim[r].attempt,
                         claim[r].gen, WorkerOf[r])

FailedEvent(r) == EventOf(on[r], "execution.failed", claim[r].attempt,
                          claim[r].gen, WorkerOf[r])

\* record_execution_failure_tail for an attempt that goes back to the queue.
RecordRetryTail(r) ==
    /\ pc[r] = "finalizing"
    /\ WillQueue(r)
    /\ StillHolds(r)
    /\ ~IdentityCollision(RetryEvent(r))
    /\ append_event_once(RetryEvent(r))
    /\ GoTo(r, "tail_done")
    /\ UNCHANGED <<jobs, on, claim, toolStatus, effects>>

\* The same when an earlier holder of this finalization already appended the
\* event under its own generation: the append is refused and the handler
\* gives up.
RetryTailRefused(r) ==
    /\ pc[r] = "finalizing"
    /\ WillQueue(r)
    /\ StillHolds(r)
    /\ IdentityCollision(RetryEvent(r))
    /\ Leave(r)
    /\ UNCHANGED <<jobs, recordVars>>

\* record_execution_failure_tail for a failure that ends the job.  Postgres
\* leaves the event to the trigger, so nothing here is fenced.
RecordFailedTail(r) ==
    /\ pc[r] = "finalizing"
    /\ claim[r].error
    /\ ~WillQueue(r)
    /\ \/ Backend = "postgres" /\ UNCHANGED log
       \/ Backend = "memory" /\ StillHolds(r) /\ append_event_once(FailedEvent(r))
    /\ set_tool_status(on[r], "failed")
    /\ GoTo(r, "tail_done")
    /\ UNCHANGED <<jobs, on, claim, effects>>

\* The part that precedes the tail of the in-memory queue is over.
TailRecorded(r) == pc[r] = IF claim[r].error THEN "tail_done" ELSE "finalizing"

NeedsPrepare(r) == Backend = "memory" /\ ~WillQueue(r)

PrepareTail(r) ==
    /\ TailRecorded(r)
    /\ NeedsPrepare(r)
    /\ prepare_outcome_tail(on[r], WorkerOf[r], claim[r].gen)
    /\ GoTo(r, "prepared")
    /\ UNCHANGED <<on, claim, recordVars>>

\* Events of trg_record_terminal_execution_event, in the same transaction.
TerminalEvents(j) ==
    IF Backend = "postgres" /\ jobs'[j].status \in {"completed", "failed"}
    THEN {EventOf(j, IF jobs'[j].status = "completed" THEN "execution.completed"
                     ELSE "execution.failed",
                  jobs'[j].attempt, jobs'[j].gen, jobs'[j].worker)}
    ELSE {}

Finish(r) ==
    /\ pc[r] \in {"finalizing", "tail_done", "prepared"}
    /\ IF NeedsPrepare(r) THEN pc[r] = "prepared" ELSE TailRecorded(r)
    /\ finish_finalizing_started(on[r], WorkerOf[r], claim[r].gen, Retryable(r))
    /\ log' = log \cup TerminalEvents(on[r])
    /\ IF Backend = "memory" /\ jobs'[on[r]].status \in Terminal
       THEN Advance(r, "publish") ELSE Leave(r)
    /\ UNCHANGED <<toolStatus, effects>>

\* Publication that marks the row and leaves the event to somebody else.
PublishSilently(r) ==
    /\ pc[r] = "publish"
    /\ mark_outcome_published(on[r])
    /\ Leave(r)
    /\ UNCHANGED recordVars

\* publish_execution_{completion,failure}_tail of the in-memory queue.  The
\* projection to the session loop may be deferred, and the row stays pending.
PublishTail(r) ==
    /\ pc[r] = "publish"
    /\ \/ mark_outcome_published(on[r])
       \/ UNCHANGED jobs
    /\ IF jobs[on[r]].status = "completed"
       THEN append_event_once(EventOf(on[r], "execution.completed",
                 claim[r].attempt, claim[r].gen, claim[r].worker))
       ELSE UNCHANGED log
    /\ Leave(r)
    /\ UNCHANGED <<toolStatus, effects>>
-----------------------------------------------------------------------------
(* Cancellation: finalize_execution_cancellation *)

BeginCleanup(r) ==
    /\ pc[r] = "canceling"
    /\ begin_cancellation_cleanup(on[r], WorkerOf[r], claim[r].gen)
    /\ Advance(r, "cleanup")
    /\ UNCHANGED recordVars

CanceledEvent(r) ==
    EventOf(on[r], "execution.canceled", claim[r].attempt, 0, NoWorker)

\* The remote runtime is torn down, then the event is appended.
RecordCanceled(r) ==
    /\ pc[r] = "cleanup"
    /\ StillHolds(r)
    /\ append_event_once(CanceledEvent(r))
    /\ GoTo(r, "ack")
    /\ UNCHANGED <<jobs, on, claim, toolStatus, effects>>

AcknowledgeCanceled(r) ==
    /\ pc[r] = "ack"
    /\ acknowledge_canceled(on[r], WorkerOf[r], claim[r].gen)
    /\ Leave(r)
    /\ UNCHANGED recordVars
-----------------------------------------------------------------------------
(* Losing the claim *)

\* execution_job_cancel_requested_by_owner
CancelRequestedByOwner(r) ==
    /\ jobs[on[r]].status = "cancel_requested"
    /\ jobs[on[r]].worker = WorkerOf[r]
    /\ jobs[on[r]].gen = claim[r].gen

\* A fenced operation, a renewal or the periodic check finds that the claim is
\* gone, or an adopted cancellation is already being cleaned up.  The work is
\* dropped; a cancellation of this very claim is completed by this runner, any
\* other loss ends the handler.
Abandon(r) ==
    /\ pc[r] \in WorkingPCs \cup CancelPCs
    /\ \/ ~StillHolds(r)
       \/ pc[r] = "canceling" /\ claim[r].stage = "cancellation_cleanup"
    /\ UNCHANGED jobs
    /\ IF pc[r] \in WorkingPCs /\ CancelRequestedByOwner(r)
       THEN Advance(r, "canceling") ELSE Leave(r)
    /\ UNCHANGED recordVars

\* The process dies, the request is dropped or an error ends the handler; the
\* lease stays behind.  Bounded like the expiry of leases.
Crash(r) ==
    /\ pc[r] # "idle"
    /\ jobs[on[r]].gen < MaxGeneration
    /\ Leave(r)
    /\ UNCHANGED <<jobs, recordVars>>
-----------------------------------------------------------------------------
Acquisition(r, j) ==
    \/ ClaimStart(r, j)
    \/ ClaimFinalizing(r, j)
    \/ ClaimExpiredExecuting(r, j)
    \/ ClaimCancellation(r, j)

RunnerStep(r) ==
    \/ FailPrecommit(r) \/ CommitWithConsumedToken(r) \/ Commit(r)
    \/ PerformEffect(r) \/ EndWithoutEffect(r) \/ RetrySafeError(r)
    \/ RecordStatusEarly(r)
    \/ AppendOutcome(r) \/ RecordToolStatus(r) \/ StorageError(r)
    \/ ReconcileAfterError(r) \/ BeginFinalizing(r)
    \/ RecordUnknownEvidence(r) \/ MarkUnknown(r)
    \/ ReconcileSuccess(r) \/ ReconcileFailure(r)
    \/ RecordRetryTail(r) \/ RetryTailRefused(r) \/ RecordFailedTail(r)
    \/ PrepareTail(r) \/ Finish(r) \/ PublishTail(r)
    \/ BeginCleanup(r) \/ RecordCanceled(r) \/ AcknowledgeCanceled(r)
    \/ Abandon(r)

WorkerNext ==
    \/ \E j \in Jobs : EnqueueApproved(j) \/ RequestCancel(j) \/ Expire(j)
    \/ \E r \in Runners, j \in Jobs :
          Acquisition(r, j) \/ AdoptCancellation(r, j) \/ ClaimPublication(r, j)
    \/ \E r \in Runners : RunnerStep(r) \/ Crash(r)

WorkerSpec == WorkerInit /\ [][WorkerNext]_vars
-----------------------------------------------------------------------------
(***************************************************************************)
(* Fairness.  A runner that is scheduled keeps making progress (its futures *)
(* are polled), some runner takes what the discovery loop of run_worker     *)
(* finds ready, and the clock eventually passes a lease nobody renews: one  *)
(* whose claim no runner holds any more.                                    *)
(***************************************************************************)
Abandoned(j) ==
    ~ \E r \in Runners : pc[r] # "idle" /\ on[r] = j /\ claim[r].gen = jobs[j].gen

Fairness ==
    /\ \A r \in Runners : WF_vars(RunnerStep(r))
    /\ \A j \in Jobs : WF_vars(\E r \in Runners : Acquisition(r, j))
    /\ \A j \in Jobs : WF_vars(Abandoned(j) /\ Expire(j))

\* Crashes and dropped requests stop at some point.
CrashesStop == <>[][\A r \in Runners : ~Crash(r)]_vars

FairWorkerSpec == WorkerSpec /\ Fairness /\ CrashesStop
-----------------------------------------------------------------------------
(* Safety *)

\* The outside world is changed at most once per approved job, however often
\* workers crash, stall past their lease, are replaced by a namesake, retry or
\* recover.
AtMostOneEffect == \A j \in Jobs : effects[j] <= 1

\* The event execution.canceled is never contradicted: from its append on the
\* job is being canceled or canceled, also when the runner that wrote it loses
\* its claim before the acknowledgement.
CanceledEventIsTrue ==
    \A e \in log : e.kind = "execution.canceled" =>
        jobs[e.job].status \in {"cancel_requested", "canceled"}

\* A durable tool.result is never lost: the job is still on its way to, or in,
\* the status completed, under the attempt that produced the result.
ResultIsNeverLost ==
    \A e \in log : e.kind = "tool.result" =>
        /\ jobs[e.job].status \in {"executing", "finalizing", "completed"}
        /\ jobs[e.job].attempt = e.attempt
        /\ ~jobs[e.job].error

\* A completed job has acted exactly once, has the durable result of its own
\* attempt, and its tool call says so, although that status is written
\* without a fence by runners that may have lost their claim.
CompletedIsBacked ==
    \A j \in Jobs : jobs[j].status = "completed" =>
        /\ effects[j] = 1
        /\ toolStatus[j] = "completed"
        /\ \E e \in log : e.job = j /\ e.kind = "tool.result"
                          /\ e.attempt = jobs[j].attempt

\* tool_calls.status and the durable event never contradict each other, the
\* state in which reconcile_durable_tool_outcome can only return an internal
\* error and no finalization of the job could end; and a tool call that says
\* completed has acted, also when it says so before the event, or without one.
NoOutcomeConflict ==
    /\ \A e \in log :
          /\ e.kind = "tool.result" => toolStatus[e.job] # "failed"
          /\ e.kind = "tool.error" => toolStatus[e.job] # "completed"
    /\ \A j \in Jobs : toolStatus[j] = "completed" => effects[j] = 1

\* The verdict outcome_unknown is only given with its evidence, and never to a
\* job whose success is on record.
UnknownIsBacked ==
    \A j \in Jobs : jobs[j].status = "outcome_unknown" =>
        /\ \E e \in log : e.job = j /\ e.kind = "execution.outcome_unknown"
                          /\ e.attempt = jobs[j].attempt
        /\ ~ \E e \in log : e.job = j /\ e.kind = "tool.result"

\* The verdict on a job, the session events and the status of its tool call
\* tell one story, although they are written in separate steps and the last of
\* them without a fence.
VerdictIsBacked == CompletedIsBacked /\ UnknownIsBacked /\ NoOutcomeConflict

\* Terminal outcomes are announced once and for the claim that produced them:
\* in Postgres the event of the trigger carries the row's own attempt and
\* generation, in memory the row is only marked published after its event.
OutcomeIsAnnounced ==
    \A j \in Jobs :
        LET announced(kind) == {e \in log : e.job = j /\ e.kind = kind
                                            /\ e.attempt = jobs[j].attempt
                                            /\ e.gen = jobs[j].gen}
        IN /\ (jobs[j].status = "completed" /\
               (Backend = "postgres" \/ jobs[j].stage = "completion_published"))
                 => announced("execution.completed") # {}
           /\ jobs[j].status = "failed" => announced("execution.failed") # {}
           /\ \A e \in log : (e.job = j /\ e.kind = "execution.completed") =>
                 jobs[j].status = "completed"

\* The holder of a finalization whose failed attempt goes back to the queue
\* can record its tail: a finalization interrupted by a crash is finished by
\* whoever resumes it.
ResumedFinalizationFinishes ==
    \A r \in Runners :
        (pc[r] = "finalizing" /\ StillHolds(r) /\ WillQueue(r)) =>
            ~IdentityCollision(RetryEvent(r))
-----------------------------------------------------------------------------
(***************************************************************************)
(* Refinement.  A row that waits for its commit point, also through the    *)
(* finalization of an attempt that did not commit, is an open action; from *)
(* begin_executing_started to the verdict it is a committed one.           *)
(***************************************************************************)
PhaseOf(row) ==
    CASE row.status = "absent" -> "none"
      [] row.status \in {"queued", "running", "cancel_requested"} -> "open"
      [] row.status = "finalizing"
         /\ row.stage \in {"precommit", "tool_precommit_retry"} -> "open"
      [] row.status \in Terminal -> row.status
      [] OTHER -> "committed"

Action == INSTANCE ApprovedAction WITH
              phase <- [j \in Jobs |-> PhaseOf(jobs[j])],
              acted <- effects

\* Runners, leases and crashes implement the promise ApprovedAction makes to
\* the approvals: one commit at a time, at most one side effect and only
\* after a commit, no side effect of a canceled or failed-before-commit job,
\* late ones only under the verdict outcome_unknown, and no way back from it.
ActionSpec == Action!Spec
-----------------------------------------------------------------------------
(* Liveness *)

\* Once a job has acted it reaches a verdict, whoever crashes on the way.
EffectSettles ==
    \A j \in Jobs : effects[j] > 0 ~> jobs[j].status \in Terminal

\* A requested cancellation is completed.
CancellationCompletes ==
    \A j \in Jobs :
        jobs[j].status = "cancel_requested" ~> jobs[j].status = "canceled"

\* Nothing a worker leaves behind is forgotten: what has acted gets a verdict
\* and what is to be canceled gets canceled, by whichever worker finds it.
JobsSettle == EffectSettles /\ CancellationCompletes
=============================================================================
