--------------------------- MODULE ExecutionQueue ---------------------------
(***************************************************************************)
(* The table of approved tool executions (execution_queue.rs).  A job is   *)
(* claimed by a worker for a leased period; every claim carries a          *)
(* generation, and each later operation of the claim's holder is one       *)
(* conditional UPDATE that names the worker and the generation and asks    *)
(* for a live lease.                                                       *)
(*                                                                         *)
(* QueueSpec lets any worker call any operation with any generation that   *)
(* was ever handed out, in any order: what it guarantees holds whatever    *)
(* the callers do.  ExecutionWorker composes these actions with the code   *)
(* that really calls them.                                                 *)
(*                                                                         *)
(* A lease is "none" (NULL), "live" (later than now) or "expired".  The    *)
(* renewal of a live lease changes none of the three and is a stuttering   *)
(* step; a lease that is not renewed in time expires by LeaseExpires.      *)
(***************************************************************************)
EXTENDS Integers

CONSTANTS
    Jobs,            \* identities of execution jobs
    Workers,         \* values of WORKER_ID, and "api-cancel"
    NoWorker,        \* worker_id IS NULL
    MaxAttempts,     \* max_attempts of every job
    MaxGeneration,   \* bound: no lease expires from this generation on
    Backend          \* "postgres" or "memory"

ASSUME QueueAssumption ==
    /\ NoWorker \notin Workers
    /\ MaxAttempts \in Nat \ {0}
    /\ MaxGeneration \in Nat
    /\ Backend \in {"postgres", "memory"}

VARIABLE jobs        \* the table: a record for every job

(***************************************************************************)
(* Statuses of the enum ExecutionJobStatus; "absent" is a row that is not  *)
(* inserted yet.                                                           *)
(***************************************************************************)
Terminal == {"completed", "failed", "outcome_unknown", "canceled"}
Claimed  == {"running", "executing", "finalizing"}
Statuses == {"absent", "queued", "cancel_requested"} \cup Claimed \cup Terminal

\* Values of finalization_details.stage.  "precommit" stands for the stages
\* of the checks that precede the commit point (session_status,
\* approval_status, task_grant_revalidation, ...).
Stages == {"none", "precommit", "tool_execution", "tool_precommit_retry",
           "tool_known_failure", "outcome_reconciliation",
           "cancellation_pending", "cancellation_cleanup",
           "completion_pending", "completion_published",
           "failure_pending", "failure_published"}

Job == [status : Statuses, worker : Workers \cup {NoWorker},
        lease : {"none", "live", "expired"}, gen : Nat, attempt : Nat,
        error : BOOLEAN, stage : Stages]

NoJob == [status |-> "absent", worker |-> NoWorker, lease |-> "none",
          gen |-> 0, attempt |-> 0, error |-> FALSE, stage |-> "none"]

QueueTypeOK == jobs \in [Jobs -> Job]

QueueInit == jobs = [j \in Jobs |-> NoJob]

Put(j, row) == jobs' = [jobs EXCEPT ![j] = row]

\* Owner checks with one of the two fences left out.
OwnsClaimByNameOnly(j, w, g) == jobs[j].worker = w /\ jobs[j].lease = "live"
OwnsClaimIgnoringLease(j, w, g) == jobs[j].worker = w /\ jobs[j].gen = g

(***************************************************************************)
(* The condition of every operation of a claim: the row still names this   *)
(* worker and this generation and its lease is live.                       *)
(***************************************************************************)
OwnsClaim(j, w, g) ==
    /\ jobs[j].worker = w
    /\ jobs[j].gen = g
    /\ jobs[j].lease = "live"

-----------------------------------------------------------------------------
(* Operations *)

enqueue(j) ==
    /\ jobs[j].status = "absent"
    /\ Put(j, [NoJob EXCEPT !.status = "queued"])

\* What start() would be if an expired lease were enough to take a job over.
StartReopening(j, w) ==
    /\ \/ jobs[j].status = "queued"
       \/ jobs[j].status \in {"running", "cancel_requested"} /\ jobs[j].lease # "live"
    /\ Put(j, [status |-> "running", worker |-> w, lease |-> "live",
               gen |-> jobs[j].gen + 1, attempt |-> jobs[j].attempt + 1,
               error |-> FALSE, stage |-> "none"])

start(j, w) ==
    /\ \/ jobs[j].status = "queued"
       \/ jobs[j].status = "running" /\ jobs[j].lease # "live"
    /\ Put(j, [status |-> "running", worker |-> w, lease |-> "live",
               gen |-> jobs[j].gen + 1, attempt |-> jobs[j].attempt + 1,
               error |-> FALSE, stage |-> "none"])

begin_executing_started(j, w, g) ==
    /\ jobs[j].status = "running"
    /\ OwnsClaim(j, w, g)
    /\ Put(j, [jobs[j] EXCEPT !.status = "executing"])

mark_outcome_unknown_started(j, w, g) ==
    /\ jobs[j].status = "executing"
    /\ OwnsClaim(j, w, g)
    /\ Put(j, [jobs[j] EXCEPT !.status = "outcome_unknown", !.lease = "none",
                              !.error = TRUE])

begin_finalizing_started(j, w, g, error, stage) ==
    /\ \/ jobs[j].status = "executing"
       \/ error /\ jobs[j].status = "running"
    /\ OwnsClaim(j, w, g)
    /\ Put(j, [jobs[j] EXCEPT !.status = "finalizing", !.error = error,
                              !.stage = stage])

resume_finalizing(j, w) ==
    /\ jobs[j].status = "finalizing"
    /\ jobs[j].lease # "live"
    /\ Put(j, [jobs[j] EXCEPT !.worker = w, !.lease = "live", !.gen = @ + 1])

\* Recovery that forgets that the attempt had committed and runs it again.
RecoverByRestart(j, w) ==
    /\ jobs[j].status = "executing"
    /\ jobs[j].lease # "live"
    /\ Put(j, [jobs[j] EXCEPT !.status = "running", !.worker = w,
                              !.lease = "live", !.gen = @ + 1])

\* Recovery that takes only rows without a lease.
RecoverUnleased(j, w) ==
    /\ jobs[j].status = "executing"
    /\ jobs[j].lease = "none"
    /\ Put(j, [jobs[j] EXCEPT !.status = "finalizing", !.worker = w,
                              !.lease = "live", !.gen = @ + 1, !.error = FALSE,
                              !.stage = "outcome_reconciliation"])

recover_expired_executing(j, w) ==
    /\ jobs[j].status = "executing"
    /\ jobs[j].lease # "live"
    /\ Put(j, [jobs[j] EXCEPT !.status = "finalizing", !.worker = w,
                              !.lease = "live", !.gen = @ + 1, !.error = FALSE,
                              !.stage = "outcome_reconciliation"])

\* The row after finish_finalizing_started.
Finished(row, retryable) ==
    IF ~row.error
    THEN [row EXCEPT !.status = "completed", !.lease = "none"]
    ELSE IF retryable /\ row.attempt < MaxAttempts
    THEN [row EXCEPT !.status = "queued", !.worker = NoWorker, !.lease = "none"]
    ELSE [row EXCEPT !.status = "failed", !.lease = "none"]

finish_finalizing_started(j, w, g, retryable) ==
    /\ jobs[j].status = "finalizing"
    /\ OwnsClaim(j, w, g)
    /\ Put(j, Finished(jobs[j], retryable))

set_finalizing_failure(j, w, g) ==
    /\ jobs[j].status = "finalizing"
    /\ OwnsClaim(j, w, g)
    /\ Put(j, [jobs[j] EXCEPT !.error = TRUE, !.stage = "tool_known_failure"])

mark_outcome_unknown_finalizing(j, w, g) ==
    /\ jobs[j].status = "finalizing"
    /\ jobs[j].stage = "outcome_reconciliation"
    /\ OwnsClaim(j, w, g)
    /\ Put(j, [jobs[j] EXCEPT !.status = "outcome_unknown", !.lease = "none",
                              !.error = TRUE])

\* The in-memory queue has no trigger that records the outcome event, so it
\* marks the row before and after the event is published.
prepare_outcome_tail(j, w, g) ==
    /\ Backend = "memory"
    /\ jobs[j].status = "finalizing"
    /\ OwnsClaim(j, w, g)
    /\ Put(j, [jobs[j] EXCEPT !.stage = IF jobs[j].error THEN "failure_pending"
                                        ELSE "completion_pending"])

mark_outcome_published(j) ==
    /\ Backend = "memory"
    /\ \/ /\ jobs[j].status = "completed"
          /\ jobs[j].stage \in {"completion_pending", "completion_published"}
          /\ Put(j, [jobs[j] EXCEPT !.stage = "completion_published"])
       \/ /\ jobs[j].status = "failed"
          /\ jobs[j].stage \in {"failure_pending", "failure_published"}
          /\ Put(j, [jobs[j] EXCEPT !.stage = "failure_published"])

\* A cancellation that also reaches an attempt that already committed.
CancelExecuting(j) ==
    /\ jobs[j].status \in {"queued", "running", "executing"}
    /\ Put(j, [jobs[j] EXCEPT !.status = "cancel_requested",
                              !.stage = "cancellation_pending"])

\* A cancellation that reaches a job that has ended.
CancelAnything(j) ==
    /\ jobs[j].status \notin {"absent", "executing", "finalizing"}
    /\ Put(j, [jobs[j] EXCEPT !.status = "cancel_requested",
                              !.stage = "cancellation_pending"])

cancel(j) ==
    /\ jobs[j].status \in {"queued", "running"}
    /\ Put(j, [jobs[j] EXCEPT !.status = "cancel_requested",
                              !.stage = "cancellation_pending"])

claim_cancellation(j, w) ==
    /\ jobs[j].status = "cancel_requested"
    /\ jobs[j].lease # "live"
    /\ Put(j, [jobs[j] EXCEPT !.worker = w, !.lease = "live", !.gen = @ + 1,
                              !.stage = "cancellation_pending"])

\* Cleanup that starts under the generation it was given.
CleanupSameGeneration(j, w, g) ==
    /\ jobs[j].status = "cancel_requested"
    /\ jobs[j].stage = "cancellation_pending"
    /\ OwnsClaim(j, w, g)
    /\ Put(j, [jobs[j] EXCEPT !.stage = "cancellation_cleanup"])

begin_cancellation_cleanup(j, w, g) ==
    /\ jobs[j].status = "cancel_requested"
    /\ jobs[j].stage = "cancellation_pending"
    /\ OwnsClaim(j, w, g)
    /\ Put(j, [jobs[j] EXCEPT !.gen = @ + 1, !.stage = "cancellation_cleanup",
                              !.lease = "live"])

acknowledge_canceled(j, w, g) ==
    /\ jobs[j].status = "cancel_requested"
    /\ jobs[j].stage = "cancellation_cleanup"
    /\ OwnsClaim(j, w, g)
    /\ Put(j, [jobs[j] EXCEPT !.status = "canceled", !.lease = "none"])

\* The clock passes lease_expires_at: the holder did not renew in time.
LeaseExpires(j) ==
    /\ jobs[j].lease = "live"
    /\ jobs[j].gen < MaxGeneration
    /\ Put(j, [jobs[j] EXCEPT !.lease = "expired"])
-----------------------------------------------------------------------------
ClaimOperation(j, w, g) ==
    \/ begin_executing_started(j, w, g)
    \/ mark_outcome_unknown_started(j, w, g)
    \/ begin_finalizing_started(j, w, g, FALSE, "tool_execution")
    \/ \E stage \in {"precommit", "tool_precommit_retry", "tool_known_failure"} :
          begin_finalizing_started(j, w, g, TRUE, stage)
    \/ \E retryable \in BOOLEAN : finish_finalizing_started(j, w, g, retryable)
    \/ set_finalizing_failure(j, w, g)
    \/ mark_outcome_unknown_finalizing(j, w, g)
    \/ prepare_outcome_tail(j, w, g)
    \/ begin_cancellation_cleanup(j, w, g)
    \/ acknowledge_canceled(j, w, g)

Acquire(j, w) ==
    \/ start(j, w)
    \/ resume_finalizing(j, w)
    \/ recover_expired_executing(j, w)
    \/ claim_cancellation(j, w)

QueueNext ==
    \E j \in Jobs :
        \/ enqueue(j)
        \/ cancel(j)
        \/ mark_outcome_published(j)
        \/ LeaseExpires(j)
        \/ \E w \in Workers : Acquire(j, w)
        \/ \E w \in Workers, g \in 0 .. jobs[j].gen : ClaimOperation(j, w, g)

QueueSpec == QueueInit /\ [][QueueNext]_jobs
-----------------------------------------------------------------------------
(* What the table guarantees to any callers *)

\* A claimed row names its worker and has a lease, a row nobody may touch has
\* none, and a queued row names no worker, so that no earlier holder can pass
\* the owner check of the next claim.
ClaimWellFormed ==
    \A j \in Jobs :
        /\ jobs[j].status \in Claimed =>
              jobs[j].worker # NoWorker /\ jobs[j].lease # "none"
        /\ jobs[j].status \in {"absent", "queued"} \cup Terminal =>
              jobs[j].lease = "none"
        /\ jobs[j].status = "queued" => jobs[j].worker = NoWorker
        /\ jobs[j].lease # "none" => jobs[j].worker # NoWorker

\* Every attempt has its own claim: the generation counts at least the
\* attempts, and work in progress has both.
GenerationCountsAttempts ==
    \A j \in Jobs :
        /\ jobs[j].attempt <= jobs[j].gen
        /\ jobs[j].status \in Claimed => jobs[j].attempt >= 1

\* An ended job keeps its status, its attempt and its generation: no late
\* worker, recovery or cancellation reopens it.
TerminalIsFinal ==
    [][\A j \in Jobs :
          jobs[j].status \in Terminal =>
              /\ jobs'[j].status = jobs[j].status
              /\ jobs'[j].attempt = jobs[j].attempt
              /\ jobs'[j].gen = jobs[j].gen]_jobs

\* While the lease is live nobody but its holder changes the row's claim: the
\* only way to lose a live lease to somebody else does not exist.
LiveLeaseIsExclusive ==
    [][\A j \in Jobs :
          (jobs[j].lease = "live" /\ jobs'[j].worker # jobs[j].worker) =>
              jobs'[j].status = "queued"]_jobs

\* A claim never changes hands under the same generation, so the generation a
\* holder remembers identifies its claim (also when a restarted worker reuses
\* its name, where only the generation differs).
NewClaimNewGeneration ==
    [][\A j \in Jobs :
          (jobs'[j].lease = "live" /\ jobs[j].lease # "live") =>
              jobs'[j].gen > jobs[j].gen]_jobs

\* The commit point is passed once per attempt: from executing a job never
\* goes back to running under the same attempt, and it is never canceled.
CommitIsIrrevocable ==
    [][\A j \in Jobs :
          (jobs[j].status = "executing" /\ jobs'[j].status # "executing") =>
              jobs'[j].status \in {"finalizing", "outcome_unknown"}]_jobs
=============================================================================
