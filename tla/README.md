# Verification of the mandoforge kernel

Mandoforge runs agent sessions against a governed set of tools.  A tool call
that needs an approval becomes an *execution job*; workers claim such jobs,
check everything again, pass a commit point, change the outside world once and
record what happened.  The events of a session, outcomes included, are given to
the model in turns by the *session loop*.  *Workflow runs* chain such sessions
along a step graph, under *task grants* that bound what they may spend.  This
directory holds the TLA+ models of these parts, their TLC configurations and
their TLAPS proofs.

## 1. The system and its parts

Everything lives in `crates/mandoforge-api/src` unless noted.

| Part | State it keeps | Operations | Hard behaviour |
|---|---|---|---|
| Execution queue (`execution_queue.rs`, Postgres table or in-memory map) | one row per job: status, worker, lease, claim generation, attempt, error, finalization stage | enqueue, start, renew, commit (`begin_executing_started`), finalize, finish, recover, cancel, acknowledge | expired leases, namesake workers, late calls |
| Execution worker (`execution.rs`) | the row its last queue operation returned | pre-commit checks, commit, tool, tool events, reconciliation, failure tail, publication | crash between any two awaits, retry, unknown outcome |
| Lease renewal (`worker_execution_runtime.rs`) | deadline of the lease | renew, notice a cancellation, drop the work | stall past the lease |
| Handlers (`handlers/execution_jobs.rs`) | none | run, recover a cancellation, reconcile an expired execution, cancel | two handlers on one cancellation |
| Session events (`store_events.rs`, `db/migrations/0078…sql`) | the event log of each session | claim-fenced append, idempotent append, terminal-event trigger, projection to the session loop | duplicate ids, order of hidden results and completions |
| Tool calls (`store_tool_calls.rs`) | status of each tool call | update without a fence | late writes |
| Worker daemon and scheduler (`worker_daemon.rs`, `worker_scheduler.rs`, `bin/mandoforge-worker.rs`) | work in flight | discover, interleave, dispatch by status | liveness of discovery |
| Session loop (`store_session_loop_jobs.rs`, `session_loop_runtime.rs`) | jobs with an event window, cursors | enqueue/merge, start, renew, complete, settle | merged windows, claims by name only |
| Approvals (`approval_runtime.rs`, `store_approvals.rs`, `context_packet_runtime.rs`) | approvals, commit tokens, digests of arguments | request, approve, reject, expire, modify, escalate, due run, issue, validate and consume a token | racing decisions, stale copies, check-then-act on the token |
| Task grants (`workflow_task_grants.rs`, `store_workflows.rs`) | grants with a parent, limits, usage | issue, delegate, reserve, charge, expire, close with the step or the run | concurrent charges along a lineage, stale budgets, closing while delegating |
| Workflow graph (`workflow_graph_*.rs`, `workflow_step_execution.rs`, `store_workflows.rs`) | run status, step runs, graph definition | claim, run, take over, advance, retry, compensate, schedule, end | advancement in many awaits, crash in the middle, parallel advancers |
| Remote computers (`remote_computer_*`, `store_remote_computers.rs`) | leases, job assignments | lease, assign, release, drain | lease against assignment |

`PROJECT.json` lists every component, also those that stay outside the model:
packs, ontology and semantic memory (data transformation), providers and
secrets (single external calls), reports, and the user interfaces.

How they interact: an approval enqueues a job; the daemon's discovery loop lists
rows that are ready (`execution_job_ready_for_worker`) and calls a handler chosen
by the row's status; the handler claims the row and works under the claim,
appending events to the session's log under a fence on the claim; the terminal
status is announced by a trigger (Postgres) or a separate append (in memory),
and the announcement starts the next turn of the session loop.

## 2. Modules

| Module | Models |
|---|---|
| `ExecutionQueue` | the table; any worker may call any operation with any generation |
| `ExecutionWorker` | the code that calls it: runners (handler invocations) with a program counter, the session events, the tool call's status and a counter of side effects |
| `MCExecutionWorker` | instances of `ExecutionWorker` for TLC |
| `ExecutionQueueProofs` | theorems about `ExecutionQueue` |
| `ExecutionWorkerProofs` | theorems about `ExecutionWorker`, the refinement of `ApprovedAction` among them |
| `ApprovedAction` | abstract: what the runtime promises for one approved tool call; implemented by `ExecutionWorker` |
| `Approvals` | one tool call from its request to its verdict, composed with `ApprovedAction` |
| `ApprovalsProofs` | theorems about `Approvals` |
| `TaskGrants` | the grants of one workflow run |
| `MCTaskGrants` | instance of `TaskGrants` for TLC |
| `TaskGrantsProofs` | theorems about `TaskGrants` |
| `TaskGrantsBudgetProofs` | theorems about sums and numbers of turns in `TaskGrants` |
| `SetSums` | lemmas about sums over finite sets |
| `WorkflowGraph` | one workflow run: step runs, workers, graph advancement |
| `MCWorkflowGraph` | step graphs for `WorkflowGraph` |
| `WorkflowGraphProofs` | theorems about `WorkflowGraph` |
| `SessionLoop` | the event log of one session, the trigger that turns events into jobs with windows, workers that run and settle them, and the direct callers of `enqueue_session_loop` |
| `MCSessionLoop` | instances of `SessionLoop` for TLC |
| `SessionLoopProofs` | theorems about `SessionLoop` |

**State.**  `jobs[j]` is the row (`ExecutionJob`).  `status`, `worker`, `gen`
(`claim_generation`), `attempt` (`attempt_count`), `error` (`last_error` is
set) and `stage` (`finalization_details.stage`) are the columns that conditions
read.  The lease is abstracted to none/live/expired: the renewal of a live lease
is then a stuttering step, and `LeaseExpires` is the clock passing
`lease_expires_at`.  A runner has `pc`, the job it is `on` and its `claim`, the
row returned by its last queue operation, which is what the Rust code keeps in
its local `ExecutionJob`.  `log` is the set of session events with the parts of
the payload that can differ between two appends under the same id.

**Actions.**  Each queue operation is one action with the WHERE clause of its
UPDATE as guard.  In the worker every await that changes shared state is an
action of its own, so that a crash (`Crash`), the expiry of the lease or another
runner can come between any two.  `FailPrecommit` stands for all the checks of
`run_claimed_execution_job` before the commit point: they differ in wording and
stage name only.  `PerformEffect` and `EndWithoutEffect` stand for all tools.
Most tools append their durable event before they set the status of the tool
call; a remote file write does it the other way round (`RecordStatusEarly`), so a
crash in between leaves a completed call without an event.
`reconcile_durable_tool_outcome` finds no event then, and the job ends
`outcome_unknown` beside a tool call that says completed.
`Abandon` is what the `select!` loop does when a renewal, the cancellation check
or a fenced operation finds the claim gone.

**Session loop.**  `log` is `session_events` in the order of `seq`, reduced to
the kind of an event and the execution it is about.  `input` stands for every
event that always calls for a turn, `note` for every event that never does.
`loops` holds the rows of `session_loop_jobs`; a NULL sequence number is 0.
`append_event` writes the event and runs the trigger
`project_session_event_to_loop_job` in one step, as its transaction does; the
projection that handlers call afterwards in Rust finds the event covered or
deferred on Postgres and is left out.  Executions are the abstraction of
`ExecutionWorker` that the trigger reads: status and completion event change in
one step (`OutcomeIsAnnounced`), and an execution with a result completes
(`ResultIsNeverLost`).  A turn is one action that puts the window of its job into
`seen`; it may end without a word, with `complete_task`, with an error, or find the
session closed.  `complete_task` closes the session (`FinishTurn`), or leaves it open
because the graph has other steps for it or because the task is blocked
(`CompleteTask`; its events go through the trigger like any others).  A job that is
started again after a completion was recorded is settled without a turn
(`ResumeCompletion`).  `stray` is a history variable: such a completion was recorded
by a worker whose job another one had settled already.  A `user.interrupt`, which
voids a recorded completion, is left out.

`RunSession`, `ReadCursor` and `EnqueueJob` are the separate awaits of a direct
caller of `enqueue_session_loop`: `POST /api/sessions/:id/run`, an ordinary workflow
step (`run_workflow_step_run_inner`, which appends its message and enqueues it) and
`create_session` with a message.  `RunAdapter` to `AdapterFinish` are those of a
workflow compensation step, which keeps other workers out while the lease of its step
is live.

**Abstract specification.**  `ApprovedAction` has two variables per tool call:
the phase (none, open, committed or a verdict) and how often it acted.
`ExecutionWorker` maps a row to its phase with `PhaseOf` and its counter of side
effects to `acted`; a finalization that did not pass the commit point is still
open.  `ActionSpec` says that every step of runners, leases and recovery is a step
or a stutter of it.  `Approvals` extends `ApprovedAction` and uses its actions where
`run_claimed_execution_job` commits, acts and settles, so that what it shows is
shown for the runtime too.  The abstraction allows one surprise on purpose: an
attempt that lost its claim after the commit may still act once the job has the
verdict `outcome_unknown`.

**Approvals.**  Three kinds of tool are told apart: a connector under a grant (its
call carries a digest of the arguments, an approval issues a token for it, the
token is validated before the commit and validated and consumed after it), a
connector without such a grant (it never gets a token and so never acts) and a
tool that carries none.  Handlers read the approval in one step and write in later
ones: `ReadForDecision` is the read, `Approve`, `IssueToken` and `EnqueueApproved`
the three writes of an approval, `Decline` the single transaction of a rejection
or expiry.  `DropRequest` ends a request between any two of them.  `late`,
`decided`, `performed` and `uses` are history variables.

**Task grants.**  A transaction that locks the run or the lineage is one step; the
parent a delegation read, the check before a turn and the list of grants to close
are earlier steps.  Turns and tool calls are reserved before they happen, cost is
charged afterwards and without a fence.  `Loops` are the turns that worker futures
have under way; two of them may belong to one session, when its loop job was taken
over from a worker that lives.  `Enders` are the requests that end the run: each
writes its status over whatever is there and closes the grants it lists.  `ReopenRun`
is the same unconditional write by a worker with an older copy of the run; `reopened`
and `revived` are history variables.  Deadlines show as `Expire` and as refusals.
The scopes of a grant (tools, connectors, data) are checks of one request and are left
out.

**Workflow graph.**  `rows` are the step runs in the order of `created_at`, `def` is
a validated graph: dependencies with the number a join needs, compensation
sources, attempts, delayed retries, branches whose condition may be false, steps in
sessions of their own (`isolated`) and the cap on parallel steps.  Each listing,
each insert and each write of the run's status is a step; `worker[w].run` is the
copy of the run the code compares with, `worker[w].was` the status in its copy of the
step.  A row has the worker that claimed the step (`by`) and the state and the worker
of its session loop job (`job`, `owner`).  The job is acknowledged last; when its lease
runs out it is `lost`, and `TakeOver` resumes it as
`resume_recorded_workflow_completion` decides.  The status `blocked` is the code's
`skipped` with the reason `dependency_failed`.  `worker[w].todo` is the set of steps one
pass has decided to insert; `CreateNext` inserts them in the order of the graph.

A lease runs out in two ways.  `Crash` is the death of the worker.  `Stall` is a worker
that lives and goes on: `settle_session_loop_attempt` renews the lease once (`Settle`),
and what follows neither renews nor looks at it.  The fences that are left are in the
model: a claim by name or none at all for the outcome of a step (`Record`), the owner of
the job for its renewal and acknowledgement (`HasJob`), a live job for the adoption of a
claim (`Adoptable`), and no live claim of another worker when a job is started
(`ForeignClaim`).  Three simplifications: the reconciliation after a later job looks at
the step the job was for, and not at all active steps of the session; the lease of a
claim ends with that of its job; and the renewal that runs beside
`resume_recorded_workflow_completion` is left out, so that a worker may be later in the
model than in the code.

## 3. Runs

| Run | Bounds | Shows |
|---|---|---|
| `execution_queue` | 1 job, 2 workers, 2 attempts, generations to 5, in-memory operations included | ended jobs stay ended; a commit is not undone (with the other theorems of section 5) |
| `worker_postgres` | 1 job, 3 runners with the same worker name (symmetric), 3 attempts, generations to 6 | at most one side effect; results are never lost; verdicts, events and tool status agree; the runtime implements `ApprovedAction`, so nothing that may still run or be canceled has acted |
| `worker_memory` | 1 job, 2 runners with different names, 2 attempts, generations to 4 | outcomes are announced by the claim that produced them; every worker step is a step of `QueueSpec` |
| `worker_liveness` | 1 job, 2 runners, generations to 5 | a job that acted settles; a cancellation completes |
| `resume_finalization` | as above, Postgres | violation: finding 1 |
| `loop_projection` | 1 worker, 2 executions, inputs to 4 events | windows follow one another; no input and no result falls between them |
| `loop_workers` | 2 workers with names of their own, 1 execution, inputs to 2 events, 2 starts | only windows a finished turn had are acknowledged; one job runs and one waits; a worker that lost its job is fenced; every input of an open session whose executions settle is seen by the model |
| `loop_direct` | 1 worker, 1 direct caller, 1 adapter, 1 execution, inputs to 2 events, 1 start | results of unfinished executions stay out of started windows; the cursor never moves back |
| `approvals` | 1 tool call of any kind, 2 argument values, 2 requests and the due run, 2 attempts | one decision, which is final; the action has the arguments that were decided; a token is used once; lapsed authority stops a connector; overdue approvals are resolved |
| `task_grants` | 3 grants in 2 sessions, 1 step, 1 delegation, 2 turns and 2 ends of the run at a time, budgets of 1 and 3, cost 1 | budgets hold along the lineage and are not multiplied by delegation; cost overshoots by less than one response per turn under way; what a completed closing leaves active was delegated after a reopening |
| `workflow_graph` | 2 workers, 1 crash; a capped diamond with a branch, a join of any under a cap of one, a chain with retry and compensation; a chain of 2 steps with 1 crash or 1 stall; steps share the session | steps come after their dependencies; they are materialised once and the cap holds, but for one insertion per stall; without a stall the run ends once, with its steps ended, and an undisturbed run completes |
| `graph_end` | 2 workers, 2 crashes, no stall, two isolated parallel steps and their join | violation: finding 2 |

*Why the bounds suffice.*  Jobs do not share rows, so one job shows every
interaction between runners.  Three runners allow two stale holders beside the
current one.  With three attempts and six generations a job can be retried,
recovered and resumed in one behaviour.  `MaxGeneration` stops the expiry of
leases and crashes, not the work that is under way.

Sessions share no rows either, so `SessionLoop` has one.  `MaxEvents` bounds
inputs and notes only; the events of executions come on top, so that with two
executions and four events every order of two results, two completions and the
inputs before, between and after them occurs.  `MaxStarts` bounds how often a
lease expires or a worker crashes: two starts are one takeover.  A run has the
actors its question is about; `NoInputLost`, `WindowsFollow` and
`AcknowledgedWasSeen` are checked without direct callers, which break the first and the
last (section 4).  The run `loop_workers` reaches stray completions and resumed jobs;
that `AcknowledgedWasSeen` needs its condition `~stray` shows with three events.

Approvals share nothing with each other, so one is enough; two requests and the due
run give every race of three deciders, two attempts every race for a token.  In
`task_grants` two children can be siblings or a chain, in one session with each
other and beside the root's; budgets of one and three make every limit be reached.
`CostInOneRun` keeps the instance with costs to one child and an open run,
`TurnsBeforeEnd` has a run end before anything is charged: charges and ends
share nothing but the status of the grants.  Two ends of the run race each other, a
reopening and a delegation.  The theorems cover the sizes that TLC does not.

The graphs of `workflow_graph` contain each construct once, and a crash interrupts a
worker anywhere.  `StallsInPairs` keeps stalls to the smallest graph, two steps and a
cap of one, and to runs in which no worker dies.  It cuts no behaviour that
`RunCompletes` is about, which asks for runs without a stall.  `MaxRows` exceeds what
the definitions lead to.  Larger instances were checked once and have no place in the
suite: a stall and a crash in the chain of two (741 thousand states), two stalls in it
(948 thousand), one stall and one crash in the graph with retry and compensation and in
a fork of two shared steps (5 million each), two crashes in the graphs of four steps (1
million).

*Deadlock* is not checked: a job that ended and a session without work are
legitimate ends of the system.

*Fairness* (`worker_liveness`).  Weak fairness of a runner's steps: its future is
polled.  Weak fairness of taking a job: `run_worker` discovers again after every
pass and the readiness rule is exactly the disjunction of the acquiring
operations' guards.  Weak fairness of expiry for a lease that no runner holds:
time passes.  `CrashesStop` says that crashes and dropped requests are finite;
without it a restarted worker may adopt and drop a cancellation forever.

In `loop_workers` a turn and its settlement are polled to their end, discovery
starts jobs that can be started, and the lease of a job no worker is on expires.
Nothing is assumed of executions, since the runtime does not promise that they settle:
finding 1 is a job that stays `finalizing`, and an approved call may never be enqueued
(section 4).  Both block the session.  That they settle is therefore the hypothesis
`ExecutionsSettle` of `InputsAreSeen`; an execution whose outcome stays unknown blocks
the session by design, and the property says so.

In `approvals` the clock runs, `scheduler_runtime.rs` starts due runs again and
again and a due run is polled to its end, unless the process dies, which it does
finitely often.  Nothing is assumed of approvers.  In `workflow_graph` a worker that
has something to do goes on, the daemon's passes find each step and job that is ready
again and again (strong fairness, since other steps occupy the session in between)
and an agent that gets enough turns completes its task; the property is about
runs in which no step fails and nobody ends the session.

## 4. Findings

1. **A resumed finalization cannot queue its retry.**  `execution.retry_queued`
   gets an id from job and attempt, but its payload holds the worker and the
   generation (`execution.rs`, `record_execution_failure_tail`).  When a holder
   is interrupted after this append, the next holder's append collides with it
   (`validate_idempotent_event_identity`), and so does every later one: the job
   stays `finalizing`.  `execution.failed` is not affected, because its id
   includes the generation.
2. **A run can be written failed with a retry queued.**  A failed step is recorded
   before its retry is inserted.  When another isolated step ends in between, its
   worker's `workflow_graph_terminal_failure_status` lists only terminal steps, and
   the run is written `failed` (and its grants closed) while the retry row is
   inserted.  `docs/managed-agent-workflow-architecture.md:97` has the run end "only
   after terminal graph state is recorded".

The models also contain these behaviours, which no run is spent on:

- *In-memory queue: a known failure can be replayed.*  `prepare_outcome_tail`
  replaces the stage `tool_known_failure` by `failure_pending` before the row is
  finished; an interruption in between makes the resumed finalization treat the
  failure as retryable, and `AtMostOneEffect` fails for `Backend = "memory"`.
- *A direct caller can lose a tool result.*  `enqueue_session_loop_job_from` does not
  defer to hidden results as the trigger does.  In a session that has no mark yet
  its window starts behind the hidden result, and the completion event only
  extends that window's end (`NoInputLost` with a run call).  `POST /run` is such a
  caller, and every ordinary workflow step is.
- *A stray completion settles the wrong job.*  `commit_provider_completion` does not ask
  whether the job is still the worker's.  A worker that lost its job to another, which
  has settled it, may still complete the task of a session that stays open; when the
  next job of the session loses its worker and is started again,
  `successful_provider_completion_for_job` finds that completion behind the job's window
  and settles the job without a turn: its input is acknowledged unseen.
  `AcknowledgedWasSeen` and `InputsAreSeen` except it (`stray`).
- *A compensation adapter acknowledges other people's input.*  Its enqueue is merged
  with the queued job of a user message, which it completes without a turn
  (`AcknowledgedWasSeen` with an adapter).
- *A rejection can be overwritten.*  The turn inserts the approval and then sets
  the tool call to `waiting_approval` whatever it is; after a rejection in between
  the call waits for an approval that is decided.  The due run repairs this for
  expired approvals only.
- *An approval that is not enqueued.*  A process that dies between the recorded
  decision and the enqueue leaves an approved call nobody runs.
- *A living worker past its lease* goes on beside the worker that took over its job, also
  in a shared session.  With one stall and no crash in the graph of two steps TLC finds
  that both insert the next step, whose key then has two step runs and which is over the
  cap of one (13 states: `create_workflow_step_run` looks for no key); that a step which
  was settled gets another turn (9 states); that the late worker writes its own status
  over an ended run (22 states: `update_workflow_run_status` has no condition); and
  that a run is completed with a duplicate step queued, inserted between the check and
  the write (30 states).  `KeysAreReserved` and `FanOutIsCapped` therefore allow one
  insertion per stall, `EndedRunIsSettled` and `RunEndIsFinal` are about runs without
  one.  `DependenciesHold` stands whatever happens: a late worker only inserts steps
  that were due.
- *Parallel isolated steps* may both materialise their join (`KeysAreReserved`), and
  a worker with an old copy of the run may write `running` over an ended one
  (`RunEndIsFinal`); with `ParallelDefinitions` TLC finds both.  An isolated step whose
  worker dies before the advancement is not resumed.
- *The cap is not applied to start steps and compensation steps*: only
  `advance_workflow_graph_after_step_update` looks at `max_parallel`, so a graph with
  more start steps than the cap is over it from the beginning.
- *A graph with a compensation step never completes*: `workflow_graph_run_completed`
  asks for every key of the graph, the compensation included, which is why
  `RunCompletes` is about graphs without one.
- *Closing grants stops at a conflict.*  `close_active_task_grants_for_workflow_run`
  returns at the first grant somebody else has closed differently since the list was
  read.  The grants left active admit no tool call as long as the run stays ended,
  since `commit_tool_invocation_start` reads the run and the steps under lock.
- *A reopened run delegates again.*  When a stale worker has written an executable
  status over the end of a run, a child can be delegated behind the list that the end
  reads its grants from, and stays active when all of them are closed.
  `ClosedRunHasNoAuthority` excepts exactly these grants (`revived`).

`POST /run` enqueues its message a second time after the trigger did.  When a
worker starts the trigger's job in between, the second job has no window
(`pending_event_seq_start` is NULL), which the model's `Window` treats as the
code does.

Session loop jobs are fenced by the worker's name only, without a generation.
`StaleOwnerIsFenced` therefore asks for names of their own; two futures of one
`WORKER_ID` are not told apart by any column.  `max_attempts` of a loop job is
never compared, so a turn that keeps crashing is started again without limit.

## 5. Proofs

`ExecutionQueueProofs` proves, for all jobs, workers, attempt limits and both
backends, the properties of the run `execution_queue` and what they rest on: typed
rows, well-formed claims, exclusive live leases and fresh generations.  The inductive invariant
`QueueInv` joins the type invariant, `ClaimWellFormed` and
`GenerationCountsAttempts`.  Because every operation replaces one row,
`QueueInvRows` restates it as a predicate `RowOK` of single rows, `PutRow` lifts
a well-formed row to the table, and the lemmas `KeptClaimRows`, `LeasedRow` show
that each operation writes one.  The action properties follow from `RowStep`, the
relation between the old and the new row, in the same way; the step for `start`
needs `ClaimWellFormed` (a queued row has no live lease to steal).  The only
assumption is `QueueAssumption`: the null worker is no worker's name, at least
one attempt.

`TaskGrantsProofs` proves, for any number of grants, sessions, steps and concurrent
requests, any depth of delegation and any budgets, that `TaskGrants` is typed and
satisfies `BudgetsHold`, `DelegationNarrows`, `ClosedRunHasNoAuthority` and
`GrantIsFinal`.  `BudgetsHold` alone is not inductive: a new
child starts from a row whose charges must be zero, and a charge must reach only
grants that were checked.  The inductive invariant `GrantsInv` therefore adds
`LineageOK` (absent grants are uncharged and in no lineage, existing ones are in
their own), `RequestsOK` (a request and a turn know a grant) and `ClosingOK` (every
active grant is on the list of each end that is closing, or was delegated after a
reopening; it holds because `CreateChild` needs an executable run, and a run that ended
is executable only when it was reopened).  `RecordKeeps` carries `DelegationNarrows` to
a new child through `RemainingBudgets`: what is left of the parent is at most its
limit, which is at most that of any ancestor.  `ReserveKeeps` and `EndGrant` do the
same for charges and endings, and each action has one lemma.  The assumptions are
those of `GrantsAssumption`.

`TaskGrantsBudgetProofs` proves the two properties of grants that count over sets, with
the same assumptions.

- `CostOvershootIsBounded`.  The cost of a turn is only charged when the response is
  there, so the bound alone is not inductive.  `CostInv` accounts for the running turns in
  advance: what is charged and one `MaxCharge` for each running turn stay below the limit
  and one `MaxCharge` for each turn that can be under way, whatever sessions they are
  of.  A turn is let in only below the
  limit, where this holds whatever else runs, and every charge is paid for by a turn that
  stops running.
- `LineageAccounts`.  `ChainOK` says that the lineages form a tree: parents exist,
  a lineage holds the parents of its members, and it has at most one child of any grant.
  A charge that reaches a child therefore reaches its parent, and no other child of that
  parent, so both sides grow by the same amount or only the larger one does.  That only
  finitely many grants exist is part of the invariant, not an assumption.

`SetSums` supplies what these proofs need of a sum over a finite set: that it does not
depend on the order in which the fold picks the elements, so that one element can be split
off, added or changed.  The library's induction theorems have an operator parameter, which
the provers cannot instantiate.  Here induction is a statement about sets of numbers
(`NatSetInduction`: a set that has 0 and every successor contains the naturals, by
its least counterexample), from which `SubsetInduction` follows for the subsets of
a finite set by their cardinality.

`ExecutionWorkerProofs` proves, for any number of jobs, runners and workers, that
`ExecutionWorker` is typed, implements the queue (`QueueSpec`), never lies about a
cancellation (`CanceledEventIsTrue`) and announces its outcomes (`OutcomeIsAnnounced`), on
both backends; and, with the hypothesis `Backend = "postgres"`, `AtMostOneEffect`,
`ResultIsNeverLost`, `VerdictIsBacked` and the refinement `ActionSpec`.  At most one effect is
not inductive: that the effect counter is still zero must be known to the runner about
to act, although its lease may have expired and another runner may have finalized
the job.  `WorkerInv` has three parts.  `RecordOK` relates the row of a job to its
outcome events, the status of its tool call and its effects; `RunnerOK` says what the
stage of a runner and the row it remembers tell about the present row; `Alone` says
that one runner is past the commit point of a job and that no two work under the same
claim generation.  What a completed tool call tells is part of `RecordOK`: that it has
acted, not that its event is there, since `RecordStatusEarly` comes first.  A
step of a runner changes one job, so each action is one use of `OneJobStep`, with
`HolderStep` (the row is still the runner's), `NewClaimStep` (a claim or recovery) or
`RecordStep` (events only) for what the step owes: its own facts, and that every
bystander's facts survive, which they do because a bystander only knows things of the row
that no step takes back.  The refinement rests on `WorkerInv`: `Turns` is how a row
may change, `PhaseMoves` what that means for the phase.  The hypothesis is needed: in memory
the stage of a known failure can be overwritten before the row is finished (section 4).

`CanceledEventIsTrue` and `OutcomeIsAnnounced` have invariants of their own.  In Postgres the
trigger announces an end in the transaction that writes it.  In memory the runner announces a
failure before `finish_finalizing_started` and a completion after it, and it may lose its
claim, or decide again whether the failure is final, in between.  `MemoryInv` says what
a runner knows as long as the generation it remembers is the row's (`Knows`), that one
runner at a time finalizes under it (`Sole`), and that a final failure has been announced
before the tail is prepared (`TailOK`).  The last part is kept because an outcome event, the only
thing that could change the decision, is appended while the job is executing
(`OutcomeStep`), and a generation never returns to that status once its finalization has
begun (`RowsGo`).

`ApprovalsProofs` proves the type invariant, `OneDecision`, `ExactBinding`,
`TokenIsSingleUse`, `LapsedAuthorityStopsTheWrite` and `DecisionIsFinal` for any jobs,
callers, attempts and arguments, and that `Approvals` implements `ApprovedAction`, so
that it uses the runtime only in the ways the refinement above covers.
`ApprovalInv` has a part per actor: `RecordInv` (approval, call and phase of one job
agree), `BindingInv` (a token, consumed or not, has the digest that was approved),
`CallerInv` (what a handler that has read a pending approval may still assume, which
is little: the approval may have been decided since) and `AttemptInv` (where an attempt
stands with the token it validated), and `Alone` (one attempt past the commit of a job).
The frame lemmas `JobFrame`, `AttemptFrame` and `CallerFrame` say which parts survive
when only some variables change; each action has one lemma.  The assumption is
`ApprovalsAssumption`.

`SessionLoopProofs` proves, for any number of events, jobs, executions, workers and
callers, `LoopTypeOK`, `OneRunsOneWaits`, `HiddenResultStaysPending` and
`CursorIsMonotone`; with worker names that are distinct and no adapter's name
(`NamesApart`), `StaleOwnerIsFenced`; and without direct callers, adapters included,
`WindowsFollow`, `NoInputLost` and `AcknowledgedWasSeen`.
The hypotheses are the conditions under which the runs check these properties; section 4
shows that `NoInputLost` and `AcknowledgedWasSeen` need theirs.  The marks of the log
(cursor, end of the pending window) are maxima over the jobs.  A maximum is
characterised without induction: `WFMin` takes the least upper bound from the
well-foundedness of `<` on the naturals, `MarkIn` and `MarkOf` make it a mark, and after
that only its bounds are used.  `LoopInv` collects what holds for any callers, with a
predicate per runner (`RunnerOK`) and per call (`CallOK`).  Every action changes the jobs
in one of the five ways of `JobsMove`, so the lemmas are about those: `Enqueues`,
`Starts`, `Leases`, `Completes` and `Fails`.  `NoInputLost` needs that windows follow each
other without gap (`WindowInv`, `OrderInv`) and that an event past the last window is the
one just appended (`CoverInv`); `AppendsOrRests` splits the steps into those that append
to the log and those that leave the windows alone.  `AcknowledgedWasSeen` needs to know why
a job may be settled without a turn: without a stray completion, a completion
behind the window of the running job comes from a worker that had shown the model that
window (`SeenInv`).

`WorkflowGraphProofs` proves for every validated graph, any number of workers, deaths
and stalls `GraphTypeOK`, with an invariant for late workers (`LooseInv`: shapes only)
beside the one for punctual ones.  The latter, `TypeInv`, adds to the types what a worker
that outlasts no lease knows of its step whatever the others do (`PlaceOK`), and that no
two workers are engaged with one step (`Apart`).  The other results have the hypothesis
`SharedSession` (no step has a session of its own), which `ParallelDefinitions` shows to
be needed.  All but the one on dependencies are about behaviours as long as they are
`Punctual`: until the first stall one worker at a time holds a session loop job, and
nothing is claimed of what comes after it.  Section 4 has what happens afterwards; how far it
can go is model-checked (the `stalls` in `KeysAreReserved` and `FanOutIsCapped`), not
proved.

- `KeysAreReserved`, while punctual.  In a shared session one step is busy at a time (`SoleInv`), so one
  worker at a time holds a session loop job; the others can only pick steps, activate
  due ones and give up.  `StepKinds` sorts all steps of the system into the kinds that
  matter to the step runs, and `Bystanders` says that none of them disturbs what the
  holder has read.  Therefore a list read before a crash-prone series of inserts stays
  good (`PlanOK`: planned keys have no step run, a retried step is the last of its key and
  has attempts left).
- `EndedRunIsSettled` and `RunEndIsFinal`, both of which say `Punctual`.  The one writer that holds no job is the
  activation of due steps.  It can only happen in a closed session, because an open
  session has no failed step (`OpenInv`), and it leaves a step that nobody will ever claim
  (`Stuck`), with which no worker decides to end the run.  So a worker that is going to end
  the run has seen a settled state that lasts (`WriteOK`), and after the end nobody is left
  who would write (`EndInv`).
- `DependenciesHold`, whatever leases run out.  `workflow_graph_fan_in_ready` counts steps
  that were skipped because a dependency failed, so a ready step need not be `Due`.
  While the session is open nothing has failed, whoever acts (`SmoothInv`), so that ready
  steps are due and stay so for a worker that inserts them late; in a closed session no
  step is picked (`DependencyInv`).  `Freely` is what a worker that may have lost its
  lease can do to the step runs.
- `FanOutIsCapped`, while punctual and for graphs with `CapFits`: the start steps fit under the cap, and no
  compensation step is queued, since both are inserted without a look at it.  The
  open steps and the places a worker has promised fit together (`CapInv`); for a pass, the
  last step it queues has room after all before it (`ScanFits`).

The assumption is `GraphAssumption`, what the validation of a definition ensures.

Every safety property of the passing runs is proved, under the hypotheses named above.
Only model-checked: what `KeysAreReserved` and `FanOutIsCapped` say after a stall, and the
liveness properties `JobsSettle`, `InputsAreSeen`,
`OverdueIsResolved` and `RunCompletes`, since the prover has neither fairness nor ENABLED.  For graphs with isolated steps the properties of
`WorkflowGraph` other than those just named are not proved; several of them do not hold
there (section 4).

## 6. Plan and what is not modelled

Done: `ExecutionQueue`, `ExecutionWorker` with `ApprovedAction`, `Approvals`,
`SessionLoop`, `TaskGrants` and `WorkflowGraph` with their proofs.

Left to do, most valuable first:

1. Graphs with isolated steps: which of the properties hold when only one isolated step is
   open at a time.
2. The bounds after a stall, for any number of them: a worker that outlasted its lease has
   one list of inserts, whose keys have no step run when it reads them.
3. `RemoteComputers`: leases and assignments; the window of `run_worker`; due
   activation of schedules.

Not modelled inside the modelled parts: the in-memory projection of session events
in Rust, delegated runtimes, the inner steps of a turn, the PATCH route for step
runs, handoff blocks, webhooks, approval notifications, delegated approvers, the
scopes of grants.

Not modelled at all, and why: packs, the ontology engine and SDK, semantic memory and
context packets are transformations of data with little control; providers,
connectors and secrets are single external calls, whose outcomes the worker model
contains; governance, usage, readiness and observability are reports over stored
records; releases and policy rollout are versioned records changed by one request at
a time; the console and the desktop shell are user interfaces.  These are by far the
larger part of the repository's lines: the models cover its concurrent core, not its
bulk.
