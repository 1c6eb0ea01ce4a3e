----------------------------- MODULE SessionLoop -----------------------------
(***************************************************************************)
(* The loop that gives the events of a session to the model, for one       *)
(* session of the Postgres store.  Every event has a sequence number; a    *)
(* trigger turns events that call for a turn into a job with a window of   *)
(* sequence numbers, and merges it into the job that is still queued.      *)
(* Workers start jobs, run a turn over the window and acknowledge it.      *)
(*                                                                         *)
(* The execution of approved tools is the abstraction of ExecutionWorker   *)
(* that the trigger sees: an execution that has a durable tool.result      *)
(* completes and announces it in the transaction of its last step          *)
(* (ResultIsNeverLost, OutcomeIsAnnounced).                                *)
(***************************************************************************)
EXTENDS Integers, Sequences, FiniteSetsExt

CONSTANTS
    Runners,      \* calls of run_session_loop_job_as_worker in progress
    WorkerOf,     \* the WORKER_ID of each runner
    RunCalls,     \* requests POST /api/sessions/:id/run
    Adapters,     \* workers of workflow compensation steps
    Execs,        \* approved executions of the session
    MaxEvents,    \* bound: inputs and notes are appended to a shorter log only
    MaxStarts     \* bound: a lease expires only before this many starts

ASSUME LoopAssumption ==
    /\ MaxEvents \in Nat /\ MaxStarts \in Nat
    /\ RunCalls \cap Adapters = {}

VARIABLES
    log,      \* session_events, in the order of seq
    session,  \* sessions.status; "open" is idle, running, requires_action, ...
    execs,    \* status of each approval and its execution job
    loops,    \* session_loop_jobs, in the order of insertion
    runner,   \* what each runner is doing
    call,     \* what each direct caller of enqueue_session_loop is doing
    seen,     \* history: events that were in the context of a finished turn
    stray     \* history: a worker whose job another one had settled completed
              \* a task of the open session

loopVars == <<log, session, execs, loops, runner, call, seen, stray>>

None == "none"

\* "input" stands for the events that always call for a turn (user.message,
\* user.custom_tool_result, session.goal.*, approval.rejected, and tool.result
\* of a tool that needed no approval), "note" for those that never do, and
\* "complete_task" and "blocked" for the records of a completion, tool.result
\* and session.goal.*, that are written in one transaction.
Kinds == {"input", "note", "complete_task", "blocked", "tool.result",
          "execution.completed", "execution.failed"}
Event == [kind : Kinds, exec : Execs \cup {None}]

Plain(kind) == [kind |-> kind, exec |-> None]
About(kind, e) == [kind |-> kind, exec |-> e]

\* A row of session_loop_jobs; start, end and processed are 0 for NULL.
LoopJob == [status : {"queued", "running", "completed", "failed"},
            start : Nat, end : Nat, processed : Nat,
            worker : {WorkerOf[r] : r \in Runners} \cup Adapters \cup {None},
            lease : {"none", "live", "expired"}, starts : Nat]

NewJob(start, end, processed) ==
    [status |-> "queued", start |-> start, end |-> end, processed |-> processed,
     worker |-> None, lease |-> "none", starts |-> 0]

Runner == [pc : {"idle", "turn", "settle", "fail_session", "ack"}, on : Nat,
           start : Nat, end : Nat, starts : Nat,
           outcome : {"none", "ok", "error", "terminal"}]
IdleRunner == [pc |-> "idle", on |-> 0, start |-> 0, end |-> 0, starts |-> 0,
               outcome |-> "none"]

Call == [pc : {"idle", "appended", "cursor", "start", "finish", "done"},
         end : Nat, cursor : Nat, on : Nat,
         step : BOOLEAN]   \* it holds the live lease of a workflow step
IdleCall == [pc |-> "idle", end |-> 0, cursor |-> 0, on |-> 0, step |-> FALSE]

LoopTypeOK ==
    /\ log \in Seq(Event)
    /\ session \in {"open", "terminated", "failed"}
    /\ execs \in [Execs -> {"absent", "waiting", "active", "rejected", "completed",
                            "failed", "canceled", "outcome_unknown"}]
    /\ loops \in Seq(LoopJob)
    /\ runner \in [Runners -> Runner]
    /\ call \in [RunCalls \cup Adapters -> Call]
    /\ seen \subseteq 1 .. Len(log)
    /\ stray \in BOOLEAN

LoopInit ==
    /\ log = <<>>
    /\ session = "open"
    /\ execs = [e \in Execs |-> "absent"]
    /\ loops = <<>>
    /\ runner = [r \in Runners |-> IdleRunner]
    /\ call = [c \in RunCalls \cup Adapters |-> IdleCall]
    /\ seen = {}
    /\ stray = FALSE
-----------------------------------------------------------------------------
(* project_session_event_to_loop_job, the trigger on session_events *)

Announced(l, e) == \E s \in DOMAIN l : l[s] = About("execution.completed", e)

\* A tool.result whose execution has not reached its completion event.
Hidden(l, x, s) ==
    /\ l[s].kind = "tool.result"
    /\ ~(x[l[s].exec] = "completed" /\ Announced(l, l[s].exec))

CallsForTurn(l, x, n) ==
    \/ l[n].kind \in {"input", "complete_task", "blocked"}
    \/ l[n].kind = "execution.completed" /\ x[l[n].exec] = "completed"
    \/ l[n].kind = "execution.failed" /\ x[l[n].exec] = "failed"

\* The mark reached by processed windows only.
ProcessedMark(js) == Max({0} \cup {js[i].processed : i \in DOMAIN js})

\* What has been processed or is in the window of a job that will be.
HighWatermark(js) ==
    Max({0} \cup {js[i].processed : i \in DOMAIN js}
            \cup {js[i].end : i \in {k \in DOMAIN js :
                                      js[k].status \in {"queued", "running"}}})

\* Results that the completion event n releases.
ReleasedResults(l, x, n, mark) ==
    {s \in mark + 1 .. n - 1 :
        /\ l[s].kind = "tool.result"
        /\ x[l[s].exec] = "completed"
        /\ \/ l[s].exec = l[n].exec
           \/ \E c \in s + 1 .. n - 1 : l[c] = About("execution.completed", l[s].exec)}

\* A window that starts at the mark, whatever is released.
StartAtMark(l, x, js, n) ==
    LET mark == HighWatermark(js) IN IF mark = 0 THEN n ELSE mark + 1

\* Start of the window of event n: after the mark or, for a session that has
\* no mark yet, at the event itself; a completion event reaches back to the
\* results it releases.
PendingStart(l, x, js, n) ==
    LET mark == HighWatermark(js)
        first == IF mark = 0 THEN n ELSE mark + 1
        released == IF l[n].kind = "execution.completed"
                    THEN ReleasedResults(l, x, n, mark) ELSE {}
        start == Min({first} \cup released)
    IN IF start > n THEN 0 ELSE start

\* Also the job that is being worked on.
ActiveJobs(js) == {i \in DOMAIN js : js[i].status \in {"queued", "running"}}

QueuedJobs(js) == {i \in DOMAIN js : js[i].status = "queued"}

\* INSERT ... ON CONFLICT of the trigger: the queued job keeps its start.
MergeProjected(js, start, end) ==
    IF QueuedJobs(js) = {}
    THEN Append(js, NewJob(start, end, start - 1))
    ELSE LET i == Max(QueuedJobs(js))
         IN [js EXCEPT ![i].start = IF @ = 0 THEN start ELSE @,
                       ![i].end = Max({@, end})]

\* The jobs after the trigger ran for the last event of l.
Project(l, x, js, n) ==
    IF /\ CallsForTurn(l, x, n)
       /\ \A s \in 1 .. n : ~Hidden(l, x, s)
    THEN MergeProjected(js, PendingStart(l, x, js, n), n)
    ELSE js

\* append_event: the next sequence number, and the trigger in the same
\* transaction.  x is the state of the executions the trigger reads.
append_event(event, x) ==
    /\ log' = Append(log, event)
    /\ loops' = IF session = "open"
                THEN Project(log', x, loops, Len(log) + 1) ELSE loops

-----------------------------------------------------------------------------
(* Events of users and executions *)

\* add_message, send_session_events: the projection that the handlers call
\* after the append finds the event covered or deferred.
AppendInput ==
    /\ Len(log) < MaxEvents
    /\ append_event(Plain("input"), execs)
    /\ UNCHANGED <<session, execs, runner, call, seen, stray>>

\* session.loop.started, llm.request, agent.plan, execution.retry_queued, ...
AppendNote ==
    /\ Len(log) < MaxEvents
    /\ append_event(Plain("note"), execs)
    /\ UNCHANGED <<session, execs, runner, call, seen, stray>>

SetExec(e, status) == execs' = [execs EXCEPT ![e] = status]

\* A tool call of the session waits for a decision.
RequestApproval(e) ==
    /\ execs[e] = "absent" /\ session = "open"
    /\ SetExec(e, "waiting")
    /\ UNCHANGED <<log, session, loops, runner, call, seen, stray>>

Approve(e) ==
    /\ execs[e] = "waiting"
    /\ SetExec(e, "active")
    /\ UNCHANGED <<log, session, loops, runner, call, seen, stray>>

Reject(e) ==
    /\ execs[e] = "waiting"
    /\ SetExec(e, "rejected")
    /\ append_event(Plain("input"), execs')
    /\ UNCHANGED <<session, runner, call, seen, stray>>

HasResult(e) == \E s \in DOMAIN log : log[s] = About("tool.result", e)

RecordResult(e) ==
    /\ execs[e] = "active" /\ ~HasResult(e)
    /\ append_event(About("tool.result", e), execs)
    /\ UNCHANGED <<session, execs, runner, call, seen, stray>>

\* record_terminal_execution_event: the status and its event are one step.
CompleteExec(e) ==
    /\ execs[e] = "active" /\ HasResult(e)
    /\ SetExec(e, "completed")
    /\ append_event(About("execution.completed", e), execs')
    /\ UNCHANGED <<session, runner, call, seen, stray>>

FailExec(e) ==
    /\ execs[e] = "active" /\ ~HasResult(e)
    /\ SetExec(e, "failed")
    /\ append_event(About("execution.failed", e), execs')
    /\ UNCHANGED <<session, runner, call, seen, stray>>

EndExecSilently(e) ==
    /\ execs[e] = "active" /\ ~HasResult(e)
    /\ \/ SetExec(e, "canceled") \/ SetExec(e, "outcome_unknown")
    /\ UNCHANGED <<log, session, loops, runner, call, seen, stray>>

\* The session is closed by its user, or with the workflow it is shared by.
Terminate ==
    /\ session = "open"
    /\ session' = "terminated"
    /\ UNCHANGED <<log, execs, loops, runner, call, seen, stray>>
-----------------------------------------------------------------------------
(* Jobs: start, renew, complete and fail *)

\* SESSION_PENDING_ACTIONS_SQL
PendingActions ==
    session = "open" /\ \E e \in Execs : execs[e] \in {"waiting", "active", "outcome_unknown"}

\* A workflow step with a live lease keeps other workers out.
ForeignStep(w) == \E a \in Adapters : call[a].step /\ a # w

\* A start that does not look at the session's pending actions.
CanStartEagerly(i, w) ==
    /\ ~ForeignStep(w)
    /\ \/ /\ loops[i].status = "queued"
          /\ \A k \in DOMAIN loops : loops[k].status # "running"
       \/ loops[i].status = "running" /\ loops[i].lease # "live"

\* A start that leaves running jobs to their worker.
CanStartQueued(i, w) ==
    /\ ~PendingActions
    /\ ~ForeignStep(w)
    /\ loops[i].status = "queued"
    /\ \A k \in DOMAIN loops : loops[k].status # "running"

\* A start that looks at its own job only.
CanStartBeside(i, w) ==
    /\ ~PendingActions
    /\ ~ForeignStep(w)
    /\ \/ loops[i].status = "queued"
       \/ loops[i].status = "running" /\ loops[i].lease # "live"

CanStart(i, w) ==
    /\ ~PendingActions
    /\ ~ForeignStep(w)
    /\ \/ /\ loops[i].status = "queued"
          /\ \A k \in DOMAIN loops : loops[k].status # "running"
       \/ loops[i].status = "running" /\ loops[i].lease # "live"

start_session_loop_job(i, w) ==
    /\ CanStart(i, w)
    /\ loops' = [loops EXCEPT ![i].status = "running", ![i].worker = w,
                              ![i].lease = "live", ![i].starts = @ + 1]

\* An owner check that is content with a running job.
OwnsAnyJob(i, w) == loops[i].status = "running"

\* Renewal, completion and failure ask for the worker's name only.
OwnsJob(i, w) == loops[i].status = "running" /\ loops[i].worker = w

renew_session_loop_job_lease(i, w) ==
    /\ OwnsJob(i, w)
    /\ loops' = [loops EXCEPT ![i].lease = "live"]

complete_session_loop_job(i, w) ==
    /\ OwnsJob(i, w)
    /\ loops' = [loops EXCEPT ![i].status = "completed", ![i].lease = "none",
                              ![i].processed = IF loops[i].end # 0 THEN loops[i].end ELSE @]

fail_session_loop_job(i, w) ==
    /\ OwnsJob(i, w)
    /\ loops' = [loops EXCEPT ![i].status = "failed", ![i].lease = "none"]

LoopLeaseExpires(i) ==
    /\ loops[i].lease = "live"
    /\ loops[i].starts < MaxStarts
    /\ loops' = [loops EXCEPT ![i].lease = "expired"]
    /\ UNCHANGED <<log, session, execs, runner, call, seen, stray>>
-----------------------------------------------------------------------------
(* A worker's turn: run_session_loop_job_as_worker, settle_session_loop_attempt *)

\* successful_provider_completion_for_job: the last completion counts.
TaskCompletedAfter(seq) ==
    seq # 0 /\ \E s \in seq + 1 .. Len(log) :
                  /\ log[s].kind = "complete_task"
                  /\ \A t \in s + 1 .. Len(log) : log[t].kind # "blocked"

Go(r, pc, outcome) == runner' = [runner EXCEPT ![r].pc = pc, ![r].outcome = outcome]
Drop(r) == runner' = [runner EXCEPT ![r] = IdleRunner]

\* The claim; work on a session that is over is settled without a turn.
StartJob(r, i) ==
    /\ runner[r].pc = "idle"
    /\ start_session_loop_job(i, WorkerOf[r])
    /\ runner' = [runner EXCEPT ![r] =
          [pc |-> IF session = "open" THEN "turn" ELSE "settle",
           on |-> i, start |-> loops[i].start, end |-> loops[i].end,
           starts |-> loops[i].starts + 1,
           outcome |-> IF session = "open" THEN "none"
                       ELSE IF TaskCompletedAfter(loops[i].end) THEN "ok"
                       ELSE "terminal"]]
    /\ UNCHANGED <<log, session, execs, call, seen, stray>>

\* A window that is not closed at its end.
WindowBeyond(r) == runner[r].start .. runner[r].end + 1

\* The window of a turn; a job without one gives the model everything.
Window(r) == IF runner[r].start = 0 THEN 1 .. Len(log)
             ELSE runner[r].start .. runner[r].end

\* No approval is pending and no tool call runs.
NothingUnresolved == \A e \in Execs : execs[e] \notin {"waiting", "active"}

\* run_session_loop to its end.  complete_task is refused while actions are
\* unresolved and otherwise closes the session before its events are written.
\* A session closed under the turn refuses its next status change.
FinishTurn(r) ==
    /\ runner[r].pc = "turn"
    /\ \/ /\ session = "open"
          /\ Go(r, "settle", "ok")
          /\ seen' = seen \cup Window(r)
          /\ UNCHANGED <<log, session>>
       \/ /\ session = "open" /\ NothingUnresolved
          /\ session' = "terminated"
          /\ log' = Append(log, Plain("complete_task"))
          /\ Go(r, "settle", "ok")
          /\ seen' = seen \cup Window(r)
       \/ /\ session # "open"
          /\ Go(r, "settle", "terminal")
          /\ UNCHANGED <<log, session, seen>>
       \/ /\ Go(r, "settle", "error")
          /\ UNCHANGED <<log, session, seen>>
    /\ UNCHANGED <<execs, loops, call, stray>>

\* A completion that leaves the session open: the step of a graph whose steps
\* share the session is completed, or the task is blocked.  Its events are
\* projected, and nobody asks whether the job is still the worker's.
CompleteTask(r, kind) ==
    /\ runner[r].pc = "turn" /\ session = "open" /\ NothingUnresolved
    /\ Len(log) < MaxEvents
    /\ append_event(Plain(kind), execs)
    /\ Go(r, "settle", "ok")
    /\ seen' = seen \cup Window(r)
    /\ stray' = (stray \/ loops[runner[r].on].status # "running")
    /\ UNCHANGED <<session, execs, call>>

\* resume_recorded_workflow_completion: the completion of an earlier attempt
\* stands, and the job is settled without a turn.
ResumeCompletion(r) ==
    /\ runner[r].pc = "turn" /\ session = "open"
    /\ TaskCompletedAfter(runner[r].end)
    /\ Go(r, "settle", "ok")
    /\ UNCHANGED <<log, session, execs, loops, call, seen, stray>>

\* The renewal that opens the settlement, also of a lease that expired when
\* nobody took the job.
SettleRenew(r) ==
    /\ runner[r].pc = "settle"
    /\ renew_session_loop_job_lease(runner[r].on, WorkerOf[r])
    /\ Go(r, IF runner[r].outcome = "error" THEN "fail_session" ELSE "ack",
          runner[r].outcome)
    /\ UNCHANGED <<log, session, execs, call, seen, stray>>

FailSession(r) ==
    /\ runner[r].pc = "fail_session"
    /\ session' = "failed"
    /\ Go(r, "ack", "error")
    /\ UNCHANGED <<log, execs, loops, call, seen, stray>>

Acknowledge(r) ==
    /\ runner[r].pc = "ack"
    /\ IF runner[r].outcome = "ok"
       THEN complete_session_loop_job(runner[r].on, WorkerOf[r])
       ELSE fail_session_loop_job(runner[r].on, WorkerOf[r])
    /\ Drop(r)
    /\ UNCHANGED <<log, session, execs, call, seen, stray>>

\* The periodic renewal of a turn; one that comes late revives the lease.
RenewLate(r) ==
    /\ runner[r].pc = "turn"
    /\ loops[runner[r].on].lease = "expired"
    /\ renew_session_loop_job_lease(runner[r].on, WorkerOf[r])
    /\ UNCHANGED <<log, session, execs, runner, call, seen, stray>>

\* A renewal or the acknowledgement finds that the job belongs to another.
LoseJob(r) ==
    /\ runner[r].pc # "idle"
    /\ ~OwnsJob(runner[r].on, WorkerOf[r])
    /\ Drop(r)
    /\ UNCHANGED <<log, session, execs, loops, call, seen, stray>>

CrashRunner(r) ==
    /\ runner[r].pc # "idle"
    /\ loops[runner[r].on].starts < MaxStarts
    /\ Drop(r)
    /\ UNCHANGED <<log, session, execs, loops, call, seen, stray>>
-----------------------------------------------------------------------------
(* Direct callers of enqueue_session_loop *)

\* run_session, create_session with a message and the handlers that run the
\* steps of a workflow: the message is appended, with its projection, and then
\* a job is enqueued for it once more.
RunSession(c) ==
    /\ c \in RunCalls /\ call[c].pc = "idle"
    /\ Len(log) < MaxEvents
    /\ append_event(Plain("input"), execs)
    /\ call' = [call EXCEPT ![c] = [IdleCall EXCEPT !.pc = "appended",
                                                    !.end = Len(log) + 1]]
    /\ UNCHANGED <<session, execs, runner, seen, stray>>

\* run_workflow_compensation_adapter_step: no trigger event, so the window
\* ends at the latest event.
RunAdapter(c) ==
    /\ c \in Adapters /\ call[c].pc = "idle"
    /\ call' = [call EXCEPT ![c] = [IdleCall EXCEPT !.pc = "appended",
                                                    !.end = Len(log),
                                                    !.step = TRUE]]
    /\ UNCHANGED <<log, session, execs, loops, runner, seen, stray>>

Return(c, step) ==
    call' = [call EXCEPT ![c] = [IdleCall EXCEPT !.pc = "done", !.step = step]]

\* A step that is not completed keeps its claim until the lease expires.
GiveUp(c) == Return(c, call[c].step)

StepLeaseExpires(c) ==
    /\ call[c].step
    /\ call' = [call EXCEPT ![c].step = FALSE]
    /\ UNCHANGED <<log, session, execs, loops, runner, seen, stray>>

\* enqueue_session_loop_job_from reads the cursor in a statement of its own.
ReadCursor(c) ==
    /\ call[c].pc = "appended"
    /\ IF session = "open"
       THEN call' = [call EXCEPT ![c].pc = "cursor",
                                 ![c].cursor = IF HighWatermark(loops) > 0
                                               THEN HighWatermark(loops)
                                               ELSE Max({@, call[c].end - 1})]
       ELSE GiveUp(c)
    /\ UNCHANGED <<log, session, execs, loops, runner, seen, stray>>

\* Merging by the caller's values.
MergeReplacing(js, start, end, cursor) ==
    IF QueuedJobs(js) = {}
    THEN Append(js, NewJob(start, end, cursor))
    ELSE [js EXCEPT ![Max(QueuedJobs(js))].start = start,
                    ![Max(QueuedJobs(js))].processed = cursor,
                    ![Max(QueuedJobs(js))].end = end]

\* INSERT ... ON CONFLICT of enqueue_session_loop_job_from: the earlier start.
MergeDirect(js, start, end, cursor) ==
    IF QueuedJobs(js) = {}
    THEN Append(js, NewJob(start, end, cursor))
    ELSE LET i == Max(QueuedJobs(js))
             lower == start # 0 /\ (js[i].start = 0 \/ start < js[i].start)
         IN [js EXCEPT ![i].start = IF lower THEN start ELSE @,
                       ![i].processed = IF lower THEN cursor ELSE @,
                       ![i].end = Max({@, end})]

EnqueueJob(c) ==
    /\ call[c].pc = "cursor"
    /\ LET start == IF call[c].cursor + 1 <= call[c].end THEN call[c].cursor + 1 ELSE 0
       IN loops' = MergeDirect(loops, start, call[c].end, call[c].cursor)
    /\ IF c \in Adapters
       THEN call' = [call EXCEPT ![c].pc = "start", ![c].on = Max(QueuedJobs(loops'))]
       ELSE Return(c, FALSE)
    /\ UNCHANGED <<log, session, execs, runner, seen, stray>>

\* The adapter starts the job it got, merged windows included ...
AdapterStart(c) ==
    /\ call[c].pc = "start"
    /\ IF CanStart(call[c].on, c)
       THEN /\ start_session_loop_job(call[c].on, c)
            /\ call' = [call EXCEPT ![c].pc = "finish"]
       ELSE GiveUp(c) /\ UNCHANGED loops
    /\ UNCHANGED <<log, session, execs, runner, seen, stray>>

\* ... and completes it, since its work is not a model turn.
AdapterFinish(c) ==
    /\ call[c].pc = "finish"
    /\ complete_session_loop_job(call[c].on, c)
    /\ Return(c, FALSE)
    /\ UNCHANGED <<log, session, execs, runner, seen, stray>>

\* The request is dropped, or finds that its job belongs to another worker; a
\* job the adapter started keeps its lease.
DropCall(c) ==
    /\ call[c].pc \notin {"idle", "done"}
    /\ call[c].pc = "finish" => \/ loops[call[c].on].starts < MaxStarts
                               \/ ~OwnsJob(call[c].on, c)
    /\ GiveUp(c)
    /\ UNCHANGED <<log, session, execs, loops, runner, seen, stray>>
-----------------------------------------------------------------------------
\* What happens to an execution once it is asked for.
ExecStep(e) ==
    \/ Approve(e) \/ Reject(e) \/ RecordResult(e)
    \/ CompleteExec(e) \/ FailExec(e) \/ EndExecSilently(e)

RunnerStep(r) ==
    \/ FinishTurn(r) \/ \E kind \in {"complete_task", "blocked"} : CompleteTask(r, kind)
    \/ ResumeCompletion(r) \/ SettleRenew(r) \/ FailSession(r) \/ Acknowledge(r)
    \/ LoseJob(r)

CallStep(c) ==
    \/ ReadCursor(c) \/ EnqueueJob(c) \/ AdapterStart(c) \/ AdapterFinish(c)

LoopNext ==
    \/ AppendInput \/ AppendNote \/ Terminate
    \/ \E e \in Execs : RequestApproval(e) \/ ExecStep(e)
    \/ \E i \in DOMAIN loops : LoopLeaseExpires(i)
    \/ \E r \in Runners : \/ \E i \in DOMAIN loops : StartJob(r, i)
                          \/ RunnerStep(r) \/ RenewLate(r) \/ CrashRunner(r)
    \/ \E c \in RunCalls \cup Adapters :
          RunSession(c) \/ RunAdapter(c) \/ CallStep(c) \/ DropCall(c) \/ StepLeaseExpires(c)

LoopSpec == LoopInit /\ [][LoopNext]_loopVars
-----------------------------------------------------------------------------
(***************************************************************************)
(* Fairness.  A turn and its settlement are polled to their end, the       *)
(* daemon discovers jobs again and again, and the clock passes a lease     *)
(* nobody renews.  Nothing is assumed of approvals and executions.         *)
(***************************************************************************)
Deserted(i) == \A r \in Runners : runner[r].pc = "idle" \/ runner[r].on # i

LoopFairness ==
    /\ \A r \in Runners : WF_loopVars(RunnerStep(r))
    /\ WF_loopVars(\E r \in Runners, i \in DOMAIN loops : StartJob(r, i))
    /\ WF_loopVars(\E i \in DOMAIN loops : Deserted(i) /\ LoopLeaseExpires(i))

FairLoopSpec == LoopSpec /\ LoopFairness
-----------------------------------------------------------------------------
(* Safety *)

InWindow(i, s) == loops[i].start # 0 /\ loops[i].start <= s /\ s <= loops[i].end

\* No event that calls for a turn, and no result of an execution, falls
\* between the windows: once no result is waiting for its completion event,
\* each is in the window of a job that is not lost.  The deferral of the
\* trigger, the start of the first window and the merging of windows have to
\* fit together for this.
NoInputLost ==
    (session = "open" /\ \A s \in DOMAIN log : ~Hidden(log, execs, s)) =>
        \A s \in DOMAIN log :
            log[s].kind # "note" =>
                \E i \in DOMAIN loops : loops[i].status # "failed" /\ InWindow(i, s)

\* The model is never given, and the mark never passes, the result of an
\* execution that is not settled: a started window holds no hidden result,
\* although direct callers enqueue windows without asking for hidden results.
HiddenResultStaysPending ==
    session = "open" =>
        \A i \in DOMAIN loops, s \in DOMAIN log :
            (loops[i].status \in {"running", "completed"} /\ InWindow(i, s)) =>
                ~Hidden(log, execs, s)

\* One job of the session runs and one waits; the unique indexes
\* idx_session_loop_jobs_one_{running,queued}_per_session are never hit.
OneRunsOneWaits ==
    \A i, k \in DOMAIN loops :
        (i # k /\ loops[i].status = loops[k].status) =>
            loops[i].status \in {"completed", "failed"}

\* Without direct callers the windows follow one another, so that no event is
\* given to two jobs.
WindowsFollow ==
    \A i, k \in DOMAIN loops : i < k => loops[i].end < loops[k].start

\* An acknowledged window was in the context of a finished turn: no input of
\* an open session is marked as processed without the model having seen it,
\* although a job may be settled by the completion that an earlier attempt
\* recorded.  The completion does not say whose it is: once a worker that lost
\* its job to another one completed a task, it settles a later job as well.
AcknowledgedWasSeen ==
    (session = "open" /\ ~stray) =>
        \A i \in DOMAIN loops, s \in DOMAIN log :
            (loops[i].status = "completed" /\ InWindow(i, s) /\ log[s].kind = "input")
            => s \in seen

\* The cursor of an open session never moves back, although a late INSERT
\* lowers the start and the processed mark of the queued job.
CursorIsMonotone ==
    [][session' = "open" => HighWatermark(loops') >= HighWatermark(loops)]_loopVars

\* A worker that lost its job to another one cannot acknowledge it.  Workers
\* with the same name are not told apart, so this asks for names of their own.
StaleOwnerIsFenced ==
    [][\A r \in Runners :
          LET i == runner[r].on
          IN (runner[r].pc = "ack" /\ loops'[i].status \in {"completed", "failed"}
              /\ loops[i].status = "running" /\ runner'[r].pc = "idle")
             => runner[r].starts = loops[i].starts]_loopVars
-----------------------------------------------------------------------------
(* Liveness *)

\* An approval is decided and an execution settles.  The execution runtime
\* does not promise it: a finalization may be resumed for ever.
ExecutionsSettle ==
    \A e \in Execs : []<>(execs[e] \notin {"waiting", "active"})

\* Where executions settle, every input is eventually seen by the model,
\* unless the session is closed, waits for an execution whose outcome nobody
\* knows, or had a task completed by a worker that lost its job.
InputsAreSeen ==
    ExecutionsSettle =>
        \A s \in 1 .. MaxEvents + 2 :
            (s \in DOMAIN log /\ log[s].kind = "input")
                ~> \/ s \in seen
                   \/ session # "open" \/ stray
                   \/ \E e \in Execs : execs[e] = "outcome_unknown"
=============================================================================
