---------------------------- MODULE WorkflowGraph ----------------------------
(***************************************************************************)
(* One workflow run (workflow_graph_advancement.rs, workflow_graph_core.rs, *)
(* workflow_step_execution.rs, store_workflows.rs): its step runs, the      *)
(* workers that claim and run them, and the advancement of the step graph   *)
(* that follows each of them: dependent steps, branches, joins, the cap on  *)
(* parallel steps, retries, compensation and the end of the run.            *)
(*                                                                          *)
(* Advancement is not a transaction.  It lists the step runs, decides from  *)
(* the list, inserts the new step runs one by one, lists again, and finally *)
(* writes the status of the run from another read; each of these is a step  *)
(* here, and the worker may die between any two.  The session loop job that *)
(* ran the step is acknowledged last, so an expired job leads another       *)
(* worker back to it.  Its lease is renewed during the turn and once before *)
(* the outcome is settled, but nothing after that is fenced by it: a worker *)
(* that stalls for longer than a lease goes on with what it has read, beside *)
(* the worker that took its job over.                                       *)
(***************************************************************************)
EXTENDS Naturals, Sequences, FiniteSets

CONSTANTS
    Keys,            \* step keys
    Definitions,     \* step graphs that the run may have
    Workers,
    NoWorker,
    MaxCrashes,      \* bound on the workers that die
    MaxStalls,       \* bound on the leases that living workers outlast
    MaxRows          \* more step runs than any of the definitions leads to

\* A validated step graph.  A cap of 0 is no cap.
DefinitionType ==
    [graph : Seq(Keys), starts : SUBSET Keys, deps : [Keys -> SUBSET Keys],
     min : [Keys -> Nat], sources : [Keys -> SUBSET Keys],
     attempts : [Keys -> Nat \ {0}], delayed : SUBSET Keys,
     conditional : SUBSET Keys, isolated : SUBSET Keys, cap : Nat]

\* No key is duplicated, no step depends on itself, and some step starts.
ASSUME GraphAssumption ==
    /\ IsFiniteSet(Keys) /\ MaxCrashes \in Nat /\ MaxStalls \in Nat /\ MaxRows \in Nat
    /\ NoWorker \notin Workers
    /\ \A d \in Definitions :
          /\ d \in DefinitionType
          /\ \A i, j \in DOMAIN d.graph : d.graph[i] = d.graph[j] => i = j
          /\ d.starts # {} /\ \A k \in d.starts : \E i \in DOMAIN d.graph : d.graph[i] = k
          /\ \A k \in Keys : k \notin d.deps[k]

VARIABLES
    def,             \* the definition of the run
    run,             \* workflow_runs.status
    rows,            \* workflow_step_runs in the order of created_at: their key
                     \* and status, claimed_by_worker, and the status and the
                     \* worker_id of their session loop job
    session,         \* status of the primary session
    worker,          \* what each worker is doing and what it has read
    crashes,
    stalls           \* leases that living workers have outlasted

vars == <<def, run, rows, session, worker, crashes, stalls>>

Executable == {"queued", "running", "requires_action"}
Ended      == {"completed", "failed", "canceled"}
\* "blocked" is skipped with the reason dependency_failed.
Successful == {"completed", "skipped", "blocked"}
Terminal   == Successful \cup {"failed", "canceled"}
Active     == {"running", "requires_action"}
RowStatus  == Terminal \cup Active \cup {"queued", "scheduled"}
\* A lost job still has the status running, but its lease has expired.
JobStatus  == {"none", "held", "lost", "done"}

\* What a worker has read: was is the status in its copy of the step, which is
\* its own claim or, in a job that is not the first of the step, still to be read.
Idle == [at |-> "idle", row |-> 0, run |-> "queued", todo |-> {}, target |-> "running",
         was |-> "none"]

\* No living worker has outlasted a lease.
Punctual == stalls = 0

\* Also: a step that has an outcome never gets another turn.
GraphTypeOK ==
    /\ run \in Executable \cup Ended
    /\ \A i \in DOMAIN rows :
          rows[i] \in [key : Keys, status : RowStatus, job : JobStatus,
                       by : Workers \cup {NoWorker}, owner : Workers \cup {NoWorker}]
    /\ session \in {"open", "failed", "terminated"}
    /\ \A w \in Workers :
          /\ worker[w].row \in 0..Len(rows)
          /\ worker[w].run \in Executable \cup Ended
          /\ worker[w].todo \subseteq [key : Keys, status : {"queued", "skipped", "blocked"}]
          /\ Punctual /\ worker[w].at \in {"claimed", "turn", "settle", "record"} =>
                rows[worker[w].row].status \in Active

NewRow(k, s) == [key |-> k, status |-> s, job |-> "none", by |-> NoWorker, owner |-> NoWorker]

Steps == {def.graph[i] : i \in DOMAIN def.graph}
Position(k) == CHOOSE i \in DOMAIN def.graph : def.graph[i] = k

\* materialize_workflow_graph_start_steps has run, in the order of the graph.
GraphInit ==
    /\ def \in Definitions
    /\ run = "queued"
    /\ \E start \in [1..Cardinality(def.starts) -> def.starts] :
          /\ \A i, j \in DOMAIN start : i < j => Position(start[i]) < Position(start[j])
          /\ rows = [i \in DOMAIN start |-> NewRow(start[i], "queued")]
    /\ session = "open"
    /\ worker = [w \in Workers |-> Idle]
    /\ crashes = 0 /\ stalls = 0

Shared(i) == rows[i].key \notin def.isolated
SameSession(i, j) == i = j \/ (Shared(i) /\ Shared(j))

\* Mutant: a job whose lease has expired does not occupy its session.
LiveJobRuns(i) == \E j \in DOMAIN rows : SameSession(i, j) /\ rows[j].job = "held"

JobRuns(i) == \E j \in DOMAIN rows :
                  SameSession(i, j) /\ rows[j].job \in {"held", "lost"}
At(w, at) == worker[w].at = at
Go(w, at) == worker' = [worker EXCEPT ![w].at = at]

\* The worker has started a session loop job for its step.
Working(w) ==
    worker[w].row # 0 /\ worker[w].at \notin {"idle", "claim", "claimed", "late"}

\* The fence of renew_session_loop_job_lease and complete_session_loop_job,
\* which do not look at the lease.
HasJob(w) ==
    LET i == worker[w].row IN
    Working(w) /\ rows[i].owner = w /\ rows[i].job \in {"held", "lost"}

\* The job of a worker that goes away expires.
Lapse(w) ==
    IF HasJob(w) THEN [rows EXCEPT ![worker[w].row].job = "lost"] ELSE rows
-----------------------------------------------------------------------------
(* Claiming and running a step *)

\* Claimed by a worker whose lease expired before it started the session loop job.
Abandoned(i) ==
    /\ rows[i].status = "running" /\ rows[i].job = "none"
    /\ \A w \in Workers : worker[w].row # i \/ ~At(w, "claimed")

\* claim_workflow_step_run up to its store call: the run and session it reads.
Pick(w, i) ==
    /\ At(w, "idle")
    /\ rows[i].status = "queued" \/ Abandoned(i)
    /\ run \in Executable
    /\ Shared(i) => session = "open"
    /\ worker' = [worker EXCEPT ![w] = [Idle EXCEPT !.at = "claim", !.row = i, !.run = run]]
    /\ UNCHANGED <<def, run, rows, session, crashes, stalls>>

Occupied(i) ==
    \/ JobRuns(i)
    \/ \E j \in DOMAIN rows : j # i /\ SameSession(i, j) /\ rows[j].status \in Active

claim_workflow_step_run_if_available(w) ==
    LET i == worker[w].row IN
    /\ At(w, "claim")
    /\ IF ~Occupied(i) /\ (rows[i].status = "queued" \/ Abandoned(i))
       THEN /\ rows' = [rows EXCEPT ![i] = [@ EXCEPT !.status = "running", !.by = w]]
            /\ Go(w, "claimed")
       ELSE worker' = [worker EXCEPT ![w] = Idle] /\ UNCHANGED rows
    /\ UNCHANGED <<def, run, session, crashes, stalls>>

\* "session has a live workflow step owner".
ForeignClaim(w, i) ==
    \E v \in Workers \ {w} : At(v, "claimed") /\ SameSession(worker[v].row, i)

Start(i, w) == [rows EXCEPT ![i] = [@ EXCEPT !.job = "held", !.owner = w]]

\* start_session_loop_job after the worker's own claim, which may have expired.
StartJob(w) ==
    LET i == worker[w].row IN
    /\ At(w, "claimed") \/ At(w, "late")
    /\ IF JobRuns(i) \/ ForeignClaim(w, i)
       THEN worker' = [worker EXCEPT ![w] = Idle] /\ UNCHANGED rows
       ELSE /\ rows' = Start(i, w)
            /\ worker' = [worker EXCEPT ![w].at = "turn", ![w].was = "running"]
    /\ UNCHANGED <<def, run, session, crashes, stalls>>

\* A later job of the session: input for a step that waits.
Resume(w, i) ==
    /\ At(w, "idle")
    /\ rows[i].status \in Active /\ rows[i].job = "done"
    /\ ~JobRuns(i) /\ ~ForeignClaim(w, i)
    /\ rows' = Start(i, w)
    /\ worker' = [worker EXCEPT ![w] = [Idle EXCEPT !.at = "turn", !.row = i]]
    /\ UNCHANGED <<def, run, session, crashes, stalls>>

\* Mutant: an expired job always gets another turn.
AnotherTurn(i) == "turn"

\* Mutant: a step that was already recorded as completed is not looked at.
NothingToResume(i) == "ack"

\* What a worker does with the expired job of step i: an unfinished step gets
\* another turn, a recorded completion in the shared session is advanced again.
resume_recorded_workflow_completion(i) ==
    IF rows[i].status \in Active THEN "turn"
    ELSE IF rows[i].status # "completed" \/ ~Shared(i) \/ session # "open" THEN "ack"
    ELSE IF run = "completed" THEN "finish"
    ELSE IF run \in Executable THEN "scan" ELSE "ack"

TakeOver(w, i) ==
    /\ At(w, "idle") /\ rows[i].job = "lost" /\ ~ForeignClaim(w, i)
    /\ rows' = Start(i, w)
    /\ worker' = [worker EXCEPT ![w] =
          [Idle EXCEPT !.at = resume_recorded_workflow_completion(i), !.row = i, !.run = run]]
    /\ UNCHANGED <<def, run, session, crashes, stalls>>
-----------------------------------------------------------------------------
(* The outcome of a turn *)

\* settle_session_loop_attempt renews the lease, if nobody took the job over.
Settle(w) ==
    /\ At(w, "turn")
    /\ IF HasJob(w)
       THEN /\ rows' = [rows EXCEPT ![worker[w].row].job = "held"]
            /\ Go(w, "settle")
       ELSE worker' = [worker EXCEPT ![w] = Idle] /\ UNCHANGED rows
    /\ UNCHANGED <<def, run, session, crashes, stalls>>

\* The loop returned an error.
FailSession(w) ==
    /\ At(w, "settle") /\ Shared(worker[w].row) /\ session = "open"
    /\ session' = "failed"
    /\ UNCHANGED <<def, run, rows, worker, crashes, stalls>>

\* managed_workflow_step_outcome.
Outcomes(i) ==
    CASE ~Shared(i)             -> {"completed", "failed", "canceled"} \cup Active
      [] session = "open"       -> {"completed"} \cup Active
      [] session = "failed"     -> {"failed"}
      [] session = "terminated" -> {"completed", "failed", "canceled"}

\* update_workflow_step_after_worker_session with the worker's own claim.
Conclude(w, o) ==
    /\ At(w, "settle") /\ worker[w].was = "running" /\ o \in Outcomes(worker[w].row)
    /\ worker' = [worker EXCEPT ![w].at = "record", ![w].target = o]
    /\ UNCHANGED <<def, run, rows, session, crashes, stalls>>

\* An error leaves the job to its lease.
Abort(w) ==
    /\ rows' = Lapse(w)
    /\ worker' = [worker EXCEPT ![w] = Idle]

\* adopt_workflow_step_for_loop: only with a live job.
Adoptable(w, i) == HasJob(w) /\ rows[i].job = "held"

\* reconcile_workflow_steps_after_session_loop_job reads the step and the run, and
\* the worker makes the claim of another one its own.
Reconcile(w, o) ==
    LET i == worker[w].row
        foreign == rows[i].status = "running" /\ rows[i].by # w
    IN
    /\ At(w, "settle") /\ worker[w].was = "none" /\ o \in Outcomes(i)
    /\ \/ /\ rows[i].status \notin Active
          /\ Go(w, "ack") /\ UNCHANGED rows
       \/ /\ rows[i].status \in Active /\ (foreign => Adoptable(w, i))
          /\ rows' = IF foreign THEN [rows EXCEPT ![i].by = w] ELSE rows
          /\ worker' = [worker EXCEPT ![w] = [Idle EXCEPT !.at = "record", !.row = i, !.run = run,
                                                          !.target = o, !.was = rows[i].status]]
       \/ /\ foreign /\ ~Adoptable(w, i)
          /\ Abort(w)
    /\ UNCHANGED <<def, run, session, crashes, stalls>>

\* Where the advancement after the step begins: the worker compares the outcome
\* with its copy of the step.
FirstAdvance(was, o) ==
    IF o = was THEN "ack"
    ELSE IF o \in Active THEN "write"
    ELSE IF o = "completed" THEN "scan" ELSE "failed"

\* update_claimed_workflow_step_run: the fence is the claim, and none for a step
\* that waits.
Record(w) ==
    LET i == worker[w].row
        o == worker[w].target
    IN
    /\ At(w, "record")
    /\ IF rows[i].status = "requires_action" \/ (rows[i].status = "running" /\ rows[i].by = w)
       THEN /\ rows' = [rows EXCEPT ![i] = [@ EXCEPT !.status = o, !.by = w]]
            /\ worker' = [worker EXCEPT ![w].at = FirstAdvance(worker[w].was, o),
                                        ![w].target = IF o \in Active THEN o ELSE "running"]
       ELSE Abort(w)
    /\ UNCHANGED <<def, run, session, crashes, stalls>>

Ack(w) ==
    /\ At(w, "ack")
    /\ rows' = IF HasJob(w) THEN [rows EXCEPT ![worker[w].row].job = "done"] ELSE rows
    /\ worker' = [worker EXCEPT ![w] = Idle]
    /\ UNCHANGED <<def, run, session, crashes, stalls>>
-----------------------------------------------------------------------------
(* Advancing the graph *)

Of(k) == {i \in DOMAIN rows : rows[i].key = k}
Exists(k) == Of(k) # {}
\* workflow_graph_latest_step, and the last entry of a map by key.
Latest(k) == rows[CHOOSE i \in Of(k) : \A j \in Of(k) : j <= i]
Succeeded(k) == Exists(k) /\ Latest(k).status \in Successful

\* Mutant: every join is a join of any.
AnyReady(k) == \E d \in def.deps[k] : Succeeded(d)

workflow_graph_fan_in_ready(k) ==
    Cardinality({d \in def.deps[k] : Succeeded(d)}) >= def.min[k]

\* Mutant: step keys are not reserved by the step runs that exist.
ReadyAgain ==
    {k \in Steps : def.deps[k] # {} /\ workflow_graph_fan_in_ready(k)
                  /\ \A i \in Of(k) : rows[i].status = "completed"}

workflow_graph_ready_steps ==
    {k \in Steps : def.deps[k] # {} /\ ~Exists(k) /\ workflow_graph_fan_in_ready(k)}

workflow_graph_active_parallel_count ==
    Cardinality({i \in DOMAIN rows : rows[i].status \notin Terminal})

\* Mutant: the steps of one pass are not counted.
RoomBefore(k, ready, off) ==
    def.cap = 0 \/ workflow_graph_active_parallel_count < def.cap

\* The ready steps of one pass are taken in the order of the graph, each that
\* is queued takes a place.
HasRoom(k, ready, off) ==
    \/ def.cap = 0
    \/ workflow_graph_active_parallel_count
         + Cardinality({r \in ready \ off : Position(r) < Position(k)}) < def.cap

\* One pass of the loop of advance_workflow_graph_after_step_update; off are
\* the steps whose branch condition is false.
Scan(w) ==
    LET ready == workflow_graph_ready_steps IN
    /\ At(w, "scan")
    /\ \E off \in SUBSET (ready \cap def.conditional) :
          LET taken == {k \in ready : HasRoom(k, ready, off)}
              todo == {[key |-> k, status |-> IF k \in off THEN "skipped" ELSE "queued"] :
                          k \in taken}
          IN worker' = [worker EXCEPT ![w].at = IF todo = {} THEN "look" ELSE "create",
                                      ![w].todo = todo]
    /\ UNCHANGED <<def, run, rows, session, crashes, stalls>>

Blocking == {k \in Keys : Exists(k) /\ Latest(k).status \in {"failed", "canceled", "blocked"}}

\* One pass of materialize_workflow_graph_failure_policy_steps.
FailurePolicyApplies(k, failed) ==
    /\ ~Exists(k)
    /\ \/ failed \in def.sources[k]
       \/ def.sources[k] = {} /\ def.deps[k] \cap Blocking # {}

FailurePolicy(w) ==
    LET failed == rows[worker[w].row].key
        taken == {k \in Steps : FailurePolicyApplies(k, failed)}
        todo == {[key |-> k, status |-> IF failed \in def.sources[k] THEN "queued" ELSE "blocked"] :
                    k \in taken}
    IN /\ At(w, "policy")
       /\ worker' = [worker EXCEPT ![w].at = IF todo = {} THEN "look" ELSE "create",
                                   ![w].todo = todo]
       /\ UNCHANGED <<def, run, rows, session, crashes, stalls>>

AttemptsLeft(k) == Cardinality(Of(k)) < def.attempts[k]

\* advance_workflow_graph_after_step_failure.
StepFailed(w) ==
    LET r == rows[worker[w].row] IN
    /\ At(w, "failed")
    /\ Go(w, IF r.status = "failed" /\ AttemptsLeft(r.key) THEN "retry" ELSE "policy")
    /\ UNCHANGED <<def, run, rows, session, crashes, stalls>>

Retry(w) ==
    LET k == rows[worker[w].row].key IN
    /\ At(w, "retry")
    /\ IF run \in Executable
       THEN /\ rows' = Append(rows, NewRow(k, IF k \in def.delayed THEN "scheduled" ELSE "queued"))
            /\ worker' = [worker EXCEPT ![w].at = "write", ![w].target = "running"]
       ELSE Abort(w)
    /\ UNCHANGED <<def, run, session, crashes, stalls>>

\* create_workflow_step_run, in the order of the graph: the locked run must be
\* executable.
CreateNext(w) ==
    \E next \in worker[w].todo :
       LET left == worker[w].todo \ {next}
           again == IF rows[worker[w].row].status = "completed" THEN "scan" ELSE "policy"
       IN /\ At(w, "create")
          /\ \A other \in left : Position(next.key) < Position(other.key)
          /\ IF run \in Executable
             THEN /\ rows' = Append(rows, NewRow(next.key, next.status))
                  /\ worker' = [worker EXCEPT ![w].todo = left,
                                              ![w].at = IF left = {} THEN again ELSE "create"]
             ELSE Abort(w)
          /\ UNCHANGED <<def, run, session, crashes, stalls>>

\* activate_due_workflow_steps_for_run.
ActivateDue(w, i) ==
    /\ At(w, "idle") /\ rows[i].status = "scheduled" /\ run \notin Ended
    /\ rows' = [rows EXCEPT ![i].status = "queued"]
    /\ worker' = [worker EXCEPT ![w] = [Idle EXCEPT !.at = "write", !.run = run]]
    /\ UNCHANGED <<def, run, session, crashes, stalls>>
-----------------------------------------------------------------------------
(* The status of the run *)

\* finalize_workflow_graph_after_transition_policy reads the run again.
Look(w) ==
    /\ At(w, "look")
    /\ worker' = [worker EXCEPT ![w].run = run, ![w].at = "completed?"]
    /\ UNCHANGED <<def, run, rows, session, crashes, stalls>>

Decide(w, status) ==
    worker' = [worker EXCEPT ![w].at = "write", ![w].target = status]

\* Mutant: the run is complete when no step is left to do.
AllRowsSucceeded == \A i \in DOMAIN rows : rows[i].status \in Successful

workflow_graph_run_completed == \A i \in DOMAIN def.graph : Succeeded(def.graph[i])

CheckCompleted(w) ==
    /\ At(w, "completed?")
    /\ IF workflow_graph_run_completed THEN Decide(w, "completed") ELSE Go(w, "failed?")
    /\ UNCHANGED <<def, run, rows, session, crashes, stalls>>

Some(status) == \E i \in DOMAIN rows : rows[i].status = status

workflow_graph_terminal_failure_status ==
    IF \E i \in DOMAIN rows : rows[i].status \notin Terminal THEN "none"
    ELSE IF Some("failed") THEN "failed"
    ELSE IF Some("canceled") THEN "canceled" ELSE "none"

CheckFailed(w) ==
    /\ At(w, "failed?")
    /\ IF workflow_graph_terminal_failure_status = "none" THEN Go(w, "action?")
       ELSE Decide(w, workflow_graph_terminal_failure_status)
    /\ UNCHANGED <<def, run, rows, session, crashes, stalls>>

CheckAction(w) ==
    /\ At(w, "action?")
    /\ Decide(w, IF Some("requires_action") THEN "requires_action" ELSE "running")
    /\ UNCHANGED <<def, run, rows, session, crashes, stalls>>

\* Compares with the status that was read, then overwrites whatever is there.
update_workflow_run_status_and_record(w) ==
    /\ At(w, "write")
    /\ run' = IF worker[w].run = worker[w].target THEN run ELSE worker[w].target
    /\ Go(w, IF worker[w].target = "completed" THEN "finish" ELSE "ack")
    /\ UNCHANGED <<def, rows, session, crashes, stalls>>

finish_completed_workflow_session(w) ==
    /\ At(w, "finish")
    /\ session' = IF session = "open" THEN "terminated" ELSE session
    /\ Go(w, "ack")
    /\ UNCHANGED <<def, run, rows, crashes, stalls>>

\* A user ends the session.
TerminateSession ==
    /\ session = "open"
    /\ session' = "terminated"
    /\ UNCHANGED <<def, run, rows, worker, crashes, stalls>>

\* The worker dies.
Crash(w) ==
    /\ ~At(w, "idle") /\ crashes < MaxCrashes
    /\ Abort(w)
    /\ crashes' = crashes + 1
    /\ UNCHANGED <<def, run, session, stalls>>

\* The worker lives, but so slowly that a lease expires: that of its job, or that
\* of its claim before it has a job.
Stall(w) ==
    /\ stalls < MaxStalls
    /\ \/ /\ HasJob(w) /\ rows[worker[w].row].job = "held"
          /\ rows' = Lapse(w) /\ UNCHANGED worker
       \/ At(w, "claimed") /\ Go(w, "late") /\ UNCHANGED rows
    /\ stalls' = stalls + 1
    /\ UNCHANGED <<def, run, session, crashes>>
-----------------------------------------------------------------------------
OwnStep(w) ==
    \/ claim_workflow_step_run_if_available(w) \/ StartJob(w)
    \/ Settle(w) \/ Record(w) \/ Ack(w)
    \/ Scan(w) \/ StepFailed(w) \/ FailurePolicy(w) \/ Retry(w) \/ CreateNext(w)
    \/ Look(w) \/ CheckCompleted(w) \/ CheckFailed(w) \/ CheckAction(w)
    \/ update_workflow_run_status_and_record(w) \/ finish_completed_workflow_session(w)

Starts(w) == \E i \in DOMAIN rows :
                 Pick(w, i) \/ Resume(w, i) \/ TakeOver(w, i) \/ ActivateDue(w, i)

GraphNext ==
    \/ \E w \in Workers :
          OwnStep(w) \/ Starts(w) \/ FailSession(w) \/ Crash(w) \/ Stall(w)
          \/ \E o \in RowStatus : Conclude(w, o) \/ Reconcile(w, o)
    \/ TerminateSession

\* The daemon's passes find every step and job that is ready, workers go on,
\* and an agent that gets enough turns completes its task.
GraphSpec ==
    /\ GraphInit /\ [][GraphNext]_vars
    /\ \A w \in Workers : WF_vars(OwnStep(w))
    /\ \A i \in 1..MaxRows :
          SF_vars(\E w \in Workers : i \in DOMAIN rows /\ (Pick(w, i) \/ Resume(w, i) \/ TakeOver(w, i)))
    /\ SF_vars(\E w \in Workers : Conclude(w, "completed") \/ Reconcile(w, "completed"))
-----------------------------------------------------------------------------
(* Properties *)

\* A step key gets one step run, and one more for each retry its policy
\* allows, although advancement is interrupted halfway and done again (the
\* comment on resume_recorded_workflow_completion: "Graph materialization
\* already reserves step keys").  The insert itself checks no key: a worker that
\* outlasts its lease may insert a step once more.
KeysAreReserved == \A k \in Keys : Cardinality(Of(k)) <= def.attempts[k] + stalls

\* A step that was started had the dependencies its join asks for, and a
\* dependency that was skipped because something failed is none of them
\* (workflow_graph_fan_in_ready, which counts every skipped step).
DependenciesHold ==
    \A i \in DOMAIN rows :
        LET k == rows[i].key IN
        (/\ rows[i].status \in Active \cup {"completed"}
         /\ k \notin def.starts /\ def.sources[k] = {})
            => Cardinality({d \in def.deps[k] : \E j \in Of(d) :
                   rows[j].status \in {"completed", "skipped"}}) >= def.min[k]

\* No more steps are open than fan_out.max_parallel, however often the ready
\* steps are deferred and looked for again; a worker that outlasts its lease may
\* insert the steps of one pass on top.
FanOutIsCapped ==
    def.cap # 0 => workflow_graph_active_parallel_count <= def.cap * (1 + stalls)

\* While no worker outlasts a lease, the run ends only after terminal graph
\* state is recorded: nothing is left to do, a completed run has every step and
\* a failed one a failed step.
EndedRunIsSettled ==
    Punctual /\ run \in Ended =>
        /\ \A i \in DOMAIN rows : rows[i].status \in Terminal
        /\ run = "completed" => \A i \in DOMAIN def.graph : Succeeded(def.graph[i])
        /\ run # "completed" => Some(run)

\* While no worker outlasts a lease, an ended run is never reopened by a worker
\* that still holds an older copy of it (update_workflow_run_status_and_record
\* compares with that copy only).
RunEndIsFinal == [][Punctual /\ run' # run => run \notin Ended]_vars

Undisturbed ==
    /\ session = "open" \/ run = "completed"
    /\ Punctual
    /\ ~Some("failed") /\ ~Some("canceled")

\* A run without compensation steps in which no step fails and no living worker
\* outlasts its lease completes and closes its session, although workers die
\* between the recorded completion of a step and its advancement, steps are
\* deferred by the cap and agents wait.
RunCompletes ==
    (\A k \in Keys : def.sources[k] = {}) /\ []Undisturbed
        => <>(run = "completed" /\ session = "terminated")
=============================================================================
