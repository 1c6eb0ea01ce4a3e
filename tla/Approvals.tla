------------------------------ MODULE Approvals ------------------------------
(***************************************************************************)
(* Approval of tool calls: the turn that asks for it                       *)
(* (execute_tool_invocation), the API requests and the scheduler's due run *)
(* that approve, reject, modify, escalate or expire it (approval_runtime   *)
(* .rs, store_approvals.rs, handlers/approvals.rs), the commit token that  *)
(* binds it to the approved arguments, and the attempts that execute it.   *)
(*                                                                         *)
(* The execution runtime is the specification ApprovedAction, which        *)
(* ExecutionWorker implements; what is added to it here are the checks the *)
(* attempts make against the approval, the task grant and the token.       *)
(*                                                                         *)
(* A member of Jobs stands for a tool call, its approval and its execution *)
(* job.  Each request reads the approval first and acts on what it read,   *)
(* several awaits later.                                                   *)
(***************************************************************************)
EXTENDS ApprovedAction

CONSTANTS
    Args,            \* tool arguments; the digest of an argument is itself
    NoArgs,          \* normalized_args_hash IS NULL
    Requests,        \* concurrent approval requests of the API
    DueRun,          \* the due run of the scheduler, a request of its own
    Attempts         \* concurrent attempts to execute

ASSUME ApprovalsAssumption ==
    /\ Jobs # {} /\ Args # {}
    /\ NoArgs \notin Args /\ DueRun \notin Requests

VARIABLES
    kind,            \* what the tool and its grant demand of the execution
    approval,        \* approvals: status and escalation
    overdue,         \* expires_at <= now
    call,            \* tool_calls: status, args, normalized_args_hash
    grant,           \* is the task grant still active
    token,           \* approval_commit_tokens: status and digest
    uses,            \* approval_commit_token.consumed events
    events,          \* decision and result events of the session
    asking,          \* where the requesting turn is
    req,             \* where each request is and which approval it serves
    attempt,         \* where each attempt is, its job, the args it read
    decided,         \* history: the args when the approval was granted
    performed,       \* history: the args the tool acted with
    late             \* history: authority had lapsed at the commit

recordVars  == <<approval, call, token, events>>
clockVars   == <<overdue, grant>>
historyVars == <<decided, performed, late>>
vars == <<phase, acted, kind, approval, overdue, call, grant, token, uses,
          events, asking, req, attempt, decided, performed, late>>

(***************************************************************************)
(* "plain" needs no token, "listed" is in the grant's external_write list  *)
(* and needs a token that its executor never consumes, "connector" is an   *)
(* MCP or native connector call of a commit_write grant, "ungranted" one   *)
(* without such a grant.                                                   *)
(***************************************************************************)
ToolKinds == {"plain", "listed", "connector", "ungranted"}

task_grant_requires_approval_commit_token(j) == kind[j] \in {"listed", "connector"}

ConsumesToken(j) == kind[j] \in {"connector", "ungranted"}

\* The events approval.approved, approval.rejected and approval.expired.
Decisions == {"approved", "rejected", "expired"}

Callers == Requests \cup {DueRun}
Steps   == {"approve", "reject", "modify", "escalate", "expire"}

ApprovalRow == [status : {"absent", "pending"} \cup Decisions,
                escalated : BOOLEAN]

CallRow == [status : {"absent", "waiting_approval", "denied", "completed", "failed"},
            args : Args, hash : Args \cup {NoArgs}]

TokenRow == [status : {"none", "issued", "consumed"}, hash : Args \cup {NoArgs}]

EventRow == [job : Jobs, type : Decisions \cup {"denial", "tool.result", "tool.error"}]

RequestState == [step : {"idle", "issue", "enqueue"} \cup Steps, job : Jobs]

AttemptState == [step : {"idle", "checked", "spent", "committed", "lost", "validated",
                         "consumed", "acted"},
                 job : Jobs, args : Args]

ApprovalTypeOK ==
    /\ ActionTypeOK
    /\ kind \in [Jobs -> ToolKinds]
    /\ approval \in [Jobs -> ApprovalRow]
    /\ overdue \in [Jobs -> BOOLEAN]
    /\ call \in [Jobs -> CallRow]
    /\ grant \in [Jobs -> {"active", "withdrawn"}]
    /\ token \in [Jobs -> TokenRow]
    /\ uses \in [Jobs -> Nat]
    /\ events \subseteq EventRow
    /\ asking \in [Jobs -> {"start", "called", "asked", "done"}]
    /\ req \in [Callers -> RequestState]
    /\ attempt \in [Attempts -> AttemptState]
    /\ decided \in [Jobs -> Args \cup {NoArgs}]
    /\ performed \in [Jobs -> Args \cup {NoArgs}]
    /\ late \in [Jobs -> BOOLEAN]

Digest(j, a) ==
    IF task_grant_requires_approval_commit_token(j) THEN a ELSE NoArgs

Event(j, type) == [job |-> j, type |-> type]

\* A tool call is new, or an older release left it waiting behind an approval
\* it had marked expired.
StartWith(legacy) ==
    LET a == CHOOSE a \in Args : TRUE
        k == CHOOSE k \in Jobs : TRUE
    IN
    /\ approval = [j \in Jobs |->
          [status |-> IF j \in legacy THEN "expired" ELSE "absent",
           escalated |-> FALSE]]
    /\ overdue = [j \in Jobs |-> j \in legacy]
    /\ call = [j \in Jobs |->
          [status |-> IF j \in legacy THEN "waiting_approval" ELSE "absent",
           args |-> a, hash |-> Digest(j, a)]]
    /\ asking = [j \in Jobs |-> IF j \in legacy THEN "done" ELSE "start"]
    /\ events = {Event(j, "expired") : j \in legacy}
    /\ req = [c \in Callers |-> [step |-> "idle", job |-> k]]
    /\ attempt = [t \in Attempts |-> [step |-> "idle", job |-> k, args |-> a]]

ApprovalInit ==
    /\ ActionInit
    /\ kind \in [Jobs -> ToolKinds]
    /\ \E legacy \in SUBSET Jobs : StartWith(legacy)
    /\ grant = [j \in Jobs |-> "active"]
    /\ token = [j \in Jobs |-> [status |-> "none", hash |-> NoArgs]]
    /\ uses = [j \in Jobs |-> 0]
    /\ decided = [j \in Jobs |-> NoArgs]
    /\ performed = [j \in Jobs |-> NoArgs]
    /\ late = [j \in Jobs |-> FALSE]
-----------------------------------------------------------------------------
(* The environment *)

Clock(j) ==
    /\ ~overdue[j]
    /\ overdue' = [overdue EXCEPT ![j] = TRUE]
    /\ UNCHANGED <<phase, acted, kind, recordVars, grant, uses, asking, req,
                   attempt, historyVars>>

\* The grant expires, or its step or run ends.
WithdrawGrant(j) ==
    /\ grant[j] = "active"
    /\ grant' = [grant EXCEPT ![j] = "withdrawn"]
    /\ UNCHANGED <<phase, acted, kind, recordVars, overdue, uses, asking, req,
                   attempt, historyVars>>
-----------------------------------------------------------------------------
(* The requesting turn: the approval branch of execute_tool_invocation *)

Ask(j, from, to) ==
    /\ asking[j] = from
    /\ asking' = [asking EXCEPT ![j] = to]
    /\ UNCHANGED <<phase, acted, kind, token, events, clockVars, uses, req,
                   attempt, historyVars>>

\* commit_tool_invocation_start, under a grant that is still active.
CommitInvocation(j) ==
    /\ Ask(j, "start", "called")
    /\ grant[j] = "active"
    /\ call' = [call EXCEPT ![j].status = "waiting_approval"]
    /\ UNCHANGED approval

InsertApproval(j) ==
    /\ Ask(j, "called", "asked")
    /\ approval' = [approval EXCEPT ![j].status = "pending"]
    /\ UNCHANGED call

\* update_tool_call_status, without looking at the status it replaces.
MarkWaiting(j) ==
    /\ Ask(j, "asked", "done")
    /\ call' = [call EXCEPT ![j].status = "waiting_approval"]
    /\ UNCHANGED approval

AbandonInvocation(j) ==
    /\ asking[j] # "start"
    /\ Ask(j, asking[j], "done")
    /\ asking[j] # "done"
    /\ UNCHANGED <<approval, call>>
-----------------------------------------------------------------------------
(* Requests *)

Serve(c, j, step) == req' = [req EXCEPT ![c] = [step |-> step, job |-> j]]
Reply(c) == req' = [req EXCEPT ![c].step = "idle"]

\* The read at the start of decide_approval, modify_approval and
\* escalate_approval; a due approval is expired instead.
ReadForDecision(c, j) ==
    /\ req[c].step = "idle"
    /\ approval[j].status = "pending"
    /\ IF overdue[j] THEN Serve(c, j, "expire")
       ELSE \E step \in {"approve", "reject", "modify", "escalate"} :
               Serve(c, j, step)
    /\ UNCHANGED <<phase, acted, kind, recordVars, clockVars, uses, asking,
                   attempt, historyVars>>

\* expire_approval_record called by its own route, without a look at the clock.
ReadForExpiry(c, j) ==
    /\ req[c].step = "idle"
    /\ approval[j].status \in {"pending", "expired"}
    /\ Serve(c, j, "expire")
    /\ UNCHANGED <<phase, acted, kind, recordVars, clockVars, uses, asking,
                   attempt, historyVars>>

\* A due run that lists pending approvals only.
DueReadPendingOnly(j) ==
    /\ req[DueRun].step = "idle"
    /\ approval[j].status = "pending"
    /\ IF overdue[j] THEN Serve(DueRun, j, "expire")
       ELSE Serve(DueRun, j, "escalate")
    /\ UNCHANGED <<phase, acted, kind, recordVars, clockVars, uses, asking,
                   attempt, historyVars>>

\* execute_due_approval_escalations on one approval of
\* list_approvals_for_due_run.
DueRead(j) ==
    /\ req[DueRun].step = "idle"
    /\ \/ approval[j].status = "pending"
       \/ approval[j].status = "expired" /\ call[j].status = "waiting_approval"
    /\ IF approval[j].status = "expired" \/ overdue[j]
       THEN Serve(DueRun, j, "expire") ELSE Serve(DueRun, j, "escalate")
    /\ UNCHANGED <<phase, acted, kind, recordVars, clockVars, uses, asking,
                   attempt, historyVars>>

\* AppState::decide_approval as a plain UPDATE.
ApproveUnguarded(c) ==
    LET j == req[c].job IN
    /\ req[c].step = "approve"
    /\ approval' = [approval EXCEPT ![j].status = "approved"]
    /\ decided' = [decided EXCEPT ![j] = call[j].args]
    /\ Serve(c, j, "issue")
    /\ UNCHANGED <<phase, acted, kind, call, token, events, clockVars, uses,
                   asking, attempt, performed, late>>

\* AppState::decide_approval: UPDATE ... WHERE status = 'pending'.  It does not
\* look at the clock again.
Approve(c) ==
    LET j == req[c].job IN
    /\ req[c].step = "approve"
    /\ IF approval[j].status = "pending"
       THEN /\ approval' = [approval EXCEPT ![j].status = "approved"]
            /\ decided' = [decided EXCEPT ![j] = call[j].args]
            /\ Serve(c, j, "issue")
       ELSE Reply(c) /\ UNCHANGED <<approval, decided>>
    /\ UNCHANGED <<phase, acted, kind, call, token, events, clockVars, uses,
                   asking, attempt, performed, late>>

\* maybe_issue_approval_commit_token
IssueToken(c) ==
    LET j == req[c].job IN
    /\ req[c].step = "issue"
    /\ IF task_grant_requires_approval_commit_token(j) /\ token[j].status = "none"
       THEN IF call[j].hash = call[j].args
            THEN /\ token' = [token EXCEPT ![j] =
                                 [status |-> "issued", hash |-> call[j].args]]
                 /\ Serve(c, j, "enqueue")
            ELSE Reply(c) /\ UNCHANGED token
       ELSE Serve(c, j, "enqueue") /\ UNCHANGED token
    /\ UNCHANGED <<phase, acted, kind, approval, call, events, clockVars, uses,
                   asking, attempt, historyVars>>

\* The decision event, then execute_approved_tool.
EnqueueApproved(c) ==
    LET j == req[c].job IN
    /\ req[c].step = "enqueue"
    /\ Request(j)
    /\ events' = events \cup {Event(j, "approved")}
    /\ Reply(c)
    /\ UNCHANGED <<kind, approval, call, token, clockVars, uses, asking,
                   attempt, historyVars>>

\* decline_approval_and_tool_call: one transaction for the approval, the tool
\* call and their events.  Repeating the decision is allowed, another decision
\* is an error or, for an expiry, nothing.
decline_approval_and_tool_call(j, decision) ==
    IF approval[j].status \in {"pending", decision}
    THEN /\ approval' = [approval EXCEPT ![j].status = decision]
         /\ call' = [call EXCEPT ![j].status =
                        IF @ = "waiting_approval" THEN "denied" ELSE @]
         /\ events' = events \cup {Event(j, decision)}
               \cup (IF call[j].status \in {"waiting_approval", "denied"}
                     THEN {Event(j, "denial")} ELSE {})
    ELSE UNCHANGED <<approval, call, events>>

Decline(c) ==
    LET j == req[c].job IN
    /\ \/ req[c].step = "reject" /\ decline_approval_and_tool_call(j, "rejected")
       \/ req[c].step = "expire" /\ decline_approval_and_tool_call(j, "expired")
    /\ Reply(c)
    /\ UNCHANGED <<phase, acted, kind, token, clockVars, uses, asking, attempt,
                   historyVars>>

\* A modification whose transaction trusts the handler's checks.
ModifyUnguarded(c) ==
    LET j == req[c].job IN
    /\ req[c].step = "modify"
    /\ \E a \in Args : call' = [call EXCEPT ![j].args = a, ![j].hash = Digest(j, a)]
    /\ Reply(c)
    /\ UNCHANGED <<phase, acted, kind, approval, token, events, clockVars, uses,
                   asking, attempt, historyVars>>

\* AppState::modify_approval: the transaction repeats all checks, and new
\* arguments get a new digest.
Modify(c) ==
    LET j == req[c].job IN
    /\ req[c].step = "modify"
    /\ IF /\ approval[j].status = "pending"
          /\ ~overdue[j]
          /\ call[j].status = "waiting_approval"
       THEN \E a \in Args :
               call' = [call EXCEPT ![j].args = a, ![j].hash = Digest(j, a)]
       ELSE UNCHANGED call
    /\ Reply(c)
    /\ UNCHANGED <<phase, acted, kind, approval, token, events, clockVars, uses,
                   asking, attempt, historyVars>>

\* An escalation that writes back the approval it read.
EscalateWholeRow(c) ==
    LET j == req[c].job IN
    /\ req[c].step = "escalate"
    /\ approval' = [approval EXCEPT ![j] = [status |-> "pending", escalated |-> TRUE]]
    /\ Reply(c)
    /\ UNCHANGED <<phase, acted, kind, call, token, events, clockVars, uses,
                   asking, attempt, historyVars>>

\* escalate_approval_record: the evidence is replaced whatever became of the
\* approval in the meantime.
Escalate(c) ==
    LET j == req[c].job IN
    /\ req[c].step = "escalate"
    /\ approval' = [approval EXCEPT ![j].escalated = TRUE]
    /\ Reply(c)
    /\ UNCHANGED <<phase, acted, kind, call, token, events, clockVars, uses,
                   asking, attempt, historyVars>>

\* The connection drops or the process dies: the rest of the request does not
\* happen.
DropRequest(c) ==
    /\ req[c].step # "idle"
    /\ Reply(c)
    /\ UNCHANGED <<phase, acted, kind, recordVars, clockVars, uses, asking,
                   attempt, historyVars>>
-----------------------------------------------------------------------------
(* Attempts: the checks of run_claimed_execution_job around the commit *)

At(t, step) == attempt[t].step = step
To(t, step) == attempt' = [attempt EXCEPT ![t].step = step]

\* validate_approval_commit_token_for_tool_call: the token of the approval is
\* issued, in time and bound to the arguments about to be used, and the grant
\* is active and of the kind that issues tokens.
validate_approval_commit_token(j, a) ==
    /\ token[j].status = "issued"
    /\ ~overdue[j]
    /\ grant[j] = "active"
    /\ task_grant_requires_approval_commit_token(j)
    /\ token[j].hash = a

\* An attempt reads the approval and the tool call and makes its checks; a
\* token that is consumed already leads to a commit without the tool.
Check(t, j) ==
    /\ At(t, "idle")
    /\ phase[j] = "open"
    /\ approval[j].status = "approved"
    /\ grant[j] = "active"
    /\ \/ call[j].hash = NoArgs
       \/ token[j].status = "consumed"
       \/ validate_approval_commit_token(j, call[j].args)
    /\ attempt' = [attempt EXCEPT ![t] =
          [step |-> IF call[j].hash # NoArgs /\ token[j].status = "consumed"
                    THEN "spent" ELSE "checked",
           job |-> j, args |-> call[j].args]]
    /\ UNCHANGED <<phase, acted, kind, recordVars, clockVars, uses, asking, req,
                   historyVars>>

\* The runtime's commit without its fence.
CommitAgain(t) ==
    LET j == attempt[t].job IN
    /\ At(t, "checked") \/ At(t, "spent")
    /\ Move(j, {"open", "committed"}, "committed")
    /\ To(t, IF At(t, "spent") THEN "lost" ELSE "committed")
    /\ late' = [late EXCEPT ![j] = overdue[j] \/ grant[j] = "withdrawn"]
    /\ UNCHANGED <<kind, recordVars, clockVars, uses, asking, req, decided,
                   performed>>

\* ExecutionCommit::begin
Commit(t) ==
    LET j == attempt[t].job IN
    /\ At(t, "checked") \/ At(t, "spent")
    /\ CommitAction(j)
    /\ To(t, IF At(t, "spent") THEN "lost" ELSE "committed")
    /\ late' = [late EXCEPT ![j] = overdue[j] \/ grant[j] = "withdrawn"]
    /\ UNCHANGED <<kind, recordVars, clockVars, uses, asking, req, decided,
                   performed>>

\* A connector that skips the second validation.
ValidateNothing(t) ==
    LET j == attempt[t].job IN
    /\ At(t, "committed")
    /\ ConsumesToken(j)
    /\ To(t, IF token[j].status # "none" THEN "validated" ELSE "lost")
    /\ UNCHANGED <<phase, acted, kind, recordVars, clockVars, uses, asking, req,
                   historyVars>>

\* The validation inside consume_valid_approval_commit_token_for_tool_call.
Validate(t) ==
    LET j == attempt[t].job IN
    /\ At(t, "committed")
    /\ ConsumesToken(j)
    /\ To(t, IF validate_approval_commit_token(j, attempt[t].args)
             THEN "validated" ELSE "lost")
    /\ UNCHANGED <<phase, acted, kind, recordVars, clockVars, uses, asking, req,
                   historyVars>>

\* consume_approval_commit_token: an UPDATE that does not look at the status.
Consume(t) ==
    LET j == attempt[t].job IN
    /\ At(t, "validated")
    /\ token' = [token EXCEPT ![j].status = "consumed"]
    /\ uses' = [uses EXCEPT ![j] = @ + 1]
    /\ To(t, "consumed")
    /\ UNCHANGED <<phase, acted, kind, approval, call, events, clockVars, asking,
                   req, historyVars>>

\* The tool acts with the arguments the attempt read.
PerformAction(t) ==
    LET j == attempt[t].job IN
    /\ At(t, IF ConsumesToken(j) THEN "consumed" ELSE "committed")
    /\ Act(j)
    /\ performed' = [performed EXCEPT ![j] = attempt[t].args]
    /\ To(t, "acted")
    /\ UNCHANGED <<kind, recordVars, clockVars, uses, asking, req, decided, late>>

\* The durable outcome and the tool call's status, under the claim.  A
\* connector has no failure it is sure of.
RecordOutcome(t) ==
    LET j == attempt[t].job IN
    /\ At(t, "acted")
    /\ phase[j] = "committed"
    /\ \/ /\ events' = events \cup {Event(j, "tool.result")}
          /\ call' = [call EXCEPT ![j].status = "completed"]
       \/ /\ ~ConsumesToken(j)
          /\ events' = events \cup {Event(j, "tool.error")}
          /\ call' = [call EXCEPT ![j].status = "failed"]
    /\ To(t, "idle")
    /\ UNCHANGED <<phase, acted, kind, approval, token, clockVars, uses, asking,
                   req, historyVars>>

\* An error that is safe to retry (commit_approved_ontology_action_proposal).
RetryCommitted(t) ==
    LET j == attempt[t].job IN
    /\ At(t, "committed")
    /\ ~ConsumesToken(j)
    /\ Retreat(j)
    /\ To(t, "idle")
    /\ UNCHANGED <<kind, recordVars, clockVars, uses, asking, req, historyVars>>

\* The attempt ends: an error, a lost claim, a crash.
EndAttempt(t) ==
    /\ ~At(t, "idle")
    /\ To(t, "idle")
    /\ UNCHANGED <<phase, acted, kind, recordVars, clockVars, uses, asking, req,
                   historyVars>>

\* The verdicts of the runtime, by the attempt itself or by recovery.
Settle(j) ==
    /\ \/ CancelAction(j)
       \/ phase[j] = "open" /\ FailAction(j)
       \/ Event(j, "tool.error") \in events /\ FailAction(j)
       \/ Event(j, "tool.result") \in events /\ CompleteAction(j)
       \/ /\ {Event(j, "tool.result"), Event(j, "tool.error")} \cap events = {}
          /\ LoseTrack(j)
    /\ UNCHANGED <<kind, recordVars, clockVars, uses, asking, req, attempt,
                   historyVars>>
-----------------------------------------------------------------------------
CallerStep(c) ==
    \/ Approve(c) \/ IssueToken(c) \/ EnqueueApproved(c) \/ Decline(c)
    \/ Modify(c) \/ Escalate(c)

ApprovalNext ==
    \/ \E j \in Jobs :
          \/ Clock(j) \/ WithdrawGrant(j)
          \/ CommitInvocation(j) \/ InsertApproval(j) \/ MarkWaiting(j)
          \/ AbandonInvocation(j)
          \/ DueRead(j) \/ Settle(j)
    \/ \E c \in Requests, j \in Jobs : ReadForDecision(c, j) \/ ReadForExpiry(c, j)
    \/ \E c \in Callers : CallerStep(c) \/ DropRequest(c)
    \/ \E t \in Attempts, j \in Jobs : Check(t, j)
    \/ \E t \in Attempts :
          \/ Commit(t) \/ Validate(t) \/ Consume(t) \/ PerformAction(t)
          \/ RecordOutcome(t) \/ RetryCommitted(t) \/ EndAttempt(t)

ApprovalSpec == ApprovalInit /\ [][ApprovalNext]_vars

(***************************************************************************)
(* Fairness: the clock runs, the scheduler keeps starting due runs         *)
(* (scheduler_runtime.rs), a due run that is started is polled to its end  *)
(* unless the process dies, which it does finitely often.                  *)
(***************************************************************************)
FairApprovalSpec ==
    /\ ApprovalSpec
    /\ \A j \in Jobs : WF_vars(Clock(j)) /\ WF_vars(DueRead(j))
    /\ WF_vars(CallerStep(DueRun))
    /\ <>[][~DropRequest(DueRun)]_vars
-----------------------------------------------------------------------------
(* Properties *)

Declined(j) == approval[j].status \in {"rejected", "expired"}

\* One decision wins.  Of racing approvals, rejections and expiries exactly one
\* takes effect: a declined call has its denial on record (or is one of an older
\* release that the due run still has to deny), is never enqueued, holds no
\* token and never acts, and the session never sees a second decision.
OneDecision ==
    \A j \in Jobs :
        /\ Declined(j) => /\ phase[j] = "none" /\ acted[j] = 0
                          /\ token[j].status = "none"
                          /\ Event(j, approval[j].status) \in events
                          /\ \/ Event(j, "denial") \in events
                             \/ approval[j].status = "expired"
                                /\ call[j].status = "waiting_approval"
        /\ \A e, f \in events :
              (e.job = j /\ f.job = j /\ {e.type, f.type} \subseteq Decisions) => e = f

\* The tool acts with the arguments that were approved, although requests to
\* modify them race with the approval; for a connector the consumed token
\* carries the digest of these very arguments.
ExactBinding ==
    \A j \in Jobs : acted[j] > 0 =>
        /\ approval[j].status = "approved"
        /\ performed[j] = decided[j]
        /\ kind[j] # "ungranted"
        /\ kind[j] = "connector" =>
              token[j] = [status |-> "consumed", hash |-> performed[j]]

\* A commit token is consumed at most once, although its validation and its
\* consumption are two steps and the UPDATE does not look at the status.
TokenIsSingleUse == \A j \in Jobs : uses[j] <= 1

\* A connector call whose approval was overdue, or whose grant was withdrawn,
\* by the time an attempt committed to it does not act: the validation after
\* the commit point catches what the one before it could not see.
LapsedAuthorityStopsTheWrite ==
    \A j \in Jobs : (kind[j] = "connector" /\ late[j]) => acted[j] = 0

\* A decision is never taken back or replaced, also not by an escalation or a
\* modification that works on an older copy of the approval.
DecisionIsFinal ==
    [][\A j \in Jobs : approval[j].status \in Decisions =>
          approval'[j].status = approval[j].status]_vars

\* A pending approval that is overdue is decided, and a call behind an expired
\* approval (also one an older release left behind) is denied.
OverdueIsResolved ==
    \A j \in Jobs :
        /\ (approval[j].status = "pending" /\ overdue[j]) ~> approval[j].status # "pending"
        /\ (approval[j].status = "expired" /\ call[j].status = "waiting_approval")
              ~> call[j].status = "denied"
=============================================================================
