--------------------------- MODULE ApprovalsProofs ---------------------------
(***************************************************************************)
(* Proofs about Approvals, for any number of tool calls, arguments,        *)
(* concurrent requests and attempts: the types, that one decision wins and *)
(* stays, that the tool acts with the approved arguments, that a commit    *)
(* token is consumed at most once, and that authority which had lapsed at  *)
(* the commit stops the write of a connector.                              *)
(***************************************************************************)
EXTENDS Approvals, TLAPS

-----------------------------------------------------------------------------
(* The inductive invariant *)

\* What the approval, the tool call, the requesting turn and the session's
\* events say about each other.  Nothing is enqueued, no token exists and
\* nothing happened before the approval is granted.
RecordInv(j) ==
    /\ asking[j] \in {"start", "called"} => approval[j].status = "absent"
    /\ asking[j] = "called" => call[j].status = "waiting_approval"
    /\ approval[j].status = "pending" => call[j].status = "waiting_approval"
    /\ \A d \in Decisions : Event(j, d) \in events => approval[j].status = d
    /\ Declined(j) => /\ Event(j, approval[j].status) \in events
                      /\ \/ Event(j, "denial") \in events
                         \/ /\ approval[j].status = "expired"
                            /\ call[j].status = "waiting_approval"
    /\ approval[j].status # "approved" =>
          phase[j] = "none" /\ token[j].status = "none"

\* What binds the approval, the token and the effect to the arguments: the
\* arguments are the ones approved from the decision on, a token carries their
\* digest, and nothing was consumed or done before an attempt committed.
NotCommitted(p) == p \in {"none", "open", "canceled"}

BindingInv(j) ==
    /\ call[j].hash = Digest(j, call[j].args)
    /\ approval[j].status = "approved" => decided[j] = call[j].args
    /\ token[j].status # "none" => /\ task_grant_requires_approval_commit_token(j)
                                   /\ token[j].hash = call[j].args
    /\ NotCommitted(phase[j]) => /\ acted[j] = 0 /\ uses[j] = 0
                                 /\ token[j].status # "consumed"
    /\ ~ConsumesToken(j) => uses[j] = 0 /\ token[j].status # "consumed"
    /\ uses[j] <= 1
    /\ acted[j] > 0 => /\ performed[j] = decided[j]
                       /\ kind[j] # "ungranted"
                       /\ kind[j] = "connector" =>
                             token[j].status = "consumed" /\ ~late[j]
    /\ late[j] => overdue[j] \/ grant[j] = "withdrawn"

\* A request that is about to issue the token or to enqueue the job has won.
CallerInv(c) ==
    req[c].step \in {"issue", "enqueue"} => approval[req[c].job].status = "approved"

\* The attempt is past the commit point.
Past(t) == attempt[t].step \in {"committed", "validated", "consumed", "acted"}

\* What an attempt may rely on after each of its checks.
AttemptInv(t) ==
    LET j == attempt[t].job IN
    /\ ~At(t, "idle") => /\ approval[j].status = "approved"
                         /\ attempt[t].args = decided[j]
    /\ Past(t) => ~NotCommitted(phase[j])
    /\ At(t, "committed") \/ At(t, "validated") => acted[j] = 0 /\ uses[j] = 0
    /\ At(t, "validated") \/ At(t, "consumed") =>
          /\ kind[j] = "connector" /\ ~late[j]
          /\ acted[j] = 0 /\ token[j].status # "none"
    /\ At(t, "consumed") => token[j].status = "consumed"

\* No two attempts are past the commit point of one action.
Alone ==
    \A t, u \in Attempts :
        Past(t) /\ Past(u) /\ attempt[t].job = attempt[u].job => t = u

ApprovalInv ==
    /\ ApprovalTypeOK
    /\ \A j \in Jobs : RecordInv(j) /\ BindingInv(j)
    /\ \A c \in Callers : CallerInv(c)
    /\ \A t \in Attempts : AttemptInv(t)
    /\ Alone
-----------------------------------------------------------------------------
(* Type correctness *)

LEMMA InitType == ApprovalInit => ApprovalTypeOK
  <1> SUFFICES ASSUME ApprovalInit PROVE ApprovalTypeOK
    OBVIOUS
  <1>1. PICK legacy \in SUBSET Jobs : StartWith(legacy)
    BY DEF ApprovalInit
  <1>2. (CHOOSE a \in Args : TRUE) \in Args /\ (CHOOSE k \in Jobs : TRUE) \in Jobs
    BY ApprovalsAssumption
  <1>3. ActionTypeOK
    BY DEF ApprovalInit, ActionInit, ActionTypeOK, Phases, Verdicts
  <1>4. /\ approval \in [Jobs -> ApprovalRow]
        /\ overdue \in [Jobs -> BOOLEAN]
        /\ asking \in [Jobs -> {"start", "called", "asked", "done"}]
    BY <1>1 DEF StartWith, ApprovalRow, Decisions
  <1>5. call \in [Jobs -> CallRow]
    BY <1>1, <1>2 DEF StartWith, Digest, CallRow
  <1>6. events \subseteq EventRow
    BY <1>1 DEF StartWith, Event, Decisions, EventRow
  <1>7. /\ req \in [Callers -> RequestState]
        /\ attempt \in [Attempts -> AttemptState]
    BY <1>1, <1>2 DEF StartWith, RequestState, AttemptState
  <1>8. token \in [Jobs -> TokenRow]
    BY DEF ApprovalInit, TokenRow
  <1> QED
    BY <1>3, <1>4, <1>5, <1>6, <1>7, <1>8 DEF ApprovalInit, ApprovalTypeOK

\* The rows of the records stay rows when a field is assigned.
LEMMA CallStatusType ==
  ASSUME ApprovalTypeOK, NEW j \in Jobs,
         NEW s \in {"absent", "waiting_approval", "denied", "completed", "failed"}
  PROVE  [call EXCEPT ![j].status = s] \in [Jobs -> CallRow]
  <1>1. [call[j] EXCEPT !.status = s] \in CallRow
    BY DEF ApprovalTypeOK, CallRow
  <1> QED
    BY <1>1 DEF ApprovalTypeOK

LEMMA ApprovalStatusType ==
  ASSUME ApprovalTypeOK, NEW j \in Jobs,
         NEW s \in {"absent", "pending"} \cup Decisions
  PROVE  [approval EXCEPT ![j].status = s] \in [Jobs -> ApprovalRow]
  <1>1. [approval[j] EXCEPT !.status = s] \in ApprovalRow
    BY DEF ApprovalTypeOK, ApprovalRow
  <1> QED
    BY <1>1 DEF ApprovalTypeOK

LEMMA AttemptStepType ==
  ASSUME ApprovalTypeOK, NEW t \in Attempts,
         NEW s \in {"idle", "checked", "spent", "committed", "lost", "validated",
                    "consumed", "acted"},
         To(t, s)
  PROVE  attempt' \in [Attempts -> AttemptState]
  <1>1. [attempt[t] EXCEPT !.step = s] \in AttemptState
    BY DEF ApprovalTypeOK, AttemptState
  <1> QED
    BY <1>1 DEF ApprovalTypeOK, To

LEMMA AskingType ==
  ASSUME ApprovalTypeOK, NEW j \in Jobs,
         \/ Clock(j) \/ WithdrawGrant(j)
         \/ CommitInvocation(j) \/ InsertApproval(j) \/ MarkWaiting(j)
         \/ AbandonInvocation(j)
         \/ Settle(j)
  PROVE  ApprovalTypeOK'
  <1>1. CASE Clock(j)
    BY <1>1 DEF ApprovalTypeOK, Clock, recordVars, historyVars, ActionTypeOK
  <1>2. CASE WithdrawGrant(j)
    BY <1>2 DEF ApprovalTypeOK, WithdrawGrant, recordVars, historyVars, ActionTypeOK
  <1>3. CASE CommitInvocation(j)
    BY <1>3, CallStatusType DEF ApprovalTypeOK, CommitInvocation, Ask, clockVars, historyVars,
                ActionTypeOK
  <1>4. CASE InsertApproval(j)
    BY <1>4, ApprovalStatusType DEF ApprovalTypeOK, InsertApproval, Ask, clockVars, historyVars,
                ActionTypeOK
  <1>5. CASE MarkWaiting(j)
    BY <1>5, CallStatusType DEF ApprovalTypeOK, MarkWaiting, Ask, clockVars, historyVars,
                ActionTypeOK
  <1>6. CASE AbandonInvocation(j)
    BY <1>6 DEF ApprovalTypeOK, AbandonInvocation, Ask, clockVars, historyVars,
                ActionTypeOK
  <1>7. CASE Settle(j)
    <2>1. phase' \in [Jobs -> Phases] /\ acted' = acted
      BY <1>7 DEF Settle, CancelAction, FailAction, CompleteAction, LoseTrack, Move,
                  ApprovalTypeOK, ActionTypeOK, Phases, Verdicts
    <2> QED
      BY <1>7, <2>1 DEF ApprovalTypeOK, ActionTypeOK, Settle, recordVars, clockVars,
                        historyVars
  <1> QED
    BY <1>1, <1>2, <1>3, <1>4, <1>5, <1>6, <1>7

LEMMA ServeType ==
  ASSUME ApprovalTypeOK, NEW c \in Callers, NEW j \in Jobs,
         NEW step \in {"idle", "issue", "enqueue"} \cup Steps,
         Serve(c, j, step)
  PROVE  req' \in [Callers -> RequestState]
  BY DEF ApprovalTypeOK, Serve, RequestState

LEMMA ReplyType ==
  ASSUME ApprovalTypeOK, NEW c \in Callers, Reply(c)
  PROVE  req' \in [Callers -> RequestState]
  <1>1. [req[c] EXCEPT !.step = "idle"] \in RequestState
    BY DEF ApprovalTypeOK, RequestState
  <1> QED
    BY <1>1 DEF ApprovalTypeOK, Reply

LEMMA ReadType ==
  ASSUME ApprovalTypeOK, NEW j \in Jobs,
         \/ DueRead(j)
         \/ \E c \in Requests : ReadForDecision(c, j) \/ ReadForExpiry(c, j)
  PROVE  ApprovalTypeOK'
  <1>1. req' \in [Callers -> RequestState]
    <2>1. \E c \in Callers, step \in Steps : Serve(c, j, step)
      BY DEF DueRead, ReadForDecision, ReadForExpiry, Callers, Steps
    <2> QED
      BY <2>1, ServeType
  <1> QED
    BY <1>1 DEF ApprovalTypeOK, ActionTypeOK, DueRead, ReadForDecision,
                ReadForExpiry, recordVars, clockVars, historyVars

LEMMA CallerType ==
  ASSUME ApprovalTypeOK, NEW c \in Callers, CallerStep(c) \/ DropRequest(c)
  PROVE  ApprovalTypeOK'
  <1>1. PICK j \in Jobs : j = req[c].job
    BY DEF ApprovalTypeOK, RequestState
  <1>2. CASE Approve(c)
    <2>1. approval' \in [Jobs -> ApprovalRow]
      <3>1. \/ approval' = approval
            \/ approval' = [approval EXCEPT ![j].status = "approved"]
        BY <1>1, <1>2 DEF Approve
      <3>2. "approved" \in {"absent", "pending"} \cup Decisions
        BY DEF Decisions
      <3> QED
        BY <3>1, <3>2, ApprovalStatusType DEF ApprovalTypeOK
    <2>2. req' \in [Callers -> RequestState]
      BY <1>1, <1>2, ServeType, ReplyType DEF Approve
    <2>3. decided' \in [Jobs -> Args \cup {NoArgs}]
      BY <1>1, <1>2 DEF Approve, ApprovalTypeOK, CallRow
    <2> QED
      BY <1>2, <2>1, <2>2, <2>3 DEF Approve, ApprovalTypeOK, ActionTypeOK, clockVars
  <1>3. CASE IssueToken(c)
    <2>1. token' \in [Jobs -> TokenRow]
      BY <1>1, <1>3 DEF IssueToken, ApprovalTypeOK, TokenRow, CallRow
    <2>2. req' \in [Callers -> RequestState]
      BY <1>1, <1>3, ServeType, ReplyType DEF IssueToken
    <2> QED
      BY <1>3, <2>1, <2>2 DEF IssueToken, ApprovalTypeOK, ActionTypeOK, clockVars,
                              historyVars
  <1>4. CASE EnqueueApproved(c)
    <2>1. phase' \in [Jobs -> Phases] /\ acted' = acted
      BY <1>1, <1>4 DEF EnqueueApproved, Request, Move, ApprovalTypeOK, ActionTypeOK,
                        Phases
    <2>2. req' \in [Callers -> RequestState]
      BY <1>4, ReplyType DEF EnqueueApproved
    <2>3. events' \subseteq EventRow
      BY <1>1, <1>4 DEF EnqueueApproved, ApprovalTypeOK, EventRow, Event, Decisions
    <2> QED
      BY <1>4, <2>1, <2>2, <2>3 DEF EnqueueApproved, ApprovalTypeOK, ActionTypeOK,
                                    clockVars, historyVars
  <1>5. CASE Decline(c)
    <2>1. PICK d \in {"rejected", "expired"} : decline_approval_and_tool_call(j, d)
      BY <1>1, <1>5 DEF Decline
    <2>2. approval' \in [Jobs -> ApprovalRow]
      <3>1. approval' = approval \/ approval' = [approval EXCEPT ![j].status = d]
        BY <2>1 DEF decline_approval_and_tool_call
      <3>2. d \in {"absent", "pending"} \cup Decisions
        BY DEF Decisions
      <3> QED
        BY <3>1, <3>2, ApprovalStatusType DEF ApprovalTypeOK
    <2>3. call' \in [Jobs -> CallRow]
      <3>1. CASE approval[j].status \in {"pending", d}
        <4> DEFINE s == IF call[j].status = "waiting_approval" THEN "denied"
                        ELSE call[j].status
        <4>1. s \in {"absent", "waiting_approval", "denied", "completed", "failed"}
          BY DEF ApprovalTypeOK, CallRow
        <4>2. call' = [call EXCEPT ![j].status = s]
          BY <2>1, <3>1 DEF decline_approval_and_tool_call, ApprovalTypeOK, CallRow
        <4> HIDE DEF s
        <4> QED
          BY <4>1, <4>2, CallStatusType
      <3> QED
        BY <2>1, <3>1 DEF decline_approval_and_tool_call, ApprovalTypeOK
    <2>4. events' \subseteq EventRow
      BY <2>1 DEF decline_approval_and_tool_call, ApprovalTypeOK, EventRow, Event,
                  Decisions
    <2>5. req' \in [Callers -> RequestState]
      BY <1>5, ReplyType DEF Decline
    <2> QED
      BY <1>5, <2>2, <2>3, <2>4, <2>5 DEF Decline, ApprovalTypeOK, ActionTypeOK,
                                          clockVars, historyVars
  <1>6. CASE Modify(c)
    <2>1. call' \in [Jobs -> CallRow]
      <3>1. CASE call' = call
        BY <3>1 DEF ApprovalTypeOK
      <3>2. CASE \E a \in Args :
                   call' = [call EXCEPT ![j].args = a, ![j].hash = Digest(j, a)]
        <4>1. PICK a \in Args :
                call' = [call EXCEPT ![j].args = a, ![j].hash = Digest(j, a)]
          BY <3>2
        <4>2. \A h \in Args \cup {NoArgs}, row \in CallRow :
                [row EXCEPT !.args = a, !.hash = h] \in CallRow
          BY DEF CallRow
        <4>3. [call[j] EXCEPT !.args = a, !.hash = Digest(j, a)] \in CallRow
          BY <4>2 DEF ApprovalTypeOK, Digest
        <4> QED
          BY <4>1, <4>3 DEF ApprovalTypeOK
      <3> QED
        BY <1>1, <1>6, <3>1, <3>2 DEF Modify
    <2>2. req' \in [Callers -> RequestState]
      BY <1>6, ReplyType DEF Modify
    <2> QED
      BY <1>6, <2>1, <2>2 DEF Modify, ApprovalTypeOK, ActionTypeOK, clockVars,
                              historyVars
  <1>7. CASE Escalate(c)
    <2>1. [approval[j] EXCEPT !.escalated = TRUE] \in ApprovalRow
      BY DEF ApprovalTypeOK, ApprovalRow
    <2>2. approval' \in [Jobs -> ApprovalRow]
      BY <1>1, <1>7, <2>1 DEF Escalate, ApprovalTypeOK
    <2>3. req' \in [Callers -> RequestState]
      BY <1>7, ReplyType DEF Escalate
    <2> QED
      BY <1>7, <2>2, <2>3 DEF Escalate, ApprovalTypeOK, ActionTypeOK, clockVars,
                              historyVars
  <1>8. CASE DropRequest(c)
    BY <1>8, ReplyType DEF DropRequest, ApprovalTypeOK, ActionTypeOK, recordVars,
                           clockVars, historyVars
  <1> QED
    BY <1>2, <1>3, <1>4, <1>5, <1>6, <1>7, <1>8 DEF CallerStep

LEMMA AttemptType ==
  ASSUME ApprovalTypeOK, NEW t \in Attempts,
         \/ \E j \in Jobs : Check(t, j)
         \/ Commit(t) \/ Validate(t) \/ Consume(t) \/ PerformAction(t)
         \/ RecordOutcome(t) \/ RetryCommitted(t) \/ EndAttempt(t)
  PROVE  ApprovalTypeOK'
  <1>1. PICK j \in Jobs : j = attempt[t].job
    BY DEF ApprovalTypeOK, AttemptState
  <1>2. CASE \E i \in Jobs : Check(t, i)
    <2>1. attempt' \in [Attempts -> AttemptState]
      BY <1>2 DEF Check, ApprovalTypeOK, AttemptState, CallRow
    <2> QED
      BY <1>2, <2>1 DEF Check, ApprovalTypeOK, ActionTypeOK, recordVars, clockVars,
                        historyVars
  <1>3. CASE Commit(t)
    <2>1. phase' \in [Jobs -> Phases] /\ acted' = acted
      BY <1>1, <1>3 DEF Commit, CommitAction, Move, ApprovalTypeOK, ActionTypeOK, Phases
    <2>2. attempt' \in [Attempts -> AttemptState]
      BY <1>3, AttemptStepType DEF Commit
    <2>3. late' \in [Jobs -> BOOLEAN]
      BY <1>1, <1>3 DEF Commit, ApprovalTypeOK
    <2> QED
      BY <1>3, <2>1, <2>2, <2>3 DEF Commit, ApprovalTypeOK, ActionTypeOK, recordVars,
                                    clockVars
  <1>4. CASE Validate(t)
    <2>1. attempt' \in [Attempts -> AttemptState]
      BY <1>4, AttemptStepType DEF Validate
    <2> QED
      BY <1>4, <2>1 DEF Validate, ApprovalTypeOK, ActionTypeOK, recordVars, clockVars,
                        historyVars
  <1>5. CASE Consume(t)
    <2>1. attempt' \in [Attempts -> AttemptState]
      BY <1>5, AttemptStepType DEF Consume
    <2>2. [token[j] EXCEPT !.status = "consumed"] \in TokenRow
      BY DEF ApprovalTypeOK, TokenRow
    <2>3. token' \in [Jobs -> TokenRow]
      BY <1>1, <1>5, <2>2 DEF Consume, ApprovalTypeOK
    <2>4. uses' \in [Jobs -> Nat]
      BY <1>1, <1>5 DEF Consume, ApprovalTypeOK
    <2> QED
      BY <1>5, <2>1, <2>3, <2>4 DEF Consume, ApprovalTypeOK, ActionTypeOK, clockVars,
                                    historyVars
  <1>6. CASE PerformAction(t)
    <2>1. attempt' \in [Attempts -> AttemptState]
      BY <1>6, AttemptStepType DEF PerformAction
    <2>2. acted' \in [Jobs -> Nat] /\ phase' = phase
      BY <1>1, <1>6 DEF PerformAction, Act, ApprovalTypeOK, ActionTypeOK
    <2>3. performed' \in [Jobs -> Args \cup {NoArgs}]
      BY <1>1, <1>6 DEF PerformAction, ApprovalTypeOK, AttemptState
    <2> QED
      BY <1>6, <2>1, <2>2, <2>3 DEF PerformAction, ApprovalTypeOK, ActionTypeOK,
                                    recordVars, clockVars
  <1>7. CASE RecordOutcome(t)
    <2>1. attempt' \in [Attempts -> AttemptState]
      BY <1>7, AttemptStepType DEF RecordOutcome
    <2>2. call' \in [Jobs -> CallRow]
      <3>1. PICK s \in {"completed", "failed"} : call' = [call EXCEPT ![j].status = s]
        BY <1>1, <1>7 DEF RecordOutcome
      <3> QED
        BY <3>1, CallStatusType
    <2>3. events' \subseteq EventRow
      BY <1>1, <1>7 DEF RecordOutcome, ApprovalTypeOK, EventRow, Event
    <2> QED
      BY <1>7, <2>1, <2>2, <2>3 DEF RecordOutcome, ApprovalTypeOK, ActionTypeOK,
                                    clockVars, historyVars
  <1>8. CASE RetryCommitted(t)
    <2>1. attempt' \in [Attempts -> AttemptState]
      BY <1>8, AttemptStepType DEF RetryCommitted
    <2>2. phase' \in [Jobs -> Phases] /\ acted' = acted
      BY <1>1, <1>8 DEF RetryCommitted, Retreat, Move, ApprovalTypeOK, ActionTypeOK,
                        Phases
    <2> QED
      BY <1>8, <2>1, <2>2 DEF RetryCommitted, ApprovalTypeOK, ActionTypeOK, recordVars,
                              clockVars, historyVars
  <1>9. CASE EndAttempt(t)
    BY <1>9, AttemptStepType DEF EndAttempt, ApprovalTypeOK, ActionTypeOK, recordVars,
                                 clockVars, historyVars
  <1> QED
    BY <1>2, <1>3, <1>4, <1>5, <1>6, <1>7, <1>8, <1>9

LEMMA StepType == ApprovalTypeOK /\ [ApprovalNext]_vars => ApprovalTypeOK'
  <1> SUFFICES ASSUME ApprovalTypeOK, [ApprovalNext]_vars PROVE ApprovalTypeOK'
    OBVIOUS
  <1>1. CASE UNCHANGED vars
    BY <1>1 DEF vars, ApprovalTypeOK, ActionTypeOK
  <1>2. CASE ApprovalNext
    BY <1>2, AskingType, ReadType, CallerType, AttemptType DEF ApprovalNext
  <1> QED
    BY <1>1, <1>2

\* Type correctness of the approval protocol.
THEOREM ApprovalTypeCorrect == ApprovalSpec => []ApprovalTypeOK
  BY InitType, StepType, PTL DEF ApprovalSpec
-----------------------------------------------------------------------------
(* What a step leaves alone *)

\* The step does not touch what is known about a tool call.
SameJob(i) ==
    /\ phase'[i] = phase[i] /\ acted'[i] = acted[i] /\ kind'[i] = kind[i]
    /\ approval'[i] = approval[i] /\ overdue'[i] = overdue[i]
    /\ call'[i] = call[i] /\ grant'[i] = grant[i]
    /\ token'[i] = token[i] /\ uses'[i] = uses[i] /\ asking'[i] = asking[i]
    /\ decided'[i] = decided[i] /\ performed'[i] = performed[i]
    /\ late'[i] = late[i]
    /\ \A type : Event(i, type) \in events' <=> Event(i, type) \in events

\* A granted approval and the arguments it was granted for stay.
Kept(i) ==
    approval[i].status = "approved" =>
       approval'[i].status = "approved" /\ decided'[i] = decided[i]

\* What other parties leave to an attempt that is past the commit point.
Steady(i) ==
    /\ Kept(i)
    /\ ~NotCommitted(phase[i]) => ~NotCommitted(phase'[i])
    /\ acted'[i] = acted[i] /\ uses'[i] = uses[i]
    /\ late'[i] = late[i] /\ kind'[i] = kind[i]
    /\ token[i].status # "none" => token'[i].status = token[i].status

LEMMA SameIsSteady ==
  ASSUME NEW i \in Jobs, SameJob(i)
  PROVE  Steady(i)
  BY DEF SameJob, Steady, Kept

LEMMA JobFrame ==
  ASSUME NEW i \in Jobs, SameJob(i), RecordInv(i), BindingInv(i)
  PROVE  RecordInv(i)' /\ BindingInv(i)'
  <1>1. RecordInv(i)'
    BY DEF SameJob, RecordInv, Declined
  <1>2. BindingInv(i)'
    BY DEF SameJob, BindingInv, Digest, task_grant_requires_approval_commit_token,
           ConsumesToken
  <1> QED
    BY <1>1, <1>2

LEMMA AttemptFrame ==
  ASSUME NEW t \in Attempts, attempt'[t] = attempt[t], AttemptInv(t),
         \/ Steady(attempt[t].job)
         \/ Kept(attempt[t].job) /\ ~Past(t)
  PROVE  AttemptInv(t)'
  BY DEF AttemptInv, Steady, Kept, Past, At

LEMMA CallerFrame ==
  ASSUME NEW c \in Callers, req'[c] = req[c], CallerInv(c), Kept(req[c].job)
  PROVE  CallerInv(c)'
  BY DEF CallerInv, Kept

\* A step that works on one tool call and on no attempt.
LEMMA RecordSide ==
  ASSUME ApprovalInv, ApprovalTypeOK', NEW j \in Jobs,
         \A i \in Jobs \ {j} : SameJob(i),
         Steady(j), RecordInv(j)', BindingInv(j)',
         attempt' = attempt,
         \A c \in Callers : req'[c] = req[c] \/ CallerInv(c)'
  PROVE  ApprovalInv'
  <1>1. \A i \in Jobs : RecordInv(i)' /\ BindingInv(i)'
    BY JobFrame DEF ApprovalInv
  <1>2. \A i \in Jobs : Steady(i)
    BY SameIsSteady
  <1>3. \A c \in Callers : CallerInv(c)'
    <2> SUFFICES ASSUME NEW c \in Callers, req'[c] = req[c] PROVE CallerInv(c)'
      OBVIOUS
    <2>1. Kept(req[c].job) /\ CallerInv(c)
      BY <1>2 DEF Steady, ApprovalInv, ApprovalTypeOK, RequestState
    <2> QED
      BY <2>1, CallerFrame
  <1>4. \A t \in Attempts : AttemptInv(t)'
    <2> SUFFICES ASSUME NEW t \in Attempts PROVE AttemptInv(t)'
      OBVIOUS
    <2>1. Steady(attempt[t].job) /\ AttemptInv(t)
      BY <1>2 DEF ApprovalInv, ApprovalTypeOK, AttemptState
    <2> QED
      BY <2>1, AttemptFrame
  <1>5. Alone'
    BY DEF ApprovalInv, Alone, Past
  <1> QED
    BY <1>1, <1>3, <1>4, <1>5 DEF ApprovalInv

\* A step of one attempt on one tool call: it disturbs another attempt only if
\* that one is past the commit point of the same action.
LEMMA AttemptSide ==
  ASSUME ApprovalInv, ApprovalTypeOK', NEW t \in Attempts, NEW j \in Jobs,
         \A i \in Jobs \ {j} : SameJob(i),
         Kept(j), RecordInv(j)', BindingInv(j)', req' = req,
         \A u \in Attempts \ {t} : attempt'[u] = attempt[u],
         attempt'[t].job = j, AttemptInv(t)',
         \/ Steady(j)
         \/ \A u \in Attempts \ {t} : attempt[u].job = j => ~Past(u),
         Past(t)' => \A u \in Attempts \ {t} : attempt[u].job = j => ~Past(u)
  PROVE  ApprovalInv'
  <1>1. \A i \in Jobs : RecordInv(i)' /\ BindingInv(i)'
    BY JobFrame DEF ApprovalInv
  <1>2. \A i \in Jobs : Kept(i)
    BY SameIsSteady DEF Steady
  <1>3. \A c \in Callers : CallerInv(c)'
    <2> SUFFICES ASSUME NEW c \in Callers PROVE CallerInv(c)'
      OBVIOUS
    <2>1. Kept(req[c].job) /\ CallerInv(c)
      BY <1>2 DEF ApprovalInv, ApprovalTypeOK, RequestState
    <2> QED
      BY <2>1, CallerFrame
  <1>4. \A u \in Attempts : AttemptInv(u)'
    <2> SUFFICES ASSUME NEW u \in Attempts, u # t PROVE AttemptInv(u)'
      OBVIOUS
    <2>1. attempt[u].job \in Jobs /\ AttemptInv(u) /\ attempt'[u] = attempt[u]
      BY DEF ApprovalInv, ApprovalTypeOK, AttemptState
    <2>2. Kept(attempt[u].job)
      BY <1>2, <2>1
    <2>3. Steady(attempt[u].job) \/ ~Past(u)
      BY <2>1, SameIsSteady
    <2> QED
      BY <2>1, <2>2, <2>3, AttemptFrame
  <1>5. Alone'
    <2>1. \A u \in Attempts \ {t} : (Past(u)' <=> Past(u)) /\ attempt'[u].job = attempt[u].job
      BY DEF Past
    <2> QED
      BY <2>1 DEF ApprovalInv, Alone
  <1> QED
    BY <1>1, <1>3, <1>4, <1>5 DEF ApprovalInv
-----------------------------------------------------------------------------
(* The invariant holds initially and every step keeps it *)

LEMMA InitInv == ApprovalInit => ApprovalInv
  <1> SUFFICES ASSUME ApprovalInit PROVE ApprovalInv
    OBVIOUS
  <1>1. PICK legacy \in SUBSET Jobs : StartWith(legacy)
    BY DEF ApprovalInit
  <1>2. \A j \in Jobs : /\ phase[j] = "none" /\ acted[j] = 0 /\ uses[j] = 0
                        /\ token[j].status = "none" /\ ~late[j]
    BY DEF ApprovalInit, ActionInit
  <1>3. \A j \in Jobs : RecordInv(j)
    <2> SUFFICES ASSUME NEW j \in Jobs PROVE RecordInv(j)
      OBVIOUS
    <2>1. \A type : Event(j, type) \in events <=> j \in legacy /\ type = "expired"
      BY <1>1 DEF StartWith, Event
    <2>2. /\ approval[j].status = IF j \in legacy THEN "expired" ELSE "absent"
          /\ call[j].status = IF j \in legacy THEN "waiting_approval" ELSE "absent"
          /\ asking[j] = IF j \in legacy THEN "done" ELSE "start"
      BY <1>1 DEF StartWith
    <2> QED
      BY <1>2, <2>1, <2>2 DEF RecordInv, Declined, Decisions
  <1>4. \A j \in Jobs : BindingInv(j)
    <2> SUFFICES ASSUME NEW j \in Jobs PROVE BindingInv(j)
      OBVIOUS
    <2>1. call[j].hash = Digest(j, call[j].args) /\ approval[j].status # "approved"
      BY <1>1 DEF StartWith
    <2> QED
      BY <1>2, <2>1 DEF BindingInv
  <1>5. /\ \A c \in Callers : CallerInv(c)
        /\ \A t \in Attempts : AttemptInv(t)
        /\ Alone
    BY <1>1 DEF StartWith, CallerInv, AttemptInv, Alone, Past, At
  <1> QED
    BY <1>3, <1>4, <1>5, InitType DEF ApprovalInv

LEMMA EnvironmentStep ==
  ASSUME ApprovalInv, ApprovalTypeOK', NEW j \in Jobs,
         Clock(j) \/ WithdrawGrant(j) \/ Settle(j)
  PROVE  ApprovalInv'
  <1>1. CASE Clock(j) \/ WithdrawGrant(j)
    <2>1. /\ \A i \in Jobs \ {j} : SameJob(i)
          /\ Steady(j) /\ attempt' = attempt /\ req' = req
      BY <1>1 DEF Clock, WithdrawGrant, SameJob, Steady, Kept, recordVars, historyVars,
                  ApprovalInv, ApprovalTypeOK
    <2>2. RecordInv(j)'
      BY <1>1 DEF Clock, WithdrawGrant, recordVars, historyVars, ApprovalInv, RecordInv,
                  Declined
    <2>3. BindingInv(j)'
      BY <1>1 DEF Clock, WithdrawGrant, recordVars, historyVars, ApprovalInv,
                  ApprovalTypeOK, BindingInv, Digest,
                  task_grant_requires_approval_commit_token, ConsumesToken
    <2> QED
      BY <2>1, <2>2, <2>3, RecordSide
  <1>2. CASE Settle(j)
    <2>1. /\ phase[j] \in {"open", "committed"}
          /\ phase[j] = "committed" => ~NotCommitted(phase'[j])
          /\ \A i \in Jobs \ {j} : phase'[i] = phase[i]
          /\ acted' = acted
      BY <1>2 DEF Settle, CancelAction, FailAction, CompleteAction, LoseTrack, Move,
                  NotCommitted, ApprovalInv, ApprovalTypeOK, ActionTypeOK
    <2>2. /\ \A i \in Jobs \ {j} : SameJob(i)
          /\ Steady(j) /\ attempt' = attempt /\ req' = req
      BY <1>2, <2>1 DEF Settle, SameJob, Steady, Kept, recordVars, historyVars, clockVars,
                        NotCommitted
    <2>3. RecordInv(j)'
      BY <1>2, <2>1 DEF Settle, recordVars, clockVars, historyVars, ApprovalInv,
                        RecordInv, Declined
    <2>4. BindingInv(j)'
      BY <1>2, <2>1 DEF Settle, recordVars, clockVars, historyVars, ApprovalInv,
                        BindingInv, Digest, task_grant_requires_approval_commit_token,
                        ConsumesToken, NotCommitted
    <2> QED
      BY <2>2, <2>3, <2>4, RecordSide
  <1> QED
    BY <1>1, <1>2

LEMMA AskingStep ==
  ASSUME ApprovalInv, ApprovalTypeOK', NEW j \in Jobs,
         \/ CommitInvocation(j) \/ InsertApproval(j) \/ MarkWaiting(j)
         \/ AbandonInvocation(j)
  PROVE  ApprovalInv'
  <1>1. /\ \A i \in Jobs \ {j} : SameJob(i)
        /\ attempt' = attempt /\ req' = req
        /\ phase' = phase /\ acted' = acted /\ kind' = kind /\ token' = token
        /\ events' = events /\ overdue' = overdue /\ grant' = grant /\ uses' = uses
        /\ decided' = decided /\ performed' = performed /\ late' = late
    BY DEF CommitInvocation, InsertApproval, MarkWaiting, AbandonInvocation, Ask,
           SameJob, clockVars, historyVars, ApprovalInv, ApprovalTypeOK
  <1>2. /\ call'[j].args = call[j].args /\ call'[j].hash = call[j].hash
        /\ \/ /\ asking[j] = "start" /\ asking'[j] = "called"
              /\ call'[j].status = "waiting_approval"
              /\ approval'[j].status = approval[j].status
           \/ /\ asking[j] = "called" /\ asking'[j] = "asked"
              /\ call'[j].status = call[j].status
              /\ approval'[j].status = "pending"
           \/ /\ asking'[j] = "done"
              /\ call'[j].status \in {"waiting_approval", call[j].status}
              /\ approval'[j].status = approval[j].status
    BY DEF CommitInvocation, InsertApproval, MarkWaiting, AbandonInvocation, Ask,
           ApprovalInv, ApprovalTypeOK, CallRow, ApprovalRow
  <1>3. RecordInv(j) /\ BindingInv(j)
    BY DEF ApprovalInv
  <1>4. Steady(j)
    BY <1>1, <1>2, <1>3 DEF Steady, Kept, RecordInv
  <1>5. RecordInv(j)'
    BY <1>1, <1>2, <1>3 DEF RecordInv, Declined, Decisions
  <1>6. BindingInv(j)'
    BY <1>1, <1>2, <1>3 DEF BindingInv, RecordInv, Digest, ConsumesToken,
                            task_grant_requires_approval_commit_token
  <1> QED
    BY <1>1, <1>4, <1>5, <1>6, RecordSide

LEMMA ReadStep ==
  ASSUME ApprovalInv, ApprovalTypeOK', NEW j \in Jobs,
         \/ DueRead(j)
         \/ \E c \in Requests : ReadForDecision(c, j) \/ ReadForExpiry(c, j)
  PROVE  ApprovalInv'
  <1>1. /\ \A i \in Jobs : SameJob(i)
        /\ attempt' = attempt
    BY DEF DueRead, ReadForDecision, ReadForExpiry, SameJob, recordVars, clockVars,
           historyVars
  <1>2. RecordInv(j)' /\ BindingInv(j)'
    BY <1>1, JobFrame DEF ApprovalInv
  <1>3. \A c \in Callers : req'[c] = req[c] \/ CallerInv(c)'
    <2>1. PICK b \in Callers, step \in Steps : Serve(b, j, step)
      BY DEF DueRead, ReadForDecision, ReadForExpiry, Callers, Steps
    <2>2. \A c \in Callers : req'[c] = req[c] \/ req'[c].step = step
      BY <2>1 DEF Serve, ApprovalInv, ApprovalTypeOK
    <2> QED
      BY <2>2 DEF CallerInv, Steps
  <1> QED
    BY <1>1, <1>2, <1>3, SameIsSteady, RecordSide

\* A request that ends, or goes on with an approval that was granted, keeps
\* what is said about requests.
LEMMA ServeApproved ==
  ASSUME ApprovalTypeOK, NEW b \in Callers, NEW j \in Jobs, NEW step,
         \/ Reply(b)
         \/ Serve(b, j, step) /\ approval'[j].status = "approved"
  PROVE  \A c \in Callers : req'[c] = req[c] \/ CallerInv(c)'
  BY DEF Reply, Serve, CallerInv, ApprovalTypeOK, RequestState

LEMMA ApproveStep ==
  ASSUME ApprovalInv, ApprovalTypeOK', NEW c \in Callers, Approve(c)
  PROVE  ApprovalInv'
  <1>1. PICK j \in Jobs : j = req[c].job
    BY DEF ApprovalInv, ApprovalTypeOK, RequestState
  <1>2. /\ \A i \in Jobs \ {j} : SameJob(i)
        /\ attempt' = attempt /\ phase' = phase /\ acted' = acted /\ kind' = kind
        /\ call' = call /\ token' = token /\ events' = events /\ overdue' = overdue
        /\ grant' = grant /\ uses' = uses /\ asking' = asking
        /\ performed' = performed /\ late' = late
    BY <1>1 DEF Approve, SameJob, clockVars, ApprovalInv, ApprovalTypeOK
  <1>3. RecordInv(j) /\ BindingInv(j)
    BY DEF ApprovalInv
  <1>4. CASE approval[j].status = "pending"
    <2>1. approval'[j].status = "approved" /\ decided'[j] = call[j].args
      BY <1>1, <1>4 DEF Approve, ApprovalInv, ApprovalTypeOK, ApprovalRow
    <2>2. \A b \in Callers : req'[b] = req[b] \/ CallerInv(b)'
      BY <1>1, <1>4, <2>1, ServeApproved DEF Approve, ApprovalInv
    <2>3. Steady(j)
      BY <1>2, <1>4 DEF Steady, Kept
    <2>4. RecordInv(j)'
      BY <1>2, <1>3, <1>4, <2>1 DEF RecordInv, Declined, Decisions
    <2>5. BindingInv(j)'
      BY <1>2, <1>3, <1>4, <2>1 DEF BindingInv, RecordInv, Digest, ConsumesToken,
             task_grant_requires_approval_commit_token, NotCommitted
    <2> QED
      BY <1>2, <2>2, <2>3, <2>4, <2>5, RecordSide
  <1>5. CASE approval[j].status # "pending"
    <2>1. approval' = approval /\ decided' = decided /\ Reply(c)
      BY <1>1, <1>5 DEF Approve
    <2>2. SameJob(j)
      BY <1>2, <2>1 DEF SameJob
    <2>3. Steady(j) /\ RecordInv(j)' /\ BindingInv(j)'
      BY <1>3, <2>2, SameIsSteady, JobFrame
    <2>4. \A b \in Callers : req'[b] = req[b] \/ CallerInv(b)'
      BY <2>1, ServeApproved DEF ApprovalInv
    <2> QED
      BY <1>2, <2>3, <2>4, RecordSide
  <1> QED
    BY <1>4, <1>5

LEMMA IssueStep ==
  ASSUME ApprovalInv, ApprovalTypeOK', NEW c \in Callers, IssueToken(c)
  PROVE  ApprovalInv'
  <1>1. PICK j \in Jobs : j = req[c].job
    BY DEF ApprovalInv, ApprovalTypeOK, RequestState
  <1>2. /\ \A i \in Jobs \ {j} : SameJob(i)
        /\ attempt' = attempt /\ phase' = phase /\ acted' = acted /\ kind' = kind
        /\ call' = call /\ approval' = approval /\ events' = events
        /\ overdue' = overdue /\ grant' = grant /\ uses' = uses /\ asking' = asking
        /\ decided' = decided /\ performed' = performed /\ late' = late
    BY <1>1 DEF IssueToken, SameJob, clockVars, historyVars, ApprovalInv, ApprovalTypeOK
  <1>3. RecordInv(j) /\ BindingInv(j) /\ approval[j].status = "approved"
    BY <1>1 DEF ApprovalInv, IssueToken, CallerInv
  <1>4. \/ token'[j] = token[j]
        \/ /\ token[j].status = "none" /\ token'[j].status = "issued"
           /\ token'[j].hash = call[j].args
           /\ task_grant_requires_approval_commit_token(j)
    BY <1>1 DEF IssueToken, ApprovalInv, ApprovalTypeOK
  <1>5. \A b \in Callers : req'[b] = req[b] \/ CallerInv(b)'
    <2>1. Reply(c) \/ Serve(c, j, "enqueue")
      BY <1>1 DEF IssueToken
    <2> QED
      BY <1>2, <1>3, <2>1, ServeApproved DEF ApprovalInv
  <1>6. Steady(j)
    BY <1>2, <1>4 DEF Steady, Kept
  <1>7. RecordInv(j)'
    BY <1>2, <1>3 DEF RecordInv, Declined
  <1>8. BindingInv(j)'
    BY <1>2, <1>3, <1>4 DEF BindingInv, Digest, ConsumesToken,
             task_grant_requires_approval_commit_token, NotCommitted
  <1> QED
    BY <1>2, <1>5, <1>6, <1>7, <1>8, RecordSide

LEMMA EnqueueStep ==
  ASSUME ApprovalInv, ApprovalTypeOK', NEW c \in Callers, EnqueueApproved(c)
  PROVE  ApprovalInv'
  <1>1. PICK j \in Jobs : j = req[c].job
    BY DEF ApprovalInv, ApprovalTypeOK, RequestState
  <1>2. /\ attempt' = attempt /\ acted' = acted /\ kind' = kind
        /\ call' = call /\ approval' = approval /\ token' = token
        /\ overdue' = overdue /\ grant' = grant /\ uses' = uses /\ asking' = asking
        /\ decided' = decided /\ performed' = performed /\ late' = late
        /\ events' = events \cup {Event(j, "approved")} /\ Reply(c)
        /\ phase[j] = "none" /\ phase'[j] = "open"
        /\ \A i \in Jobs \ {j} : phase'[i] = phase[i]
    BY <1>1 DEF EnqueueApproved, Request, Move, clockVars, historyVars, ApprovalInv,
                ApprovalTypeOK, ActionTypeOK
  <1>3. RecordInv(j) /\ BindingInv(j) /\ approval[j].status = "approved"
    BY <1>1 DEF ApprovalInv, EnqueueApproved, CallerInv
  <1>4. \A i, type : Event(i, type) \in events' <=>
                        Event(i, type) \in events \/ (i = j /\ type = "approved")
    BY <1>2 DEF Event
  <1>5. \A i \in Jobs \ {j} : SameJob(i)
    BY <1>2, <1>4 DEF SameJob
  <1>6. Steady(j)
    BY <1>2 DEF Steady, Kept, NotCommitted
  <1>7. RecordInv(j)'
    BY <1>2, <1>3, <1>4 DEF RecordInv, Declined
  <1>8. BindingInv(j)'
    BY <1>2, <1>3 DEF BindingInv, Digest, ConsumesToken,
             task_grant_requires_approval_commit_token, NotCommitted
  <1>9. \A b \in Callers : req'[b] = req[b] \/ CallerInv(b)'
    BY <1>2, ServeApproved DEF ApprovalInv
  <1> QED
    BY <1>2, <1>5, <1>6, <1>7, <1>8, <1>9, RecordSide

LEMMA DeclineStep ==
  ASSUME ApprovalInv, ApprovalTypeOK', NEW c \in Callers, Decline(c)
  PROVE  ApprovalInv'
  <1>1. PICK j \in Jobs, d \in {"rejected", "expired"} :
          decline_approval_and_tool_call(j, d)
    BY DEF Decline, ApprovalInv, ApprovalTypeOK, RequestState
  <1>2. /\ attempt' = attempt /\ phase' = phase /\ acted' = acted /\ kind' = kind
        /\ token' = token /\ overdue' = overdue /\ grant' = grant /\ uses' = uses
        /\ asking' = asking /\ decided' = decided /\ performed' = performed
        /\ late' = late /\ Reply(c)
    BY DEF Decline, clockVars, historyVars
  <1>3. \A b \in Callers : req'[b] = req[b] \/ CallerInv(b)'
    BY <1>2, ServeApproved DEF ApprovalInv
  <1>4. RecordInv(j) /\ BindingInv(j)
    BY DEF ApprovalInv
  <1>5. CASE approval[j].status \notin {"pending", d}
    <2>1. approval' = approval /\ call' = call /\ events' = events
      BY <1>1, <1>5 DEF decline_approval_and_tool_call
    <2>2. \A i \in Jobs : SameJob(i)
      BY <1>2, <2>1 DEF SameJob
    <2>3. Steady(j) /\ RecordInv(j)' /\ BindingInv(j)'
      BY <1>4, <2>2, SameIsSteady, JobFrame
    <2> QED
      BY <1>2, <1>3, <2>2, <2>3, RecordSide
  <1>6. CASE approval[j].status \in {"pending", d}
    <2>1. /\ approval'[j].status = d
          /\ call'[j].status = IF call[j].status = "waiting_approval" THEN "denied"
                               ELSE call[j].status
          /\ call'[j].args = call[j].args /\ call'[j].hash = call[j].hash
          /\ \A i \in Jobs \ {j} : approval'[i] = approval[i] /\ call'[i] = call[i]
      BY <1>1, <1>6 DEF decline_approval_and_tool_call, ApprovalInv, ApprovalTypeOK,
                        ApprovalRow, CallRow
    <2>2. \A i, type :
             Event(i, type) \in events' <=>
                \/ Event(i, type) \in events
                \/ i = j /\ type = d
                \/ /\ i = j /\ type = "denial"
                   /\ call[j].status \in {"waiting_approval", "denied"}
      BY <1>1, <1>6 DEF decline_approval_and_tool_call, Event
    <2>3. \A i \in Jobs \ {j} : SameJob(i)
      BY <1>2, <2>1, <2>2 DEF SameJob
    <2>4. Steady(j)
      BY <1>2, <1>6 DEF Steady, Kept
    <2>5. RecordInv(j)'
      BY <1>2, <1>4, <1>6, <2>1, <2>2 DEF RecordInv, Declined, Decisions
    <2>6. BindingInv(j)'
      BY <1>2, <1>4, <1>6, <2>1 DEF BindingInv, Digest, ConsumesToken,
             task_grant_requires_approval_commit_token, NotCommitted
    <2> QED
      BY <1>2, <1>3, <2>3, <2>4, <2>5, <2>6, RecordSide
  <1> QED
    BY <1>5, <1>6

LEMMA ModifyStep ==
  ASSUME ApprovalInv, ApprovalTypeOK', NEW c \in Callers, Modify(c)
  PROVE  ApprovalInv'
  <1>1. PICK j \in Jobs : j = req[c].job
    BY DEF ApprovalInv, ApprovalTypeOK, RequestState
  <1>2. /\ attempt' = attempt /\ phase' = phase /\ acted' = acted /\ kind' = kind
        /\ approval' = approval /\ events' = events
        /\ token' = token /\ overdue' = overdue /\ grant' = grant /\ uses' = uses
        /\ asking' = asking /\ decided' = decided /\ performed' = performed
        /\ late' = late /\ Reply(c)
    BY DEF Modify, clockVars, historyVars
  <1>3. \A b \in Callers : req'[b] = req[b] \/ CallerInv(b)'
    BY <1>2, ServeApproved DEF ApprovalInv
  <1>4. RecordInv(j) /\ BindingInv(j)
    BY DEF ApprovalInv
  <1>5. /\ \A i \in Jobs \ {j} : call'[i] = call[i]
        /\ call'[j].status = call[j].status
        /\ call'[j].hash = Digest(j, call'[j].args)
        /\ approval[j].status # "pending" => call'[j] = call[j]
    <2>1. CASE call' = call
      BY <1>4, <2>1 DEF BindingInv
    <2>2. CASE call' # call
      <3>1. approval[j].status = "pending"
        BY <1>1, <2>2 DEF Modify
      <3>2. PICK a \in Args :
              call' = [call EXCEPT ![j].args = a, ![j].hash = Digest(j, a)]
        BY <1>1, <2>2 DEF Modify
      <3> QED
        BY <3>1, <3>2 DEF ApprovalInv, ApprovalTypeOK, CallRow
    <2> QED
      BY <2>1, <2>2
  <1>6. \A i \in Jobs \ {j} : SameJob(i)
    BY <1>2, <1>5 DEF SameJob
  <1>7. Steady(j)
    BY <1>2 DEF Steady, Kept
  <1>8. RecordInv(j)'
    BY <1>2, <1>4, <1>5 DEF RecordInv, Declined
  <1>9. BindingInv(j)'
    BY <1>2, <1>4, <1>5 DEF BindingInv, RecordInv, Digest, ConsumesToken,
           task_grant_requires_approval_commit_token
  <1> QED
    BY <1>2, <1>3, <1>6, <1>7, <1>8, <1>9, RecordSide

LEMMA EscalateStep ==
  ASSUME ApprovalInv, ApprovalTypeOK', NEW c \in Callers, Escalate(c) \/ DropRequest(c)
  PROVE  ApprovalInv'
  <1>1. PICK j \in Jobs : j = req[c].job
    BY DEF ApprovalInv, ApprovalTypeOK, RequestState
  <1>2. /\ attempt' = attempt /\ phase' = phase /\ acted' = acted /\ kind' = kind
        /\ call' = call /\ events' = events
        /\ token' = token /\ overdue' = overdue /\ grant' = grant /\ uses' = uses
        /\ asking' = asking /\ decided' = decided /\ performed' = performed
        /\ late' = late /\ Reply(c)
    BY DEF Escalate, DropRequest, recordVars, clockVars, historyVars
  <1>3. /\ \A i \in Jobs \ {j} : approval'[i] = approval[i]
        /\ approval'[j].status = approval[j].status
    <2>1. approval' = approval \/ approval' = [approval EXCEPT ![j].escalated = TRUE]
      BY <1>1 DEF Escalate, DropRequest, recordVars
    <2> QED
      BY <2>1 DEF ApprovalInv, ApprovalTypeOK, ApprovalRow
  <1>4. \A b \in Callers : req'[b] = req[b] \/ CallerInv(b)'
    BY <1>2, ServeApproved DEF ApprovalInv
  <1>5. RecordInv(j) /\ BindingInv(j)
    BY DEF ApprovalInv
  <1>6. \A i \in Jobs \ {j} : SameJob(i)
    BY <1>2, <1>3 DEF SameJob
  <1>7. Steady(j)
    BY <1>2, <1>3 DEF Steady, Kept
  <1>8. RecordInv(j)'
    BY <1>2, <1>3, <1>5 DEF RecordInv, Declined
  <1>9. BindingInv(j)'
    BY <1>2, <1>3, <1>5 DEF BindingInv, Digest, ConsumesToken,
           task_grant_requires_approval_commit_token
  <1> QED
    BY <1>2, <1>4, <1>6, <1>7, <1>8, <1>9, RecordSide

\* The parts of the records that no step of an attempt changes.
AttemptLeaves ==
    /\ kind' = kind /\ approval' = approval /\ overdue' = overdue /\ grant' = grant
    /\ asking' = asking /\ req' = req /\ decided' = decided

LEMMA AttemptLeavesThese ==
  ASSUME NEW t \in Attempts,
         \/ \E j \in Jobs : Check(t, j)
         \/ Commit(t) \/ Validate(t) \/ Consume(t) \/ PerformAction(t)
         \/ RecordOutcome(t) \/ RetryCommitted(t) \/ EndAttempt(t)
  PROVE  AttemptLeaves
  BY DEF AttemptLeaves, Check, Commit, Validate, Consume, PerformAction, RecordOutcome,
         RetryCommitted, EndAttempt, recordVars, clockVars, historyVars

LEMMA ToStep ==
  ASSUME ApprovalTypeOK, NEW t \in Attempts, NEW s, To(t, s)
  PROVE  /\ \A u \in Attempts \ {t} : attempt'[u] = attempt[u]
         /\ attempt'[t].step = s
         /\ attempt'[t].job = attempt[t].job
         /\ attempt'[t].args = attempt[t].args
  BY DEF To, ApprovalTypeOK, AttemptState

LEMMA CheckStep ==
  ASSUME ApprovalInv, ApprovalTypeOK', NEW t \in Attempts, NEW j \in Jobs, Check(t, j)
  PROVE  ApprovalInv'
  <1>1. \A i \in Jobs : SameJob(i)
    BY DEF Check, SameJob, recordVars, clockVars, historyVars
  <1>2. RecordInv(j) /\ BindingInv(j)
    BY DEF ApprovalInv
  <1>3. Steady(j) /\ Kept(j) /\ RecordInv(j)' /\ BindingInv(j)'
    BY <1>1, <1>2, SameIsSteady, JobFrame DEF Steady
  <1>4. /\ \A u \in Attempts \ {t} : attempt'[u] = attempt[u]
        /\ attempt'[t].step \in {"spent", "checked"}
        /\ attempt'[t].job = j /\ attempt'[t].args = call[j].args
        /\ req' = req
    BY DEF Check, ApprovalInv, ApprovalTypeOK
  <1>5. approval'[j].status = "approved" /\ decided'[j] = call[j].args
    BY <1>2 DEF Check, BindingInv, recordVars, historyVars
  <1>6. AttemptInv(t)' /\ ~Past(t)'
    BY <1>4, <1>5 DEF AttemptInv, Past, At
  <1> QED
    BY <1>1, <1>3, <1>4, <1>6, AttemptSide

LEMMA CommitStep ==
  ASSUME ApprovalInv, ApprovalTypeOK', NEW t \in Attempts, Commit(t)
  PROVE  ApprovalInv'
  <1>1. PICK j \in Jobs : j = attempt[t].job
    BY DEF ApprovalInv, ApprovalTypeOK, AttemptState
  <1>2. AttemptLeaves
    BY AttemptLeavesThese
  <1>3. /\ \A u \in Attempts \ {t} : attempt'[u] = attempt[u]
        /\ attempt'[t].step \in {"lost", "committed"}
        /\ attempt'[t].job = j /\ attempt'[t].args = attempt[t].args
    BY <1>1, ToStep DEF Commit, ApprovalInv
  <1>4. /\ phase[j] = "open" /\ phase'[j] = "committed" /\ acted' = acted
        /\ \A i \in Jobs \ {j} : phase'[i] = phase[i] /\ late'[i] = late[i]
        /\ late'[j] = (overdue[j] \/ grant[j] = "withdrawn")
        /\ call' = call /\ token' = token /\ events' = events /\ uses' = uses
        /\ performed' = performed
    BY <1>1 DEF Commit, CommitAction, Move, recordVars, ApprovalInv, ApprovalTypeOK,
                ActionTypeOK
  <1>5. RecordInv(j) /\ BindingInv(j) /\ AttemptInv(t)
    BY DEF ApprovalInv
  <1>6. \A i \in Jobs \ {j} : SameJob(i)
    BY <1>2, <1>4 DEF SameJob, AttemptLeaves
  <1>7. Kept(j)
    BY <1>2 DEF Kept, AttemptLeaves
  <1>8. RecordInv(j)'
    BY <1>2, <1>4, <1>5 DEF RecordInv, Declined, AttemptLeaves
  <1>9. BindingInv(j)'
    BY <1>2, <1>4, <1>5 DEF BindingInv, AttemptLeaves, Digest, ConsumesToken,
           task_grant_requires_approval_commit_token, NotCommitted
  <1>10. AttemptInv(t)'
    BY <1>1, <1>2, <1>3, <1>4, <1>5 DEF AttemptInv, BindingInv, AttemptLeaves, Past, At,
           NotCommitted, Commit
  <1>11. \A u \in Attempts \ {t} : attempt[u].job = j => ~Past(u)
    BY <1>4 DEF ApprovalInv, AttemptInv, NotCommitted
  <1> QED
    BY <1>2, <1>3, <1>6, <1>7, <1>8, <1>9, <1>10, <1>11, AttemptSide DEF AttemptLeaves

\* The attempt is the only one past the commit point of its action.
LEMMA PastIsAlone ==
  ASSUME ApprovalInv, NEW t \in Attempts, Past(t)
  PROVE  \A u \in Attempts \ {t} : attempt[u].job = attempt[t].job => ~Past(u)
  BY DEF ApprovalInv, Alone

LEMMA ValidateStep ==
  ASSUME ApprovalInv, ApprovalTypeOK', NEW t \in Attempts, Validate(t) \/ EndAttempt(t)
  PROVE  ApprovalInv'
  <1>1. PICK j \in Jobs : j = attempt[t].job
    BY DEF ApprovalInv, ApprovalTypeOK, AttemptState
  <1>2. \A i \in Jobs : SameJob(i)
    BY DEF Validate, EndAttempt, SameJob, recordVars, clockVars, historyVars
  <1>3. /\ \A u \in Attempts \ {t} : attempt'[u] = attempt[u]
        /\ attempt'[t].job = j /\ attempt'[t].args = attempt[t].args
        /\ \/ attempt'[t].step = "idle"
           \/ At(t, "committed") /\ attempt'[t].step = "lost"
           \/ /\ At(t, "committed") /\ attempt'[t].step = "validated"
              /\ ConsumesToken(j) /\ validate_approval_commit_token(j, attempt[t].args)
    BY <1>1, ToStep DEF Validate, EndAttempt, ApprovalInv
  <1>4. RecordInv(j) /\ BindingInv(j) /\ AttemptInv(t)
    BY DEF ApprovalInv
  <1>5. Steady(j) /\ Kept(j) /\ RecordInv(j)' /\ BindingInv(j)'
    BY <1>2, <1>4, SameIsSteady, JobFrame DEF Steady
  <1>6. attempt'[t].step = "validated" => kind[j] = "connector" /\ ~late[j]
    BY <1>3, <1>4 DEF BindingInv, ConsumesToken, validate_approval_commit_token,
                      task_grant_requires_approval_commit_token
  <1>7. AttemptInv(t)'
    <2>1. SameJob(j)
      BY <1>2
    <2> QED
      BY <1>1, <1>3, <1>4, <1>6, <2>1 DEF AttemptInv, SameJob, Past, At,
         validate_approval_commit_token
  <1>8. Past(t)' => \A u \in Attempts \ {t} : attempt[u].job = j => ~Past(u)
    BY <1>1, <1>3, PastIsAlone DEF Past, At
  <1>9. req' = req
    BY DEF Validate, EndAttempt
  <1> QED
    BY <1>2, <1>3, <1>5, <1>7, <1>8, <1>9, AttemptSide

LEMMA ConsumeStep ==
  ASSUME ApprovalInv, ApprovalTypeOK', NEW t \in Attempts, Consume(t)
  PROVE  ApprovalInv'
  <1>1. PICK j \in Jobs : j = attempt[t].job
    BY DEF ApprovalInv, ApprovalTypeOK, AttemptState
  <1>2. AttemptLeaves
    BY AttemptLeavesThese
  <1>3. /\ \A u \in Attempts \ {t} : attempt'[u] = attempt[u]
        /\ attempt'[t].step = "consumed" /\ At(t, "validated")
        /\ attempt'[t].job = j /\ attempt'[t].args = attempt[t].args
    BY <1>1, ToStep DEF Consume, ApprovalInv
  <1>4. /\ token'[j].status = "consumed" /\ token'[j].hash = token[j].hash
        /\ uses'[j] = uses[j] + 1
        /\ \A i \in Jobs \ {j} : token'[i] = token[i] /\ uses'[i] = uses[i]
    BY <1>1 DEF Consume, ApprovalInv, ApprovalTypeOK, TokenRow
  <1>5. /\ phase' = phase /\ acted' = acted /\ call' = call /\ events' = events
        /\ performed' = performed /\ late' = late
    BY DEF Consume, historyVars
  <1>6. RecordInv(j) /\ BindingInv(j) /\ AttemptInv(t)
    BY DEF ApprovalInv
  <1>7. /\ approval[j].status = "approved" /\ kind[j] = "connector" /\ ~late[j]
        /\ acted[j] = 0 /\ uses[j] = 0 /\ token[j].status # "none"
        /\ ~NotCommitted(phase[j])
    BY <1>1, <1>3, <1>6 DEF AttemptInv, Past, At
  <1>8. \A i \in Jobs \ {j} : SameJob(i)
    BY <1>2, <1>4, <1>5 DEF SameJob, AttemptLeaves
  <1>9. Kept(j)
    BY <1>2 DEF Kept, AttemptLeaves
  <1>10. RecordInv(j)'
    BY <1>2, <1>4, <1>5, <1>6, <1>7 DEF RecordInv, Declined, AttemptLeaves
  <1>11. BindingInv(j)'
    BY <1>2, <1>4, <1>5, <1>6, <1>7 DEF BindingInv, AttemptLeaves, Digest, ConsumesToken,
           task_grant_requires_approval_commit_token
  <1>12. AttemptInv(t)'
    BY <1>1, <1>2, <1>3, <1>4, <1>5, <1>6, <1>7 DEF AttemptInv, AttemptLeaves, Past, At
  <1>13. \A u \in Attempts \ {t} : attempt[u].job = j => ~Past(u)
    BY <1>1, <1>3, PastIsAlone DEF Past, At
  <1> QED
    BY <1>2, <1>3, <1>8, <1>9, <1>10, <1>11, <1>12, <1>13, AttemptSide DEF AttemptLeaves

LEMMA PerformStep ==
  ASSUME ApprovalInv, ApprovalTypeOK', NEW t \in Attempts, PerformAction(t)
  PROVE  ApprovalInv'
  <1>1. PICK j \in Jobs : j = attempt[t].job
    BY DEF ApprovalInv, ApprovalTypeOK, AttemptState
  <1>2. AttemptLeaves
    BY AttemptLeavesThese
  <1>3. /\ \A u \in Attempts \ {t} : attempt'[u] = attempt[u]
        /\ attempt'[t].step = "acted"
        /\ attempt'[t].job = j /\ attempt'[t].args = attempt[t].args
        /\ IF ConsumesToken(j) THEN At(t, "consumed") ELSE At(t, "committed")
    BY <1>1, ToStep DEF PerformAction, ApprovalInv
  <1>4. /\ acted'[j] = 1 /\ performed'[j] = attempt[t].args
        /\ \A i \in Jobs \ {j} : acted'[i] = acted[i] /\ performed'[i] = performed[i]
        /\ phase' = phase
    BY <1>1 DEF PerformAction, Act, ApprovalInv, ApprovalTypeOK, ActionTypeOK
  <1>5. /\ call' = call /\ events' = events /\ token' = token /\ uses' = uses
        /\ late' = late
    BY DEF PerformAction, recordVars
  <1>6. RecordInv(j) /\ BindingInv(j) /\ AttemptInv(t)
    BY DEF ApprovalInv
  <1>7. /\ approval[j].status = "approved" /\ attempt[t].args = decided[j]
        /\ ~NotCommitted(phase[j])
        /\ kind[j] # "ungranted"
        /\ kind[j] = "connector" => token[j].status = "consumed" /\ ~late[j]
    BY <1>1, <1>3, <1>6 DEF AttemptInv, Past, At, ConsumesToken
  <1>8. \A i \in Jobs \ {j} : SameJob(i)
    BY <1>2, <1>4, <1>5 DEF SameJob, AttemptLeaves
  <1>9. Kept(j)
    BY <1>2 DEF Kept, AttemptLeaves
  <1>10. RecordInv(j)'
    BY <1>2, <1>4, <1>5, <1>6, <1>7 DEF RecordInv, Declined, AttemptLeaves
  <1>11. BindingInv(j)'
    BY <1>2, <1>4, <1>5, <1>6, <1>7 DEF BindingInv, AttemptLeaves, Digest, ConsumesToken,
           task_grant_requires_approval_commit_token
  <1>12. AttemptInv(t)'
    BY <1>2, <1>3, <1>4, <1>7 DEF AttemptInv, AttemptLeaves, Past, At
  <1>13. \A u \in Attempts \ {t} : attempt[u].job = j => ~Past(u)
    BY <1>1, <1>3, PastIsAlone DEF Past, At
  <1> QED
    BY <1>2, <1>3, <1>8, <1>9, <1>10, <1>11, <1>12, <1>13, AttemptSide DEF AttemptLeaves

LEMMA OutcomeStep ==
  ASSUME ApprovalInv, ApprovalTypeOK', NEW t \in Attempts, RecordOutcome(t)
  PROVE  ApprovalInv'
  <1>1. PICK j \in Jobs : j = attempt[t].job
    BY DEF ApprovalInv, ApprovalTypeOK, AttemptState
  <1>2. AttemptLeaves
    BY AttemptLeavesThese
  <1>3. /\ \A u \in Attempts \ {t} : attempt'[u] = attempt[u]
        /\ attempt'[t].step = "idle" /\ attempt'[t].job = j
    BY <1>1, ToStep DEF RecordOutcome, ApprovalInv
  <1>4. PICK s \in {"completed", "failed"}, type \in {"tool.result", "tool.error"} :
          /\ call' = [call EXCEPT ![j].status = s]
          /\ events' = events \cup {Event(j, type)}
    BY <1>1 DEF RecordOutcome
  <1>5. /\ call'[j].args = call[j].args /\ call'[j].hash = call[j].hash
        /\ \A i \in Jobs \ {j} : call'[i] = call[i]
    BY <1>4 DEF ApprovalInv, ApprovalTypeOK, CallRow
  <1>6. \A i, d : Event(i, d) \in events' <=> Event(i, d) \in events \/ (i = j /\ d = type)
    BY <1>4 DEF Event
  <1>7. /\ phase' = phase /\ acted' = acted /\ token' = token /\ uses' = uses
        /\ performed' = performed /\ late' = late
    BY DEF RecordOutcome, historyVars
  <1>8. RecordInv(j) /\ BindingInv(j) /\ approval[j].status = "approved"
    BY <1>1 DEF ApprovalInv, AttemptInv, RecordOutcome, At
  <1>9. \A i \in Jobs \ {j} : SameJob(i)
    BY <1>2, <1>5, <1>6, <1>7 DEF SameJob, AttemptLeaves
  <1>10. Steady(j) /\ Kept(j)
    BY <1>2, <1>7 DEF Steady, Kept, AttemptLeaves
  <1>11. RecordInv(j)'
    BY <1>2, <1>4, <1>6, <1>7, <1>8 DEF RecordInv, Declined, AttemptLeaves, Decisions
  <1>12. BindingInv(j)'
    BY <1>2, <1>5, <1>7, <1>8 DEF BindingInv, AttemptLeaves, Digest, ConsumesToken,
           task_grant_requires_approval_commit_token
  <1>13. AttemptInv(t)' /\ ~Past(t)'
    BY <1>3 DEF AttemptInv, Past, At
  <1> QED
    BY <1>2, <1>3, <1>9, <1>10, <1>11, <1>12, <1>13, AttemptSide DEF AttemptLeaves

LEMMA RetryStep ==
  ASSUME ApprovalInv, ApprovalTypeOK', NEW t \in Attempts, RetryCommitted(t)
  PROVE  ApprovalInv'
  <1>1. PICK j \in Jobs : j = attempt[t].job
    BY DEF ApprovalInv, ApprovalTypeOK, AttemptState
  <1>2. AttemptLeaves
    BY AttemptLeavesThese
  <1>3. /\ \A u \in Attempts \ {t} : attempt'[u] = attempt[u]
        /\ attempt'[t].step = "idle" /\ attempt'[t].job = j
        /\ At(t, "committed") /\ ~ConsumesToken(j)
    BY <1>1, ToStep DEF RetryCommitted, ApprovalInv
  <1>4. /\ phase[j] = "committed" /\ acted[j] = 0 /\ acted' = acted
        /\ phase'[j] = "open" /\ \A i \in Jobs \ {j} : phase'[i] = phase[i]
    BY <1>1 DEF RetryCommitted, Retreat, Move, ApprovalInv, ApprovalTypeOK, ActionTypeOK
  <1>5. /\ call' = call /\ events' = events /\ token' = token /\ uses' = uses
        /\ performed' = performed /\ late' = late
    BY DEF RetryCommitted, recordVars, historyVars
  <1>6. RecordInv(j) /\ BindingInv(j) /\ approval[j].status = "approved"
    BY <1>1, <1>3 DEF ApprovalInv, AttemptInv, At
  <1>7. \A i \in Jobs \ {j} : SameJob(i)
    BY <1>2, <1>4, <1>5 DEF SameJob, AttemptLeaves
  <1>8. Kept(j)
    BY <1>2 DEF Kept, AttemptLeaves
  <1>9. RecordInv(j)'
    BY <1>2, <1>4, <1>5, <1>6 DEF RecordInv, Declined, AttemptLeaves
  <1>10. BindingInv(j)'
    BY <1>2, <1>3, <1>4, <1>5, <1>6 DEF BindingInv, AttemptLeaves, Digest, ConsumesToken,
           task_grant_requires_approval_commit_token
  <1>11. AttemptInv(t)' /\ ~Past(t)'
    BY <1>3 DEF AttemptInv, Past, At
  <1>12. \A u \in Attempts \ {t} : attempt[u].job = j => ~Past(u)
    BY <1>1, <1>3, PastIsAlone DEF Past, At
  <1> QED
    BY <1>2, <1>3, <1>7, <1>8, <1>9, <1>10, <1>11, <1>12, AttemptSide DEF AttemptLeaves

LEMMA StepInv == ApprovalInv /\ [ApprovalNext]_vars => ApprovalInv'
  <1> SUFFICES ASSUME ApprovalInv, [ApprovalNext]_vars PROVE ApprovalInv'
    OBVIOUS
  <1>1. ApprovalTypeOK'
    BY StepType DEF ApprovalInv
  <1>2. CASE UNCHANGED vars
    BY <1>2 DEF vars, ApprovalInv, ApprovalTypeOK, ActionTypeOK, RecordInv, BindingInv,
                CallerInv, AttemptInv, Alone, Past, At, Declined, Digest, ConsumesToken,
                task_grant_requires_approval_commit_token
  <1>3. CASE \E j \in Jobs :
                \/ Clock(j) \/ WithdrawGrant(j)
                \/ CommitInvocation(j) \/ InsertApproval(j) \/ MarkWaiting(j)
                \/ AbandonInvocation(j)
                \/ DueRead(j) \/ Settle(j)
    BY <1>1, <1>3, EnvironmentStep, AskingStep, ReadStep
  <1>4. CASE \E c \in Requests, j \in Jobs : ReadForDecision(c, j) \/ ReadForExpiry(c, j)
    BY <1>1, <1>4, ReadStep
  <1>5. CASE \E c \in Callers : CallerStep(c) \/ DropRequest(c)
    BY <1>1, <1>5, ApproveStep, IssueStep, EnqueueStep, DeclineStep, ModifyStep,
       EscalateStep DEF CallerStep
  <1>6. CASE \E t \in Attempts, j \in Jobs : Check(t, j)
    BY <1>1, <1>6, CheckStep
  <1>7. CASE \E t \in Attempts :
                \/ Commit(t) \/ Validate(t) \/ Consume(t) \/ PerformAction(t)
                \/ RecordOutcome(t) \/ RetryCommitted(t) \/ EndAttempt(t)
    BY <1>1, <1>7, CommitStep, ValidateStep, ConsumeStep, PerformStep, OutcomeStep,
       RetryStep
  <1> QED
    BY <1>2, <1>3, <1>4, <1>5, <1>6, <1>7 DEF ApprovalNext

LEMMA InvHolds == ApprovalSpec => []ApprovalInv
  BY InitInv, StepInv, PTL DEF ApprovalSpec
-----------------------------------------------------------------------------
(* The properties *)

\* One decision wins, however many requests, due runs and turns race for it.
THEOREM OneDecisionHolds == ApprovalSpec => []OneDecision
  <1>1. ApprovalInv => OneDecision
    <2> SUFFICES ASSUME ApprovalInv, NEW j \in Jobs
                 PROVE  /\ Declined(j) => /\ phase[j] = "none" /\ acted[j] = 0
                                          /\ token[j].status = "none"
                                          /\ Event(j, approval[j].status) \in events
                                          /\ \/ Event(j, "denial") \in events
                                             \/ approval[j].status = "expired"
                                                /\ call[j].status = "waiting_approval"
                        /\ \A e, f \in events :
                              (e.job = j /\ f.job = j
                                 /\ {e.type, f.type} \subseteq Decisions) => e = f
      BY DEF OneDecision
    <2>1. RecordInv(j) /\ BindingInv(j)
      BY DEF ApprovalInv
    <2>2. \A e \in events : e.job = j => e = Event(j, e.type)
      BY DEF ApprovalInv, ApprovalTypeOK, EventRow, Event
    <2> QED
      BY <2>1, <2>2 DEF RecordInv, BindingInv, Declined, NotCommitted
  <1> QED
    BY <1>1, InvHolds, PTL

\* The tool acts with the arguments that were approved, and a connector with a
\* consumed token that carries their digest.
THEOREM ExactBindingHolds == ApprovalSpec => []ExactBinding
  <1>1. ApprovalInv => ExactBinding
    <2> SUFFICES ASSUME ApprovalInv, NEW j \in Jobs, acted[j] > 0
                 PROVE  /\ approval[j].status = "approved"
                        /\ performed[j] = decided[j]
                        /\ kind[j] # "ungranted"
                        /\ kind[j] = "connector" =>
                              token[j] = [status |-> "consumed", hash |-> performed[j]]
      BY DEF ExactBinding
    <2>1. RecordInv(j) /\ BindingInv(j)
      BY DEF ApprovalInv
    <2>2. approval[j].status = "approved"
      BY <2>1 DEF RecordInv, BindingInv, NotCommitted, ApprovalInv, ApprovalTypeOK,
                  ActionTypeOK
    <2>3. token[j] = [status |-> token[j].status, hash |-> token[j].hash]
      BY DEF ApprovalInv, ApprovalTypeOK, TokenRow
    <2> QED
      BY <2>1, <2>2, <2>3 DEF BindingInv
  <1> QED
    BY <1>1, InvHolds, PTL

\* A commit token is consumed at most once: the commit point lets one attempt
\* through, and the job of a call that consumes its token never goes back.
THEOREM TokenIsSingleUseHolds == ApprovalSpec => []TokenIsSingleUse
  <1>1. ApprovalInv => TokenIsSingleUse
    BY DEF ApprovalInv, BindingInv, TokenIsSingleUse
  <1> QED
    BY <1>1, InvHolds, PTL

\* Authority that had lapsed when an attempt committed stops the write of a
\* connector: lapsed authority does not come back, and is validated again.
THEOREM LapsedAuthorityHolds == ApprovalSpec => []LapsedAuthorityStopsTheWrite
  <1>1. ApprovalInv => LapsedAuthorityStopsTheWrite
    BY DEF ApprovalInv, ApprovalTypeOK, ActionTypeOK, BindingInv,
           LapsedAuthorityStopsTheWrite
  <1> QED
    BY <1>1, InvHolds, PTL

\* A step that leaves the approvals, their statuses, or everything but one
\* pending or unborn approval alone, takes no decision back.
LEMMA DecisionStays ==
  ASSUME ApprovalInv, ApprovalNext
  PROVE  \A i \in Jobs : approval[i].status \in Decisions =>
            approval'[i].status = approval[i].status
  <1> SUFFICES ASSUME NEW i \in Jobs, approval[i].status \in Decisions
               PROVE  approval'[i].status = approval[i].status
    OBVIOUS
  <1>1. CASE approval' = approval
    BY <1>1
  <1>2. CASE \E j \in Jobs : InsertApproval(j)
    <2>1. PICK j \in Jobs : InsertApproval(j)
      BY <1>2
    <2>2. approval[j].status = "absent"
      BY <2>1 DEF InsertApproval, Ask, ApprovalInv, RecordInv
    <2> QED
      BY <2>1, <2>2 DEF InsertApproval, Decisions, ApprovalInv, ApprovalTypeOK
  <1>3. CASE \E c \in Callers : CallerStep(c)
    <2>1. PICK c \in Callers : CallerStep(c)
      BY <1>3
    <2>2. PICK j \in Jobs : j = req[c].job
      BY DEF ApprovalInv, ApprovalTypeOK, RequestState
    <2>3. \/ approval' = approval
          \/ approval' = [approval EXCEPT ![j].escalated = TRUE]
          \/ \E d \in Decisions : /\ approval[j].status \in {"pending", d}
                                  /\ approval' = [approval EXCEPT ![j].status = d]
      BY <2>1, <2>2 DEF CallerStep, Approve, IssueToken, EnqueueApproved, Decline, Modify,
                        Escalate, decline_approval_and_tool_call, Decisions
    <2> QED
      BY <2>3 DEF ApprovalInv, ApprovalTypeOK, ApprovalRow, Decisions
  <1>4. \/ approval' = approval
        \/ \E j \in Jobs : InsertApproval(j)
        \/ \E c \in Callers : CallerStep(c)
    BY DEF ApprovalNext, Clock, WithdrawGrant, CommitInvocation, MarkWaiting,
           AbandonInvocation, DueRead, Settle, ReadForDecision, ReadForExpiry, DropRequest,
           Check, Commit, Validate, Consume, PerformAction, RecordOutcome, RetryCommitted,
           EndAttempt, recordVars
  <1> QED
    BY <1>1, <1>2, <1>3, <1>4

\* A decision is never taken back or replaced, whatever older copy of the
\* approval a request works on.
THEOREM DecisionIsFinalHolds == ApprovalSpec => DecisionIsFinal
  <1>1. ApprovalInv /\ [ApprovalNext]_vars =>
          [\A j \in Jobs : approval[j].status \in Decisions =>
              approval'[j].status = approval[j].status]_vars
    BY DecisionStays
  <1> QED
    BY <1>1, InvHolds, PTL DEF ApprovalSpec, DecisionIsFinal
-----------------------------------------------------------------------------
(* The protocol uses the execution runtime as ApprovedAction promises it *)

\* Every step is a step of the approved action or leaves it alone.
LEMMA ActionStep ==
  ASSUME ApprovalTypeOK, ApprovalNext
  PROVE  [ActionNext]_<<phase, acted>>
  <1>1. CASE \E c \in Callers : EnqueueApproved(c)
    BY <1>1 DEF EnqueueApproved, ActionNext, ApprovalTypeOK, RequestState
  <1>2. CASE \E t \in Attempts : Commit(t) \/ PerformAction(t) \/ RetryCommitted(t)
    BY <1>2 DEF Commit, PerformAction, RetryCommitted, ActionNext, ApprovalTypeOK,
                AttemptState
  <1>3. CASE \E j \in Jobs : Settle(j)
    BY <1>3 DEF Settle, ActionNext
  <1>4. \/ UNCHANGED <<phase, acted>>
        \/ \E c \in Callers : EnqueueApproved(c)
        \/ \E t \in Attempts : Commit(t) \/ PerformAction(t) \/ RetryCommitted(t)
        \/ \E j \in Jobs : Settle(j)
    BY DEF ApprovalNext, CallerStep, Clock, WithdrawGrant, CommitInvocation,
           InsertApproval, MarkWaiting, AbandonInvocation, Ask, DueRead, ReadForDecision,
           ReadForExpiry, DropRequest, Approve, IssueToken, Decline, Modify, Escalate,
           Check, Validate, Consume, RecordOutcome, EndAttempt
  <1> QED
    BY <1>1, <1>2, <1>3, <1>4

\* The approval protocol drives each action only in ways the execution runtime
\* allows, so what ExecutionWorker implements is what it is composed with.
THEOREM ApprovalsUseTheRuntime == ApprovalSpec => Spec
  <1>1. ApprovalInit => ActionInit
    BY DEF ApprovalInit
  <1>2. ApprovalTypeOK /\ [ApprovalNext]_vars => [ActionNext]_<<phase, acted>>
    BY ActionStep DEF vars
  <1> QED
    BY <1>1, <1>2, ApprovalTypeCorrect, PTL DEF ApprovalSpec, Spec
=============================================================================
