----------------------------- MODULE TaskGrants -----------------------------
(***************************************************************************)
(* Task grants of one workflow run (store_workflows.rs, store_tool_calls   *)
(* .rs, workflow_task_grants.rs): the root grant, the child grants that    *)
(* graph steps, handoffs and the API delegate from it, the budgets that    *)
(* turns, tool calls and provider costs are charged to along the whole     *)
(* lineage, and the closing of grants when a step or the run ends.         *)
(*                                                                         *)
(* A transaction that locks the run or the lineage is one step.  What the  *)
(* code reads before it (the parent whose remaining budget a child gets,   *)
(* the check before a turn, the list of grants to close) is an earlier     *)
(* step, so it may be stale.  The clock is not a variable: a deadline that *)
(* has passed shows as refusals and as Expire.  The status of the run is   *)
(* written without a condition: a worker with an old copy of the run may   *)
(* end it again or write an executable status over its end.                *)
(***************************************************************************)
EXTENDS Naturals, FiniteSetsExt

CONSTANTS
    Grants,          \* identities of grants
    Root,            \* the root grant of the run
    Steps,           \* identities of step runs
    Sessions,        \* sessions of the run
    Loops,           \* turns that workers have under way, in any session
    Enders,          \* requests that end the run and close its grants
    SessionOf,       \* the session a grant is issued for
    Issuers,         \* concurrent requests that delegate a grant
    Offers,          \* limits an API request may ask for
    RootLimits,      \* limits a workflow definition may give the root grant
    StepEndings,     \* endings of step runs, as their grants record them
    RunEndings,      \* endings of the run, likewise: any failure is "cancelled"
    NoLimit,         \* a budget that is not set
    NoGrant,
    NoStep,
    MaxUse,          \* bound on the usage of an unlimited budget
    MaxCharge        \* the most a single provider response costs

Kinds   == {"turn", "call"}
Limit   == (Nat \ {0}) \cup {NoLimit}
Limits  == [turn : Limit, call : Limit, cost : Limit]

ASSUME GrantsAssumption ==
    /\ Root \in Grants
    /\ NoGrant \notin Grants /\ NoStep \notin Steps
    /\ NoLimit \notin Nat
    /\ StepEndings \subseteq {"completed", "cancelled"}
    /\ RunEndings \subseteq {"completed", "cancelled"}
    /\ SessionOf \in [Grants -> Sessions]
    /\ Offers \subseteq Limits /\ RootLimits \subseteq Limits /\ RootLimits # {}
    /\ MaxUse \in Nat /\ MaxCharge \in Nat
    /\ IsFiniteSet(Loops)

VARIABLES
    run,             \* workflow_runs.status, executable or ended
    stepStatus,      \* workflow_step_runs.status
    status,          \* task_grants.status
    parent,          \* parent_grant_id
    lineage,         \* the grant and its ancestors; parents never change
    stepOf,          \* workflow_step_run_id
    limit,           \* max_turns, max_tool_calls, max_cost_usd_micros
    used,            \* turns_used, tool_calls_used
    cost,            \* cost_usd_micros_used
    latest,          \* the newest grant of a session
    turn,            \* where each turn is, and the grant it is charged to
    issue,           \* where each delegation is and what it read
    closing,         \* what each end of the run writes and still has to close
    reopened,        \* an executable status was written over an end (history)
    revived          \* the grants delegated since then (history)

grantVars == <<status, parent, lineage, stepOf, limit, used, cost, latest>>
runVars == <<run, closing, reopened, revived>>
vars == <<run, stepStatus, status, parent, lineage, stepOf, limit, used, cost, latest, turn, issue,
          closing, reopened, revived>>

Terminal == StepEndings \cup RunEndings \cup {"expired"}
NoIssue  == [at |-> "idle", from |-> NoGrant, wants |-> CHOOSE l \in RootLimits : TRUE]
Closing  == [at : {"idle", "list", "close", "done", "failed"},
             as : RunEndings \cup {"none"}, todo : SUBSET Grants]

GrantsTypeOK ==
    /\ run \in {"executable"} \cup RunEndings
    /\ stepStatus \in [Steps -> {"absent", "open"} \cup StepEndings]
    /\ status \in [Grants -> {"absent", "active"} \cup Terminal]
    /\ parent \in [Grants -> Grants \cup {NoGrant}]
    /\ lineage \in [Grants -> SUBSET Grants]
    /\ stepOf \in [Grants -> Steps \cup {NoStep}]
    /\ limit \in [Grants -> Limits]
    /\ used \in [Grants -> [Kinds -> Nat]]
    /\ cost \in [Grants -> Nat]
    /\ latest \in [Sessions -> Grants \cup {NoGrant}]
    /\ turn \in [Loops -> [at : {"idle", "checked", "running"},
                           grant : Grants \cup {NoGrant}]]
    /\ issue \in [Issuers -> [at : {"idle", "step", "api"},
                              from : Grants \cup {NoGrant}, wants : Limits]]
    /\ closing \in [Enders -> Closing]
    /\ reopened \in BOOLEAN
    /\ revived \subseteq Grants

Primary == SessionOf[Root]
Unused  == [k \in Kinds |-> 0]

\* start_workflow_run has issued the root grant.
GrantsInit ==
    /\ run = "executable"
    /\ stepStatus = [s \in Steps |-> "absent"]
    /\ status = [g \in Grants |-> IF g = Root THEN "active" ELSE "absent"]
    /\ parent = [g \in Grants |-> NoGrant]
    /\ lineage = [g \in Grants |-> IF g = Root THEN {Root} ELSE {}]
    /\ stepOf = [g \in Grants |-> NoStep]
    /\ \E l \in RootLimits : limit = [g \in Grants |-> l]
    /\ used = [g \in Grants |-> Unused]
    /\ cost = [g \in Grants |-> 0]
    /\ latest = [x \in Sessions |-> IF x = Primary THEN Root ELSE NoGrant]
    /\ turn = [l \in Loops |-> [at |-> "idle", grant |-> NoGrant]]
    /\ issue = [i \in Issuers |-> NoIssue]
    /\ closing = [c \in Enders |-> [at |-> "idle", as |-> "none", todo |-> {}]]
    /\ reopened = FALSE /\ revived = {}
-----------------------------------------------------------------------------
(* What a grant allows *)

\* Mutant: a budget that is used up exactly still allows another turn.
CostExceeded(g) == limit[g].cost # NoLimit /\ cost[g] > limit[g].cost

CostExhausted(g) == limit[g].cost # NoLimit /\ cost[g] >= limit[g].cost

task_grant_runtime_denial(g) ==
    status[g] # "active" \/ CostExhausted(g)

Exhausted(g, k) == limit[g][k] # NoLimit /\ used[g][k] >= limit[g][k]

task_grant_reservation_denial(g, k) ==
    task_grant_runtime_denial(g) \/ Exhausted(g, k)

StepEnded(g) == stepOf[g] # NoStep /\ stepStatus[stepOf[g]] \in StepEndings

task_grant_lineage_denial(g) ==
    \E h \in lineage[g] : StepEnded(h) \/ task_grant_runtime_denial(h)

\* Mutant: a child without a limit passes under any parent.
LimitIfGiven(p, c) == p # NoLimit /\ c # NoLimit => c <= p

limit_within_parent(p, c) == p # NoLimit => c # NoLimit /\ c <= p

Remaining(l, n) == IF l = NoLimit THEN NoLimit ELSE l - n

task_grant_remaining_budgets(g) ==
    [turn |-> Remaining(limit[g].turn, used[g]["turn"]),
     call |-> Remaining(limit[g].call, used[g]["call"]),
     cost |-> Remaining(limit[g].cost, cost[g])]

BudgetLeft(g) == ~Exhausted(g, "turn") /\ ~Exhausted(g, "call") /\ ~CostExhausted(g)

ensure_child_task_grant_within_parent(g, wants) ==
    /\ BudgetLeft(g)
    /\ LET left == task_grant_remaining_budgets(g) IN
          \A k \in {"turn", "call", "cost"} : limit_within_parent(left[k], wants[k])
-----------------------------------------------------------------------------
(* Delegation *)

\* A graph step or a handoff hands on what it sees left of the parent.
ReadParentForStep(i, p) ==
    /\ issue[i].at = "idle" /\ status[p] # "absent"
    /\ run = "executable" /\ BudgetLeft(p)
    /\ issue' = [issue EXCEPT ![i] =
          [at |-> "step", from |-> p, wants |-> task_grant_remaining_budgets(p)]]
    /\ UNCHANGED <<runVars, stepStatus, grantVars, turn>>

ReadParentForRequest(i, p) ==
    /\ issue[i].at = "idle" /\ status[p] = "active"
    /\ \E wants \in Offers :
          /\ ensure_child_task_grant_within_parent(p, wants)
          /\ issue' = [issue EXCEPT ![i] =
                [at |-> "api", from |-> p, wants |-> wants]]
    /\ UNCHANGED <<runVars, stepStatus, grantVars, turn>>

Record(g, p, s, wants) ==
    /\ status' = [status EXCEPT ![g] = "active"]
    /\ parent' = [parent EXCEPT ![g] = p]
    /\ lineage' = [lineage EXCEPT ![g] = {g} \cup lineage[p]]
    /\ stepOf' = [stepOf EXCEPT ![g] = s]
    /\ limit' = [limit EXCEPT ![g] = wants]
    /\ latest' = IF SessionOf[g] = Primary THEN latest
                 ELSE [latest EXCEPT ![SessionOf[g]] = g]

\* Mutant: the run is not locked with the parent.
CreateChildUnlocked(i, g) ==
    LET p == issue[i].from IN
    /\ issue[i].at = "api" /\ status[g] = "absent"
    /\ ~task_grant_runtime_denial(p)
    /\ ensure_child_task_grant_within_parent(p, issue[i].wants)
    /\ Record(g, p, NoStep, issue[i].wants)
    /\ issue' = [issue EXCEPT ![i] = NoIssue]
    /\ revived' = IF reopened THEN revived \cup {g} ELSE revived
    /\ UNCHANGED <<run, closing, reopened, stepStatus, used, cost, turn>>

\* create_workflow_step_run_with_task_grant and create_task_grant, when the
\* locked run and parent still allow the child.
CreateChild(i, g) ==
    LET p == issue[i].from IN
    /\ issue[i].at # "idle" /\ status[g] = "absent"
    /\ run = "executable"
    /\ ~task_grant_runtime_denial(p)
    /\ ensure_child_task_grant_within_parent(p, issue[i].wants)
    /\ \/ /\ issue[i].at = "step"
          /\ \E s \in Steps :
                /\ stepStatus[s] = "absent"
                /\ stepStatus' = [stepStatus EXCEPT ![s] = "open"]
                /\ Record(g, p, s, issue[i].wants)
       \/ /\ issue[i].at = "api"
          /\ \E s \in {NoStep} \cup {s \in Steps : stepStatus[s] # "absent"} :
                Record(g, p, s, issue[i].wants)
          /\ UNCHANGED stepStatus
    /\ issue' = [issue EXCEPT ![i] = NoIssue]
    /\ revived' = IF reopened THEN revived \cup {g} ELSE revived
    /\ UNCHANGED <<run, closing, reopened, used, cost, turn>>

\* The transaction refuses, and marks a parent whose deadline has passed.
RefuseChild(i) ==
    /\ issue[i].at # "idle"
    /\ issue' = [issue EXCEPT ![i] = NoIssue]
    /\ \/ UNCHANGED status
       \/ /\ run = "executable" /\ status[issue[i].from] = "active"
          /\ status' = [status EXCEPT ![issue[i].from] = "expired"]
    /\ UNCHANGED <<runVars, stepStatus, parent, lineage, stepOf, limit, used, cost,
                   latest, turn>>
-----------------------------------------------------------------------------
(* Charges *)

\* Mutant: only the grant itself is charged.
ChargeOwn(g, k) == used' = [used EXCEPT ![g][k] = @ + 1]

Charge(g, k) ==
    used' = [h \in Grants |->
        IF h \in lineage[g] THEN [used[h] EXCEPT ![k] = @ + 1] ELSE used[h]]

\* Mutant: the ancestors are charged without being checked.
ReserveOwn(g, k) ==
    /\ ~task_grant_reservation_denial(g, k)
    /\ \A h \in lineage[g] : used[h][k] < MaxUse
    /\ Charge(g, k)

\* reserve_task_grant_usage: every grant of the lineage has room.
Reserve(g, k) ==
    /\ \A h \in lineage[g] :
          ~task_grant_reservation_denial(h, k) /\ used[h][k] < MaxUse
    /\ Charge(g, k)

\* A check or a reservation meets a grant whose expires_at or
\* max_runtime_seconds has passed, and marks it.
Expire(g) ==
    /\ status[g] = "active"
    /\ status' = [status EXCEPT ![g] = "expired"]
    /\ UNCHANGED <<runVars, stepStatus, parent, lineage, stepOf, limit, used, cost,
                   latest, turn, issue>>

\* active_task_grant_for_session, for any session: after a takeover two turns
\* of one session may be under way.
CheckTurn(l, x) ==
    /\ turn[l].at = "idle" /\ latest[x] # NoGrant
    /\ ~task_grant_lineage_denial(latest[x])
    /\ turn' = [turn EXCEPT ![l] = [at |-> "checked", grant |-> latest[x]]]
    /\ UNCHANGED <<runVars, stepStatus, grantVars, issue>>

\* reserve_task_grant_turn, several awaits later.
ReserveTurn(l) ==
    /\ turn[l].at = "checked"
    /\ Reserve(turn[l].grant, "turn")
    /\ turn' = [turn EXCEPT ![l].at = "running"]
    /\ UNCHANGED <<runVars, stepStatus, status, parent, lineage, stepOf, limit, cost,
                   latest, issue>>

\* The provider answered: add_task_grant_cost charges the lineage, whatever
\* became of it and of the worker's lease.  Only a grant with a cost budget is
\* metered.
FinishTurn(l) ==
    LET g == turn[l].grant IN
    /\ turn[l].at = "running"
    /\ \E c \in IF limit[g].cost = NoLimit THEN {0} ELSE 0..MaxCharge :
          cost' = [h \in Grants |->
              IF h \in lineage[g] THEN cost[h] + c ELSE cost[h]]
    /\ turn' = [turn EXCEPT ![l] = [at |-> "idle", grant |-> NoGrant]]
    /\ UNCHANGED <<runVars, stepStatus, status, parent, lineage, stepOf, limit, used,
                   latest, issue>>

\* The turn is refused, fails or dies with its worker.
DropTurn(l) ==
    /\ turn[l].at # "idle"
    /\ turn' = [turn EXCEPT ![l] = [at |-> "idle", grant |-> NoGrant]]
    /\ UNCHANGED <<runVars, stepStatus, grantVars, issue>>

\* commit_tool_invocation_start: run, lineage and steps are locked together.
CommitCall(g) ==
    /\ status[g] # "absent"
    /\ run = "executable"
    /\ \A h \in lineage[g] : ~StepEnded(h)
    /\ Reserve(g, "call")
    /\ UNCHANGED <<runVars, stepStatus, status, parent, lineage, stepOf, limit, cost,
                   latest, turn, issue>>
-----------------------------------------------------------------------------
(* Endings *)

\* update_workflow_step_run and update_claimed_workflow_step_run.
EndStep(s, e) ==
    /\ stepStatus[s] = "open"
    /\ stepStatus' = [stepStatus EXCEPT ![s] = e]
    /\ UNCHANGED <<runVars, grantVars, turn, issue>>

update_task_grant_status(g, e) ==
    /\ status[g] = "active"
    /\ status' = [status EXCEPT ![g] = e]

\* finalize_workflow_step_task_grant, unless the worker died before it.
FinalizeStep(g) ==
    /\ parent[g] # NoGrant /\ StepEnded(g)
    /\ update_task_grant_status(g, stepStatus[stepOf[g]])
    /\ UNCHANGED <<runVars, stepStatus, parent, lineage, stepOf, limit, used, cost,
                   latest, turn, issue>>

\* update_workflow_run_status_and_record with a terminal status, over whatever
\* the run says by then.
EndRun(c, e) ==
    /\ closing[c].at = "idle"
    /\ run' = e
    /\ closing' = [closing EXCEPT ![c] = [at |-> "list", as |-> e, todo |-> {}]]
    /\ UNCHANGED <<reopened, revived, stepStatus, grantVars, turn, issue>>

\* The same with an executable status, by a worker whose copy of the run is
\* older than its end.
ReopenRun ==
    /\ run \in RunEndings
    /\ run' = "executable" /\ reopened' = TRUE
    /\ UNCHANGED <<closing, revived, stepStatus, grantVars, turn, issue>>

ListActive(c) ==
    /\ closing[c].at = "list"
    /\ closing' = [closing EXCEPT ![c] =
          [at |-> "close", as |-> @.as, todo |-> {g \in Grants : status[g] = "active"}]]
    /\ UNCHANGED <<run, reopened, revived, stepStatus, grantVars, turn, issue>>

\* close_active_task_grants_for_workflow_run stops at the first grant that
\* another request closed differently since the list was read.
CloseNext(c) ==
    /\ closing[c].at = "close"
    /\ IF closing[c].todo = {}
       THEN closing' = [closing EXCEPT ![c].at = "done"] /\ UNCHANGED status
       ELSE \E g \in closing[c].todo :
              \/ /\ update_task_grant_status(g, closing[c].as)
                 /\ closing' = [closing EXCEPT ![c].todo = @ \ {g}]
              \/ /\ status[g] = closing[c].as
                 /\ closing' = [closing EXCEPT ![c].todo = @ \ {g}]
                 /\ UNCHANGED status
              \/ /\ status[g] \in Terminal \ {closing[c].as}
                 /\ closing' = [closing EXCEPT ![c] = [at |-> "failed", as |-> @.as, todo |-> {}]]
                 /\ UNCHANGED status
    /\ UNCHANGED <<run, reopened, revived, stepStatus, parent, lineage, stepOf, limit, used,
                   cost, latest, turn, issue>>

-----------------------------------------------------------------------------
GrantsNext ==
    \/ \E i \in Issuers :
          \/ \E g \in Grants : ReadParentForStep(i, g) \/ ReadParentForRequest(i, g)
          \/ \E g \in Grants : CreateChild(i, g)
          \/ RefuseChild(i)
    \/ \E l \in Loops :
          \/ \E x \in Sessions : CheckTurn(l, x)
          \/ ReserveTurn(l) \/ FinishTurn(l) \/ DropTurn(l)
    \/ \E g \in Grants : CommitCall(g) \/ Expire(g) \/ FinalizeStep(g)
    \/ \E e \in StepEndings, s \in Steps : EndStep(s, e)
    \/ \E c \in Enders :
          \/ \E e \in RunEndings : EndRun(c, e)
          \/ ListActive(c) \/ CloseNext(c)
    \/ ReopenRun

GrantsSpec == GrantsInit /\ [][GrantsNext]_vars
-----------------------------------------------------------------------------
(* Properties *)

\* No budget is overrun: the turns and the tool calls charged to a grant, by
\* its own session and by everything delegated from it, stay within its limits
\* although sessions reserve concurrently (reserve_task_grant_usage,
\* commit_tool_invocation_start).
BudgetsHold ==
    \A g \in Grants, k \in Kinds :
        limit[g][k] # NoLimit => used[g][k] <= limit[g][k]

Children(g) == {c \in Grants : parent[c] = g}

\* What a grant has been charged covers all that its children have been
\* charged together, so delegation cannot multiply a budget.
LineageAccounts ==
    \A g \in Grants, k \in Kinds :
        used[g][k] >= MapThenSumSet(LAMBDA c : used[c][k], Children(g))

\* Along the whole lineage no grant has a budget its ancestors do not have
\* (ensure_child_task_grant_within_parent, against a parent that may have been
\* used since the request read it).
DelegationNarrows ==
    \A g \in Grants : \A h \in lineage[g], k \in {"turn", "call", "cost"} :
        limit[h][k] # NoLimit => limit[g][k] # NoLimit /\ limit[g][k] <= limit[h][k]

\* A cost budget is checked before a turn and charged after it, without a
\* fence, so a turn whose session was taken over is charged too.  The budget can
\* be exceeded, but by less than one response of every turn that can be under
\* way at once: a worker future has one.
CostOvershootIsBounded ==
    \A g \in Grants :
        limit[g].cost # NoLimit => cost[g] < limit[g].cost + MaxCharge * Cardinality(Loops)

\* When an end of the run has closed its grants, the only grants that are still
\* active were delegated after somebody wrote an executable status over the
\* end: none was delegated behind the list that
\* close_active_task_grants_for_workflow_run had read, and none of the run's
\* earlier grants keeps its authority.
ClosedRunHasNoAuthority ==
    (\E c \in Enders : closing[c].at = "done") =>
        \A g \in Grants : status[g] = "active" => g \in revived

\* A grant that ended keeps its ending, and no grant becomes active again,
\* although a step, the run and an expiry may all end it.
GrantIsFinal ==
    [][\A g \in Grants :
          status[g] \in Terminal => status'[g] = status[g]]_vars
=============================================================================
