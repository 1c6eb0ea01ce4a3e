-------------------------- MODULE TaskGrantsProofs --------------------------
(***************************************************************************)
(* What TaskGrants guarantees for any number of grants, sessions, steps    *)
(* and concurrent requests, and for any budgets.                           *)
(***************************************************************************)
EXTENDS TaskGrants, TLAPS

\* A grant that does not exist has been charged nothing and has no lineage; one
\* that exists is in its own lineage; a lineage holds existing grants only.
LineageOK ==
    /\ \A g \in Grants : status[g] = "absent" => used[g] = Unused /\ lineage[g] = {}
    /\ \A g \in Grants : status[g] # "absent" => g \in lineage[g]
    /\ \A g \in Grants : \A h \in lineage[g] : status[h] # "absent"

\* A delegation and a turn know an existing grant.
RequestsOK ==
    /\ \A i \in Issuers : issue[i].at # "idle" => issue[i].from \in Grants
    /\ \A l \in Loops : turn[l].at # "idle" => turn[l].grant \in Grants

\* The run is executable under an end only if it was reopened; an end knows the
\* status it writes and still has to close, or has closed, every active grant
\* that was not delegated after a reopening.
ClosingOK ==
    /\ ~reopened /\ run = "executable" => \A c \in Enders : closing[c].at = "idle"
    /\ \A c \in Enders :
          /\ closing[c].at # "idle" => closing[c].as \in RunEndings
          /\ closing[c].at = "close" =>
                \A g \in Grants : status[g] = "active" => g \in closing[c].todo \cup revived
          /\ closing[c].at = "done" =>
                \A g \in Grants : status[g] = "active" => g \in revived

GrantsInv ==
    /\ GrantsTypeOK /\ LineageOK /\ RequestsOK /\ ClosingOK
    /\ BudgetsHold /\ DelegationNarrows

\* The run starts with its root grant only, uncharged.
LEMMA GrantsInvInit == GrantsInit => GrantsInv
  <1> SUFFICES ASSUME GrantsInit PROVE GrantsInv
    OBVIOUS
  <1> USE GrantsAssumption
  <1>1. PICK l \in RootLimits : limit = [g \in Grants |-> l]
    BY DEF GrantsInit
  <1>2. l \in Limits /\ (CHOOSE k \in RootLimits : TRUE) \in Limits
    OBVIOUS
  <1>3. GrantsTypeOK
    BY <1>1, <1>2 DEF GrantsInit, GrantsTypeOK, NoIssue, Unused, Terminal, Primary, Closing
  <1>4. LineageOK /\ RequestsOK /\ ClosingOK
    BY DEF GrantsInit, LineageOK, RequestsOK, ClosingOK, NoIssue
  <1>5. BudgetsHold
    BY <1>1, <1>2 DEF GrantsInit, BudgetsHold, Unused, Kinds, Limits, Limit
  <1>6. DelegationNarrows
    BY <1>1, <1>2 DEF GrantsInit, DelegationNarrows, Limits, Limit
  <1> QED
    BY <1>3, <1>4, <1>5, <1>6 DEF GrantsInv

-----------------------------------------------------------------------------
(* What one step does to the grants *)

\* A step that leaves the grants alone keeps what is said of them.
LEMMA SameGrants ==
  ASSUME GrantsInv, UNCHANGED grantVars
  PROVE  LineageOK' /\ BudgetsHold' /\ DelegationNarrows'
  BY DEF GrantsInv, grantVars, LineageOK, BudgetsHold, DelegationNarrows

\* What the ends of the run rely on survives a step that makes no grant active.
LEMMA SameClosing ==
  ASSUME GrantsInv, UNCHANGED runVars,
         \A h \in Grants : status'[h] = "active" => status[h] = "active"
  PROVE  ClosingOK'
  BY DEF GrantsInv, runVars, ClosingOK

\* Ending an active grant.
LEMMA EndGrant ==
  ASSUME GrantsInv, NEW g \in Grants, status[g] = "active", NEW e \in Terminal,
         status' = [status EXCEPT ![g] = e],
         UNCHANGED <<lineage, limit, used>>
  PROVE  /\ status' \in [Grants -> {"absent", "active"} \cup Terminal]
         /\ LineageOK' /\ BudgetsHold' /\ DelegationNarrows'
         /\ \A h \in Grants : status'[h] = "active" => status[h] = "active" /\ h # g
  <1> USE GrantsAssumption
  <1>1. e # "absent" /\ e # "active"
    BY DEF Terminal
  <1>2. \A h \in Grants : status'[h] = IF h = g THEN e ELSE status[h]
    BY DEF GrantsInv, GrantsTypeOK
  <1>3. status' \in [Grants -> {"absent", "active"} \cup Terminal]
    BY DEF GrantsInv, GrantsTypeOK
  <1>4. \A h \in Grants : status'[h] = "absent" <=> status[h] = "absent"
    BY <1>1, <1>2
  <1>5. LineageOK'
    BY <1>4 DEF GrantsInv, GrantsTypeOK, LineageOK, Unused
  <1>6. BudgetsHold' /\ DelegationNarrows'
    BY DEF GrantsInv, BudgetsHold, DelegationNarrows
  <1> QED
    BY <1>1, <1>2, <1>3, <1>5, <1>6

\* A reservation charges only grants that have room.
LEMMA ReserveKeeps ==
  ASSUME GrantsInv, NEW g \in Grants, NEW k \in Kinds, Reserve(g, k),
         UNCHANGED <<status, lineage, limit>>
  PROVE  /\ used' \in [Grants -> [Kinds -> Nat]]
         /\ LineageOK' /\ BudgetsHold' /\ DelegationNarrows'
  <1> USE GrantsAssumption
  <1>1. \A h \in Grants : used[h] \in [Kinds -> Nat]
    BY DEF GrantsInv, GrantsTypeOK
  <1>2. \A h \in Grants : used'[h] =
            IF h \in lineage[g] THEN [used[h] EXCEPT ![k] = used[h][k] + 1] ELSE used[h]
    BY DEF Reserve, Charge
  <1>3. used' \in [Grants -> [Kinds -> Nat]]
    BY <1>1 DEF Reserve, Charge
  <1>4. \A h \in Grants : h \in lineage[g] =>
            status[h] = "active" /\ (limit[h][k] # NoLimit => ~(used[h][k] >= limit[h][k]))
    BY DEF Reserve, task_grant_reservation_denial, task_grant_runtime_denial, Exhausted
  <1>5. LineageOK'
    BY <1>2, <1>4 DEF GrantsInv, LineageOK, Unused
  <1>6. \A h \in Grants : limit[h] \in Limits
    BY DEF GrantsInv, GrantsTypeOK
  <1>7. ASSUME NEW h \in Grants, NEW j \in Kinds, limit[h][j] # NoLimit
        PROVE  used'[h][j] <= limit[h][j]
    <2>1. limit[h][j] \in Nat
      BY <1>6, <1>7 DEF Limits, Limit, Kinds
    <2>2. used[h][j] <= limit[h][j] /\ used[h][j] \in Nat
      BY <1>1, <1>7 DEF GrantsInv, BudgetsHold
    <2>3. CASE h \in lineage[g] /\ j = k
      <3>1. used'[h][j] = used[h][j] + 1
        BY <1>1, <1>2, <2>3
      <3> QED
        BY <1>4, <1>7, <2>1, <2>2, <2>3, <3>1
    <2>4. CASE ~(h \in lineage[g] /\ j = k)
      <3>1. used'[h][j] = used[h][j]
        BY <1>1, <1>2, <2>4
      <3> QED
        BY <2>2, <3>1
    <2> QED
      BY <2>3, <2>4
  <1>8. BudgetsHold'
    BY <1>7 DEF BudgetsHold
  <1>9. DelegationNarrows'
    BY DEF GrantsInv, DelegationNarrows
  <1> QED
    BY <1>3, <1>5, <1>8, <1>9

\* What is left of a budget that is not used up is a limit again, and no more
\* than the budget.
LEMMA RemainingBudget ==
  ASSUME NEW l \in Limit, NEW n \in Nat, l # NoLimit => ~(n >= l)
  PROVE  /\ Remaining(l, n) \in Limit
         /\ l # NoLimit => Remaining(l, n) # NoLimit /\ Remaining(l, n) <= l
  BY GrantsAssumption DEF Remaining, Limit

\* The same for the three budgets of a grant that has budget left.
LEMMA RemainingBudgets ==
  ASSUME GrantsInv, NEW p \in Grants, BudgetLeft(p)
  PROVE  /\ task_grant_remaining_budgets(p) \in Limits
         /\ \A k \in {"turn", "call", "cost"} :
               limit[p][k] # NoLimit =>
                   /\ task_grant_remaining_budgets(p)[k] # NoLimit
                   /\ task_grant_remaining_budgets(p)[k] <= limit[p][k]
  <1>1. /\ limit[p].turn \in Limit /\ limit[p].call \in Limit /\ limit[p].cost \in Limit
        /\ used[p]["turn"] \in Nat /\ used[p]["call"] \in Nat /\ cost[p] \in Nat
    BY DEF GrantsInv, GrantsTypeOK, Limits, Kinds
  <1>2. /\ limit[p].turn # NoLimit => ~(used[p]["turn"] >= limit[p].turn)
        /\ limit[p].call # NoLimit => ~(used[p]["call"] >= limit[p].call)
        /\ limit[p].cost # NoLimit => ~(cost[p] >= limit[p].cost)
    BY DEF BudgetLeft, Exhausted, CostExhausted
  <1>3. /\ Remaining(limit[p].turn, used[p]["turn"]) \in Limit
        /\ limit[p].turn # NoLimit => /\ Remaining(limit[p].turn, used[p]["turn"]) # NoLimit
                                      /\ Remaining(limit[p].turn, used[p]["turn"]) <= limit[p].turn
    BY <1>1, <1>2, RemainingBudget
  <1>4. /\ Remaining(limit[p].call, used[p]["call"]) \in Limit
        /\ limit[p].call # NoLimit => /\ Remaining(limit[p].call, used[p]["call"]) # NoLimit
                                      /\ Remaining(limit[p].call, used[p]["call"]) <= limit[p].call
    BY <1>1, <1>2, RemainingBudget
  <1>5. /\ Remaining(limit[p].cost, cost[p]) \in Limit
        /\ limit[p].cost # NoLimit => /\ Remaining(limit[p].cost, cost[p]) # NoLimit
                                      /\ Remaining(limit[p].cost, cost[p]) <= limit[p].cost
    BY <1>1, <1>2, RemainingBudget
  <1> QED
    BY <1>3, <1>4, <1>5 DEF task_grant_remaining_budgets, Limits

\* A child gets no more than is left of its parent, which is no more than any
\* ancestor was given.
LEMMA RecordKeeps ==
  ASSUME GrantsInv, NEW g \in Grants, NEW p \in Grants, NEW s \in Steps \cup {NoStep},
         NEW wants \in Limits, status[g] = "absent", status[p] = "active",
         ensure_child_task_grant_within_parent(p, wants),
         Record(g, p, s, wants), UNCHANGED used
  PROVE  /\ status' \in [Grants -> {"absent", "active"} \cup Terminal]
         /\ parent' \in [Grants -> Grants \cup {NoGrant}]
         /\ lineage' \in [Grants -> SUBSET Grants]
         /\ stepOf' \in [Grants -> Steps \cup {NoStep}]
         /\ limit' \in [Grants -> Limits]
         /\ latest' \in [Sessions -> Grants \cup {NoGrant}]
         /\ LineageOK' /\ BudgetsHold' /\ DelegationNarrows'
  <1> USE GrantsAssumption
  <1>1. /\ status' \in [Grants -> {"absent", "active"} \cup Terminal]
        /\ parent' \in [Grants -> Grants \cup {NoGrant}]
        /\ lineage' \in [Grants -> SUBSET Grants]
        /\ stepOf' \in [Grants -> Steps \cup {NoStep}]
        /\ limit' \in [Grants -> Limits]
        /\ latest' \in [Sessions -> Grants \cup {NoGrant}]
    BY DEF GrantsInv, GrantsTypeOK, Record
  <1>2. \A h \in Grants :
            /\ status'[h] = IF h = g THEN "active" ELSE status[h]
            /\ lineage'[h] = IF h = g THEN {g} \cup lineage[p] ELSE lineage[h]
            /\ limit'[h] = IF h = g THEN wants ELSE limit[h]
    BY DEF GrantsInv, GrantsTypeOK, Record
  <1>3. /\ \A h \in Grants : g \notin lineage[h]
        /\ used[g] = Unused /\ p # g
        /\ \A h \in Grants : lineage[h] \subseteq Grants
    BY DEF GrantsInv, GrantsTypeOK, LineageOK
  <1>4. LineageOK'
    BY <1>2, <1>3 DEF GrantsInv, LineageOK
  <1>5. BudgetsHold'
    <2> SUFFICES ASSUME NEW h \in Grants, NEW k \in Kinds, limit'[h][k] # NoLimit
                 PROVE  used'[h][k] <= limit'[h][k]
      BY DEF BudgetsHold
    <2>1. CASE h = g
      <3>1. limit'[h][k] = wants[k] /\ used'[h][k] = 0
        BY <1>2, <1>3, <2>1 DEF Unused
      <3>2. wants[k] \in Nat
        BY <3>1 DEF Limits, Limit, Kinds
      <3> QED
        BY <3>1, <3>2
    <2>2. CASE h # g
      BY <1>2, <2>2 DEF GrantsInv, BudgetsHold
    <2> QED
      BY <2>1, <2>2
  <1>6. DelegationNarrows'
    <2> SUFFICES ASSUME NEW h \in Grants, NEW a \in lineage'[h],
                        NEW k \in {"turn", "call", "cost"}, limit'[a][k] # NoLimit
                 PROVE  limit'[h][k] # NoLimit /\ limit'[h][k] <= limit'[a][k]
      BY DEF DelegationNarrows
    <2>1. CASE h # g
      <3>1. a \in lineage[h] /\ a # g /\ a \in Grants
        BY <1>2, <1>3, <2>1
      <3> QED
        BY <1>2, <2>1, <3>1 DEF GrantsInv, DelegationNarrows
    <2>2. CASE h = g /\ a = g
      <3>1. limit'[h][k] = wants[k] /\ wants[k] \in Nat
        BY <1>2, <2>2 DEF Limits, Limit
      <3> QED
        BY <2>2, <3>1
    <2>3. CASE h = g /\ a # g
      <3>1. a \in lineage[p] /\ a \in Grants
        BY <1>2, <1>3, <2>3
      <3>2. limit'[a] = limit[a] /\ limit'[h] = wants
        BY <1>2, <2>3, <3>1
      <3>3. limit[p][k] # NoLimit /\ limit[p][k] <= limit[a][k]
        BY <3>1, <3>2 DEF GrantsInv, DelegationNarrows
      <3>4. /\ task_grant_remaining_budgets(p)[k] # NoLimit
            /\ task_grant_remaining_budgets(p)[k] <= limit[p][k]
            /\ task_grant_remaining_budgets(p) \in Limits
        BY <3>3, RemainingBudgets DEF ensure_child_task_grant_within_parent
      <3>5. wants[k] # NoLimit /\ wants[k] <= task_grant_remaining_budgets(p)[k]
        BY <3>4 DEF ensure_child_task_grant_within_parent, limit_within_parent
      <3>6. wants[k] \in Nat /\ task_grant_remaining_budgets(p)[k] \in Nat
        BY <3>4, <3>5 DEF Limits, Limit
      <3>7. limit[p][k] \in Nat /\ limit[a][k] \in Nat
        <4>1. limit[p] \in Limits /\ limit[a] \in Limits
          BY <3>1 DEF GrantsInv, GrantsTypeOK
        <4> QED
          BY <3>2, <3>3, <4>1 DEF Limits, Limit
      <3> QED
        BY <3>2, <3>3, <3>4, <3>5, <3>6, <3>7
    <2> QED
      BY <2>1, <2>2, <2>3
  <1> QED
    BY <1>1, <1>4, <1>5, <1>6

-----------------------------------------------------------------------------
(* The inductive step *)

\* A request reads the parent.
LEMMA DelegationStep ==
  ASSUME GrantsInv, NEW i \in Issuers, NEW g \in Grants,
         ReadParentForStep(i, g) \/ ReadParentForRequest(i, g)
  PROVE  GrantsInv'
  <1> USE GrantsAssumption
  <1>1. /\ UNCHANGED <<runVars, stepStatus, turn>> /\ UNCHANGED grantVars
        /\ \E at \in {"step", "api"}, wants \in Limits :
              issue' = [issue EXCEPT ![i] = [at |-> at, from |-> g, wants |-> wants]]
    BY RemainingBudgets DEF ReadParentForStep, ReadParentForRequest
  <1>2. issue' \in [Issuers -> [at : {"idle", "step", "api"},
                                from : Grants \cup {NoGrant}, wants : Limits]]
    BY <1>1 DEF GrantsInv, GrantsTypeOK
  <1>3. GrantsTypeOK'
    BY <1>1, <1>2 DEF GrantsInv, GrantsTypeOK, grantVars, runVars
  <1>4. RequestsOK'
    BY <1>1 DEF GrantsInv, GrantsTypeOK, RequestsOK, grantVars
  <1>5. ClosingOK'
    BY <1>1, SameClosing DEF grantVars
  <1> QED
    BY <1>1, <1>3, <1>4, <1>5, SameGrants DEF GrantsInv

\* The value of a request that is not under way.
LEMMA NoIssueType ==
  NoIssue \in [at : {"idle", "step", "api"}, from : Grants \cup {NoGrant}, wants : Limits]
  BY GrantsAssumption DEF NoIssue

\* The child is recorded under a locked run, so no end is closing grants unless
\* the run was reopened.
LEMMA CreateChildStep ==
  ASSUME GrantsInv, NEW i \in Issuers, NEW g \in Grants, CreateChild(i, g)
  PROVE  GrantsInv'
  <1> USE GrantsAssumption
  <1> DEFINE p == issue[i].from
             wants == issue[i].wants
  <1>1. /\ p \in Grants /\ wants \in Limits /\ status[g] = "absent"
        /\ run = "executable" /\ status[p] = "active"
        /\ ensure_child_task_grant_within_parent(p, wants)
        /\ issue' = [issue EXCEPT ![i] = NoIssue]
        /\ revived' = IF reopened THEN revived \cup {g} ELSE revived
        /\ UNCHANGED <<run, closing, reopened, used, cost, turn>>
    BY DEF CreateChild, GrantsInv, GrantsTypeOK, RequestsOK, task_grant_runtime_denial
  <1>2. PICK s \in Steps \cup {NoStep} :
            Record(g, p, s, wants) /\ stepStatus' \in [Steps -> {"absent", "open"} \cup StepEndings]
    BY DEF CreateChild, GrantsInv, GrantsTypeOK
  <1>3. /\ status' \in [Grants -> {"absent", "active"} \cup Terminal]
        /\ parent' \in [Grants -> Grants \cup {NoGrant}]
        /\ lineage' \in [Grants -> SUBSET Grants]
        /\ stepOf' \in [Grants -> Steps \cup {NoStep}]
        /\ limit' \in [Grants -> Limits]
        /\ latest' \in [Sessions -> Grants \cup {NoGrant}]
        /\ LineageOK' /\ BudgetsHold' /\ DelegationNarrows'
    BY <1>1, <1>2, RecordKeeps
  <1>4. issue' \in [Issuers -> [at : {"idle", "step", "api"},
                                from : Grants \cup {NoGrant}, wants : Limits]]
    BY <1>1, NoIssueType DEF GrantsInv, GrantsTypeOK
  <1>5. GrantsTypeOK'
    BY <1>1, <1>2, <1>3, <1>4 DEF GrantsInv, GrantsTypeOK
  <1>6. RequestsOK'
    BY <1>1 DEF GrantsInv, GrantsTypeOK, RequestsOK, NoIssue
  <1>7. ClosingOK'
    <2>1. \A h \in Grants : status'[h] = IF h = g THEN "active" ELSE status[h]
      BY <1>2 DEF Record, GrantsInv, GrantsTypeOK
    <2>2. CASE reopened
      <3>1. \A h \in Grants : h \in revived \/ h = g => h \in revived'
        BY <1>1, <2>2
      <3> QED
        BY <1>1, <2>1, <2>2, <3>1 DEF GrantsInv, ClosingOK
    <2>3. CASE ~reopened
      <3>1. \A c \in Enders : closing'[c].at = "idle"
        BY <1>1, <2>3 DEF GrantsInv, ClosingOK
      <3> QED
        BY <3>1 DEF ClosingOK
    <2> QED
      BY <2>2, <2>3
  <1> QED
    BY <1>3, <1>5, <1>6, <1>7 DEF GrantsInv

\* A refused request may mark its parent expired.
LEMMA RefuseChildStep ==
  ASSUME GrantsInv, NEW i \in Issuers, RefuseChild(i)
  PROVE  GrantsInv'
  <1> USE GrantsAssumption
  <1>1. issue' \in [Issuers -> [at : {"idle", "step", "api"},
                                from : Grants \cup {NoGrant}, wants : Limits]]
    BY NoIssueType DEF RefuseChild, GrantsInv, GrantsTypeOK
  <1>2. RequestsOK'
    BY DEF RefuseChild, GrantsInv, GrantsTypeOK, RequestsOK, NoIssue
  <1>3. CASE UNCHANGED status
    <2>1. UNCHANGED grantVars
      BY <1>3 DEF RefuseChild, grantVars
    <2>2. GrantsTypeOK' /\ ClosingOK'
      BY <1>1, <1>3, SameClosing DEF RefuseChild, GrantsInv, GrantsTypeOK, runVars
    <2> QED
      BY <1>2, <2>1, <2>2, SameGrants DEF GrantsInv
  <1>4. CASE status[issue[i].from] = "active" /\ run = "executable"
             /\ status' = [status EXCEPT ![issue[i].from] = "expired"]
    <2>1. issue[i].from \in Grants /\ "expired" \in Terminal
      BY DEF RefuseChild, GrantsInv, RequestsOK, Terminal
    <2>2. /\ status' \in [Grants -> {"absent", "active"} \cup Terminal]
          /\ LineageOK' /\ BudgetsHold' /\ DelegationNarrows'
          /\ \A h \in Grants : status'[h] = "active" => status[h] = "active"
      BY <1>4, <2>1, EndGrant DEF RefuseChild
    <2>3. GrantsTypeOK'
      BY <1>1, <2>2 DEF RefuseChild, GrantsInv, GrantsTypeOK, runVars
    <2>4. ClosingOK'
      BY <2>2, SameClosing DEF RefuseChild
    <2> QED
      BY <1>2, <2>2, <2>3, <2>4 DEF GrantsInv
  <1> QED
    BY <1>3, <1>4 DEF RefuseChild

\* A turn is checked, ends, or is dropped.
LEMMA TurnStep ==
  ASSUME GrantsInv, NEW l \in Loops,
         (\E x \in Sessions : CheckTurn(l, x)) \/ DropTurn(l) \/ FinishTurn(l)
  PROVE  GrantsInv'
  <1> USE GrantsAssumption
  <1>1. /\ UNCHANGED <<runVars, stepStatus, status, parent, lineage, stepOf, limit, used,
                       latest, issue>>
    BY DEF CheckTurn, DropTurn, FinishTurn, grantVars
  <1>2. PICK t \in [at : {"idle", "checked", "running"}, grant : Grants \cup {NoGrant}] :
            /\ turn' = [turn EXCEPT ![l] = t]
            /\ t.at # "idle" => t.grant \in Grants
    <2>1. ASSUME NEW x \in Sessions, CheckTurn(l, x)
          PROVE  \E t \in [at : {"idle", "checked", "running"}, grant : Grants \cup {NoGrant}] :
                    turn' = [turn EXCEPT ![l] = t] /\ (t.at # "idle" => t.grant \in Grants)
      <3>1. latest[x] \in Grants
        BY <2>1 DEF CheckTurn, GrantsInv, GrantsTypeOK
      <3>2. /\ turn' = [turn EXCEPT ![l] = [at |-> "checked", grant |-> latest[x]]]
            /\ [at |-> "checked", grant |-> latest[x]] \in
                  [at : {"idle", "checked", "running"}, grant : Grants \cup {NoGrant}]
            /\ [at |-> "checked", grant |-> latest[x]].grant \in Grants
        BY <2>1, <3>1 DEF CheckTurn
      <3> QED
        BY <3>2
    <2>2. CASE DropTurn(l) \/ FinishTurn(l)
      <3>1. /\ turn' = [turn EXCEPT ![l] = [at |-> "idle", grant |-> NoGrant]]
            /\ [at |-> "idle", grant |-> NoGrant] \in
                  [at : {"idle", "checked", "running"}, grant : Grants \cup {NoGrant}]
            /\ [at |-> "idle", grant |-> NoGrant].at = "idle"
        BY <2>2 DEF DropTurn, FinishTurn
      <3> QED
        BY <3>1
    <2> QED
      BY <2>1, <2>2
  <1>3. turn' \in [Loops -> [at : {"idle", "checked", "running"},
                                grant : Grants \cup {NoGrant}]]
    BY <1>2 DEF GrantsInv, GrantsTypeOK
  <1>4. cost' \in [Grants -> Nat]
    <2>1. CASE (\E x \in Sessions : CheckTurn(l, x)) \/ DropTurn(l)
      BY <2>1 DEF CheckTurn, DropTurn, grantVars, GrantsInv, GrantsTypeOK
    <2>2. CASE FinishTurn(l)
      <3>1. PICK n \in Nat : cost' = [h \in Grants |->
                IF h \in lineage[turn[l].grant] THEN cost[h] + n ELSE cost[h]]
        BY <2>2 DEF FinishTurn
      <3> QED
        BY <3>1 DEF GrantsInv, GrantsTypeOK
    <2> QED
      BY <2>1, <2>2
  <1>5. GrantsTypeOK'
    BY <1>1, <1>3, <1>4 DEF GrantsInv, GrantsTypeOK, runVars
  <1>6. RequestsOK'
    <2>1. \A y \in Loops : turn'[y] = IF y = l THEN t ELSE turn[y]
      BY <1>2 DEF GrantsInv, GrantsTypeOK
    <2> QED
      BY <1>1, <1>2, <2>1 DEF GrantsInv, RequestsOK
  <1>7. LineageOK' /\ BudgetsHold' /\ DelegationNarrows' /\ ClosingOK'
    BY <1>1, SameClosing DEF GrantsInv, LineageOK, BudgetsHold, DelegationNarrows
  <1> QED
    BY <1>5, <1>6, <1>7 DEF GrantsInv

\* A turn is reserved along the lineage.
LEMMA ReserveTurnStep ==
  ASSUME GrantsInv, NEW l \in Loops, ReserveTurn(l)
  PROVE  GrantsInv'
  <1> USE GrantsAssumption
  <1>1. turn[l].grant \in Grants /\ "turn" \in Kinds
    BY DEF ReserveTurn, GrantsInv, RequestsOK, Kinds
  <1>2. /\ used' \in [Grants -> [Kinds -> Nat]]
        /\ LineageOK' /\ BudgetsHold' /\ DelegationNarrows'
    BY <1>1, ReserveKeeps DEF ReserveTurn
  <1>3. turn' \in [Loops -> [at : {"idle", "checked", "running"},
                                grant : Grants \cup {NoGrant}]]
    <2>1. turn[l] \in [at : {"idle", "checked", "running"}, grant : Grants \cup {NoGrant}]
      BY DEF GrantsInv, GrantsTypeOK
    <2>2. [turn[l] EXCEPT !.at = "running"] \in
              [at : {"idle", "checked", "running"}, grant : Grants \cup {NoGrant}]
      BY <2>1
    <2> QED
      BY <2>2 DEF ReserveTurn, GrantsInv, GrantsTypeOK
  <1>4. GrantsTypeOK'
    BY <1>2, <1>3 DEF ReserveTurn, GrantsInv, GrantsTypeOK, runVars
  <1>5. \A y \in Loops : turn'[y].grant = turn[y].grant /\ (y # l => turn'[y] = turn[y])
    BY DEF ReserveTurn, GrantsInv, GrantsTypeOK
  <1>6. RequestsOK'
    BY <1>1, <1>5 DEF ReserveTurn, GrantsInv, RequestsOK
  <1>7. ClosingOK'
    BY SameClosing DEF ReserveTurn
  <1> QED
    BY <1>2, <1>4, <1>6, <1>7 DEF GrantsInv

\* A tool call is admitted along the lineage.
LEMMA CommitCallStep ==
  ASSUME GrantsInv, NEW g \in Grants, CommitCall(g)
  PROVE  GrantsInv'
  <1>1. "call" \in Kinds
    BY DEF Kinds
  <1>2. /\ used' \in [Grants -> [Kinds -> Nat]]
        /\ LineageOK' /\ BudgetsHold' /\ DelegationNarrows'
    BY <1>1, ReserveKeeps DEF CommitCall
  <1>3. GrantsTypeOK' /\ RequestsOK' /\ ClosingOK'
    BY <1>2, SameClosing DEF CommitCall, GrantsInv, GrantsTypeOK, RequestsOK, runVars
  <1> QED
    BY <1>2, <1>3 DEF GrantsInv

\* A grant expires or is closed with its step.
LEMMA EndGrantStep ==
  ASSUME GrantsInv, NEW g \in Grants, Expire(g) \/ FinalizeStep(g)
  PROVE  GrantsInv'
  <1> USE GrantsAssumption
  <1>1. PICK e \in Terminal : status[g] = "active" /\ status' = [status EXCEPT ![g] = e]
    BY DEF Expire, FinalizeStep, update_task_grant_status, StepEnded, Terminal
  <1>2. UNCHANGED <<runVars, stepStatus, parent, lineage, stepOf, limit, used, cost,
                    latest, turn, issue>>
    BY DEF Expire, FinalizeStep
  <1>3. /\ status' \in [Grants -> {"absent", "active"} \cup Terminal]
        /\ LineageOK' /\ BudgetsHold' /\ DelegationNarrows'
        /\ \A h \in Grants : status'[h] = "active" => status[h] = "active" /\ h # g
    BY <1>1, <1>2, EndGrant
  <1>4. GrantsTypeOK' /\ RequestsOK' /\ ClosingOK'
    BY <1>2, <1>3, SameClosing DEF GrantsInv, GrantsTypeOK, RequestsOK, runVars
  <1> QED
    BY <1>3, <1>4 DEF GrantsInv

\* A step ends.
LEMMA EndStepStep ==
  ASSUME GrantsInv, NEW e \in StepEndings, NEW s \in Steps, EndStep(s, e)
  PROVE  GrantsInv'
  <1>1. UNCHANGED grantVars /\ UNCHANGED <<turn, issue, runVars>>
    BY DEF EndStep
  <1>2. RequestsOK'
    BY <1>1 DEF GrantsInv, RequestsOK
  <1>3. stepStatus' \in [Steps -> {"absent", "open"} \cup StepEndings]
    BY DEF EndStep, GrantsInv, GrantsTypeOK
  <1>4. GrantsTypeOK'
    BY <1>1, <1>3 DEF GrantsInv, GrantsTypeOK, grantVars, runVars
  <1>5. ClosingOK'
    BY <1>1, SameClosing DEF grantVars
  <1> QED
    BY <1>1, <1>2, <1>4, <1>5, SameGrants DEF GrantsInv

\* The run ends, is reopened, or its active grants are listed.
LEMMA EndingStep ==
  ASSUME GrantsInv,
         \/ \E c \in Enders, e \in RunEndings : EndRun(c, e)
         \/ \E c \in Enders : ListActive(c)
         \/ ReopenRun
  PROVE  GrantsInv'
  <1> USE GrantsAssumption
  <1>1. UNCHANGED grantVars /\ UNCHANGED <<turn, issue, stepStatus, revived>>
    BY DEF ReopenRun, EndRun, ListActive
  <1>2. RequestsOK'
    BY <1>1 DEF GrantsInv, RequestsOK
  <1>3. ASSUME NEW c \in Enders, NEW e \in RunEndings, EndRun(c, e)
        PROVE  GrantsTypeOK' /\ ClosingOK'
    <2>1. /\ run' = e /\ e # "executable" /\ reopened' = reopened
          /\ closing' = [closing EXCEPT ![c] = [at |-> "list", as |-> e, todo |-> {}]]
      BY <1>3 DEF EndRun
    <2>2. closing' \in [Enders -> Closing]
      BY <2>1 DEF GrantsInv, GrantsTypeOK, Closing
    <2>3. GrantsTypeOK'
      BY <1>1, <2>1, <2>2 DEF GrantsInv, GrantsTypeOK, grantVars
    <2>4. \A d \in Enders : closing'[d] =
             IF d = c THEN [at |-> "list", as |-> e, todo |-> {}] ELSE closing[d]
      BY <2>1 DEF GrantsInv, GrantsTypeOK
    <2>5. ClosingOK'
      BY <1>1, <2>1, <2>4 DEF GrantsInv, ClosingOK, grantVars
    <2> QED
      BY <2>3, <2>5
  <1>4. ASSUME NEW c \in Enders, ListActive(c)
        PROVE  GrantsTypeOK' /\ ClosingOK'
    <2> DEFINE all == {g \in Grants : status[g] = "active"}
               n == [at |-> "close", as |-> closing[c].as, todo |-> all]
    <2>1. closing[c] \in Closing
      BY DEF GrantsInv, GrantsTypeOK
    <2>2. /\ closing[c].at = "list" /\ UNCHANGED <<run, reopened>>
          /\ closing' = [closing EXCEPT ![c] = n]
      BY <1>4 DEF ListActive
    <2>3. n \in Closing
      BY <2>1 DEF Closing
    <2>4. GrantsTypeOK'
      BY <1>1, <2>2, <2>3 DEF GrantsInv, GrantsTypeOK, grantVars
    <2>5. \A d \in Enders : closing'[d] = IF d = c THEN n ELSE closing[d]
      BY <2>2 DEF GrantsInv, GrantsTypeOK
    <2>6. ClosingOK'
      <3>1. closing[c].as \in RunEndings
        BY <2>2 DEF GrantsInv, ClosingOK
      <3>2. ~(~reopened' /\ run' = "executable")
        BY <2>2 DEF GrantsInv, ClosingOK
      <3>3. status' = status /\ revived' = revived
        BY <1>1 DEF grantVars
      <3>4. /\ n.at = "close" /\ n.as \in RunEndings
            /\ \A g \in Grants : status[g] = "active" => g \in n.todo
        BY <3>1
      <3> HIDE DEF n
      <3> QED
        BY <2>5, <3>2, <3>3, <3>4 DEF GrantsInv, ClosingOK
    <2> QED
      BY <2>4, <2>6
  <1>5. CASE ReopenRun
    <2>1. run' = "executable" /\ reopened' = TRUE /\ closing' = closing
      BY <1>5 DEF ReopenRun
    <2>2. GrantsTypeOK'
      BY <1>1, <2>1 DEF GrantsInv, GrantsTypeOK, grantVars
    <2>3. status' = status /\ revived' = revived
      BY <1>1 DEF grantVars
    <2>4. ClosingOK'
      BY <2>1, <2>3 DEF GrantsInv, ClosingOK
    <2> QED
      BY <1>1, <1>2, <2>2, <2>4, SameGrants DEF GrantsInv
  <1> QED
    BY <1>1, <1>2, <1>3, <1>4, <1>5, SameGrants DEF GrantsInv

\* An end of the run closes the grants it listed one by one.
LEMMA CloseNextStep ==
  ASSUME GrantsInv, NEW c \in Enders, CloseNext(c)
  PROVE  GrantsInv'
  <1> USE GrantsAssumption
  <1> DEFINE todo == closing[c].todo
             as == closing[c].as
  <1>1. /\ UNCHANGED <<run, reopened, revived, stepStatus, parent, lineage, stepOf, limit, used,
                       cost, latest, turn, issue>>
        /\ closing[c].at = "close" /\ closing[c] \in Closing
        /\ todo \subseteq Grants /\ as \in RunEndings
    BY DEF CloseNext, GrantsInv, GrantsTypeOK, ClosingOK, Closing
  <1>2. RequestsOK'
    BY <1>1 DEF GrantsInv, RequestsOK
  <1>3. PICK n \in Closing :
            /\ closing' = [closing EXCEPT ![c] = n]
            /\ n.as = as
            /\ \/ UNCHANGED status /\ n.at = "done" /\ todo = {}
               \/ UNCHANGED status /\ n.at = "failed"
               \/ /\ n.at = "close"
                  /\ \E g \in todo :
                       /\ n.todo = todo \ {g}
                       /\ \/ update_task_grant_status(g, as)
                          \/ UNCHANGED status /\ status[g] = as
    <2>1. CASE todo = {}
      <3>1. closing' = [closing EXCEPT ![c] = [closing[c] EXCEPT !.at = "done"]] /\ UNCHANGED status
        BY <2>1 DEF CloseNext
      <3>2. /\ [closing[c] EXCEPT !.at = "done"] \in Closing
            /\ [closing[c] EXCEPT !.at = "done"].at = "done"
            /\ [closing[c] EXCEPT !.at = "done"].as = as
        BY <1>1 DEF Closing
      <3> QED
        BY <2>1, <3>1, <3>2
    <2>2. CASE todo # {}
      <3>1. PICK g \in todo :
              \/ /\ update_task_grant_status(g, as)
                 /\ closing' = [closing EXCEPT ![c].todo = @ \ {g}]
              \/ /\ status[g] = as
                 /\ closing' = [closing EXCEPT ![c].todo = @ \ {g}]
                 /\ UNCHANGED status
              \/ /\ closing' = [closing EXCEPT ![c] = [at |-> "failed", as |-> as, todo |-> {}]]
                 /\ UNCHANGED status
        BY <2>2 DEF CloseNext
      <3>2. CASE /\ closing' = [closing EXCEPT ![c].todo = @ \ {g}]
                 /\ \/ update_task_grant_status(g, as)
                    \/ UNCHANGED status /\ status[g] = as
        <4>1. closing' = [closing EXCEPT ![c] = [closing[c] EXCEPT !.todo = todo \ {g}]]
          BY <3>2
        <4>2. /\ [closing[c] EXCEPT !.todo = todo \ {g}] \in Closing
              /\ [closing[c] EXCEPT !.todo = todo \ {g}].at = "close"
              /\ [closing[c] EXCEPT !.todo = todo \ {g}].as = as
              /\ [closing[c] EXCEPT !.todo = todo \ {g}].todo = todo \ {g}
          BY <1>1 DEF Closing
        <4> QED
          BY <3>2, <4>1, <4>2
      <3>3. CASE /\ closing' = [closing EXCEPT ![c] = [at |-> "failed", as |-> as, todo |-> {}]]
                 /\ UNCHANGED status
        <4>1. [at |-> "failed", as |-> as, todo |-> {}] \in Closing
          BY <1>1 DEF Closing
        <4> QED
          BY <3>3, <4>1
      <3> QED
        BY <3>1, <3>2, <3>3
    <2> QED
      BY <2>1, <2>2
  <1>4. /\ status' \in [Grants -> {"absent", "active"} \cup Terminal]
        /\ LineageOK' /\ BudgetsHold' /\ DelegationNarrows'
        /\ \A h \in Grants : status'[h] = "active" => status[h] = "active"
        /\ n.at = "close" => \A h \in Grants :
              status'[h] = "active" /\ h \in todo => h \in n.todo
    <2>1. CASE UNCHANGED status
      <3>1. UNCHANGED grantVars
        BY <1>1, <2>1 DEF grantVars
      <3>2. \A g \in todo : status[g] = as => status[g] # "active"
        BY <1>1
      <3>3. ~\E g \in todo : update_task_grant_status(g, as)
        <4> SUFFICES ASSUME NEW g \in todo, update_task_grant_status(g, as) PROVE FALSE
          OBVIOUS
        <4>1. g \in Grants /\ status' = [status EXCEPT ![g] = as] /\ status[g] = "active"
          BY <1>1 DEF update_task_grant_status
        <4>2. status'[g] = as
          BY <4>1 DEF GrantsInv, GrantsTypeOK
        <4> QED
          BY <1>1, <2>1, <4>1, <4>2
      <3>4. n.at = "close" => \A h \in Grants :
                status'[h] = "active" /\ h \in todo => h \in n.todo
        BY <1>3, <2>1, <3>2, <3>3
      <3> QED
        BY <2>1, <3>1, <3>4, SameGrants DEF GrantsInv, GrantsTypeOK
    <2>2. ASSUME NEW g \in todo, n.todo = todo \ {g}, update_task_grant_status(g, as)
          PROVE  /\ status' \in [Grants -> {"absent", "active"} \cup Terminal]
                 /\ LineageOK' /\ BudgetsHold' /\ DelegationNarrows'
                 /\ \A h \in Grants : status'[h] = "active" => status[h] = "active"
                 /\ \A h \in Grants : status'[h] = "active" /\ h \in todo => h \in n.todo
      <3>1. g \in Grants /\ as \in Terminal /\ status[g] = "active"
            /\ status' = [status EXCEPT ![g] = as]
        BY <1>1, <2>2 DEF update_task_grant_status, Terminal
      <3>2. /\ status' \in [Grants -> {"absent", "active"} \cup Terminal]
            /\ LineageOK' /\ BudgetsHold' /\ DelegationNarrows'
            /\ \A h \in Grants : status'[h] = "active" => status[h] = "active" /\ h # g
        BY <1>1, <3>1, EndGrant
      <3> QED
        BY <2>2, <3>2
    <2> QED
      BY <1>3, <2>1, <2>2
  <1>5. GrantsTypeOK'
    BY <1>1, <1>3, <1>4 DEF GrantsInv, GrantsTypeOK
  <1>6. \A d \in Enders : closing'[d] = IF d = c THEN n ELSE closing[d]
    BY <1>3 DEF GrantsInv, GrantsTypeOK
  <1>7. ClosingOK'
    <2>1. ~(~reopened' /\ run' = "executable")
      BY <1>1 DEF GrantsInv, ClosingOK
    <2>2. n.as \in RunEndings /\ n.at \in {"close", "done", "failed"}
      BY <1>1, <1>3
    <2>3. \A g \in Grants : status[g] = "active" => g \in todo \cup revived
      BY <1>1 DEF GrantsInv, ClosingOK
    <2>4. /\ n.at = "close" =>
                \A g \in Grants : status'[g] = "active" => g \in n.todo \cup revived'
          /\ n.at = "done" => \A g \in Grants : status'[g] = "active" => g \in revived'
      BY <1>1, <1>3, <1>4, <2>3
    <2>5. ASSUME NEW d \in Enders, d # c
          PROVE  /\ closing'[d].at # "idle" => closing'[d].as \in RunEndings
                 /\ closing'[d].at = "close" =>
                       \A g \in Grants :
                          status'[g] = "active" => g \in closing'[d].todo \cup revived'
                 /\ closing'[d].at = "done" =>
                       \A g \in Grants : status'[g] = "active" => g \in revived'
      BY <1>1, <1>4, <1>6, <2>5 DEF GrantsInv, ClosingOK
    <2> QED
      BY <1>6, <2>1, <2>2, <2>4, <2>5 DEF ClosingOK
  <1> QED
    BY <1>2, <1>4, <1>5, <1>7 DEF GrantsInv

\* Every step keeps the invariant.
LEMMA GrantsInvNext == GrantsInv /\ [GrantsNext]_vars => GrantsInv'
  <1> SUFFICES ASSUME GrantsInv, [GrantsNext]_vars PROVE GrantsInv'
    OBVIOUS
  <1>1. CASE UNCHANGED vars
    <2>1. UNCHANGED grantVars
      BY <1>1 DEF vars, grantVars
    <2>2. GrantsTypeOK' /\ RequestsOK' /\ ClosingOK'
      BY <1>1, SameClosing DEF vars, runVars, GrantsInv, GrantsTypeOK, RequestsOK
    <2> QED
      BY <2>1, <2>2, SameGrants DEF GrantsInv
  <1> QED
    BY <1>1, DelegationStep, CreateChildStep, RefuseChildStep, TurnStep, ReserveTurnStep,
       CommitCallStep, EndGrantStep, EndStepStep, EndingStep, CloseNextStep DEF GrantsNext

-----------------------------------------------------------------------------
(* The theorems *)

\* The invariant the others follow from.
THEOREM GrantsInvariant == GrantsSpec => []GrantsInv
  BY GrantsInvInit, GrantsInvNext, PTL DEF GrantsSpec

\* Every grant, request and turn keeps its type; in particular what is left of
\* a budget that a child is created with is never zero or negative.
THEOREM GrantsTypeCorrect == GrantsSpec => []GrantsTypeOK
  <1>1. GrantsInv => GrantsTypeOK
    BY DEF GrantsInv
  <1> QED
    BY <1>1, GrantsInvariant, PTL

\* However many sessions reserve at the same time, no grant of a lineage is
\* charged more turns or tool calls than it allows (reserve_task_grant_usage).
THEOREM BudgetsAreHeld == GrantsSpec => []BudgetsHold
  <1>1. GrantsInv => BudgetsHold
    BY DEF GrantsInv
  <1> QED
    BY <1>1, GrantsInvariant, PTL

\* However deep the delegation, no grant has a budget that one of its
\* ancestors does not have (ensure_child_task_grant_within_parent).
THEOREM DelegationOnlyNarrows == GrantsSpec => []DelegationNarrows
  <1>1. GrantsInv => DelegationNarrows
    BY DEF GrantsInv
  <1> QED
    BY <1>1, GrantsInvariant, PTL

\* Once close_active_task_grants_for_workflow_run has finished, no grant of
\* the run is active, whatever was delegated while it worked, except what was
\* delegated after an old copy of the run wrote an executable status over its
\* end.
THEOREM ClosedRunsHaveNoAuthority == GrantsSpec => []ClosedRunHasNoAuthority
  <1>1. GrantsInv => ClosedRunHasNoAuthority
    BY DEF GrantsInv, ClosingOK, ClosedRunHasNoAuthority
  <1> QED
    BY <1>1, GrantsInvariant, PTL

\* Only update_task_grant_status and the marking of an expired grant change
\* the status of a grant that exists, and both need it active.
LEMMA StatusStep ==
  ASSUME GrantsInv, [GrantsNext]_vars, NEW g \in Grants, status[g] \in Terminal
  PROVE  status'[g] = status[g]
  <1> USE GrantsAssumption
  <1>1. status[g] # "active" /\ status[g] # "absent"
    BY DEF Terminal
  <1>2. ASSUME NEW h \in Grants, NEW e, status' = [status EXCEPT ![h] = e], h # g
        PROVE  status'[g] = status[g]
    BY <1>2 DEF GrantsInv, GrantsTypeOK
  <1>3. \/ status' = status
        \/ \E h \in Grants, i \in Issuers : CreateChild(i, h)
        \/ \E i \in Issuers : RefuseChild(i)
        \/ \E h \in Grants : Expire(h) \/ FinalizeStep(h)
        \/ \E c \in Enders : CloseNext(c)
    BY DEF GrantsNext, vars, grantVars, ReadParentForStep, ReadParentForRequest, CheckTurn,
           ReserveTurn, FinishTurn, DropTurn, CommitCall, EndStep, EndRun, ReopenRun, ListActive
  <1>4. ASSUME NEW h \in Grants, NEW i \in Issuers, CreateChild(i, h)
        PROVE  status'[g] = status[g]
    BY <1>1, <1>2, <1>4 DEF CreateChild, Record
  <1>5. ASSUME NEW i \in Issuers, RefuseChild(i)
        PROVE  status'[g] = status[g]
    BY <1>1, <1>2, <1>5 DEF RefuseChild, GrantsInv, RequestsOK
  <1>6. ASSUME NEW h \in Grants, Expire(h) \/ FinalizeStep(h)
        PROVE  status'[g] = status[g]
    BY <1>1, <1>2, <1>6 DEF Expire, FinalizeStep, update_task_grant_status
  <1>7. ASSUME NEW c \in Enders, CloseNext(c)
        PROVE  status'[g] = status[g]
    <2>1. closing[c].todo \subseteq Grants
      BY DEF GrantsInv, GrantsTypeOK, Closing
    <2> QED
      BY <1>1, <1>2, <1>7, <2>1 DEF CloseNext, update_task_grant_status
  <1> QED
    BY <1>3, <1>4, <1>5, <1>6, <1>7

\* An ended grant keeps its ending and never becomes active again.
THEOREM EndedGrantsAreFinal == GrantsSpec => GrantIsFinal
  <1>1. GrantsInv /\ [GrantsNext]_vars =>
            [\A g \in Grants : status[g] \in Terminal => status'[g] = status[g]]_vars
    BY StatusStep
  <1> QED
    BY <1>1, GrantsInvariant, PTL DEF GrantsSpec, GrantIsFinal
=============================================================================
