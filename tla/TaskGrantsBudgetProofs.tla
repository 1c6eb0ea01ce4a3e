----------------------- MODULE TaskGrantsBudgetProofs -----------------------
(***************************************************************************)
(* What TaskGrants guarantees about sums, for any number of turns under    *)
(* way and of grants: how far a cost budget can be exceeded by the turns   *)
(* that run under it, and that a grant has been charged at least what its  *)
(* children have been charged together.                                    *)
(***************************************************************************)
EXTENDS TaskGrantsProofs, SetSums

\* A turn works under a grant that exists, and a grant that does not exist has
\* cost nothing.
TurnsOK ==
    /\ \A x \in Sessions : latest[x] # NoGrant => status[latest[x]] # "absent"
    /\ \A l \in Loops : turn[l].at # "idle" => status[turn[l].grant] # "absent"
    /\ \A g \in Grants : status[g] = "absent" => cost[g] = 0

\* The turns that run under g and have yet to be charged.
Running(g) == {l \in Loops : turn[l].at = "running" /\ g \in lineage[turn[l].grant]}

\* What g has been charged, and the most that the running turns can still add,
\* stay below its limit and one response of each turn.
CostOK ==
    \A g \in Grants :
        limit[g].cost # NoLimit =>
            cost[g] + MaxCharge * Cardinality(Running(g))
                < limit[g].cost + MaxCharge * Cardinality(Loops)

CostInv == TurnsOK /\ CostOK

-----------------------------------------------------------------------------
(* Turns and their charges *)

\* More turns can be charged more.
LEMMA MoreTurns ==
  ASSUME NEW R, NEW U \in SUBSET Loops, R \subseteq U
  PROVE  /\ MaxCharge * Cardinality(R) \in Nat /\ MaxCharge * Cardinality(U) \in Nat
         /\ MaxCharge * Cardinality(R) <= MaxCharge * Cardinality(U)
  <1>1. IsFiniteSet(U)
    BY GrantsAssumption, FS_Subset
  <1>2. IsFiniteSet(R) /\ Cardinality(R) <= Cardinality(U)
    BY <1>1, FS_Subset
  <1>3. Cardinality(R) \in Nat /\ Cardinality(U) \in Nat /\ MaxCharge \in Nat
    BY <1>1, <1>2, FS_CardinalityType, GrantsAssumption
  <1>4. ASSUME NEW m \in Nat, NEW n \in Nat, NEW M \in Nat, m <= n
        PROVE  M * m \in Nat /\ M * n \in Nat /\ M * m <= M * n
    <2>1. (n - m) \in Nat
      BY <1>4
    <2>2. M * (n - m) \in Nat /\ M * (n - m) = M * n - M * m /\ M * m \in Nat /\ M * n \in Nat
      BY <2>1
    <2> QED
      BY <2>2
  <1> QED
    BY <1>2, <1>3, <1>4

\* The bound survives when fewer turns run.
LEMMA RoomKept ==
  ASSUME NEW c \in Nat, NEW m \in Nat, NEW R, NEW S, S \subseteq R, R \subseteq Loops,
         c + MaxCharge * Cardinality(R) < m + MaxCharge * Cardinality(Loops)
  PROVE  c + MaxCharge * Cardinality(S) < m + MaxCharge * Cardinality(Loops)
  <1>1. /\ MaxCharge * Cardinality(S) \in Nat /\ MaxCharge * Cardinality(R) \in Nat
        /\ MaxCharge * Cardinality(S) <= MaxCharge * Cardinality(R)
    BY MoreTurns
  <1>2. MaxCharge * Cardinality(Loops) \in Nat
    BY MoreTurns
  <1> QED
    BY <1>1, <1>2

\* The bound holds for a grant that has cost budget left.
LEMMA RoomChecked ==
  ASSUME NEW c \in Nat, NEW m \in Nat, NEW R, R \subseteq Loops, c < m
  PROVE  c + MaxCharge * Cardinality(R) < m + MaxCharge * Cardinality(Loops)
  <1>1. /\ MaxCharge * Cardinality(R) \in Nat /\ MaxCharge * Cardinality(Loops) \in Nat
        /\ MaxCharge * Cardinality(R) <= MaxCharge * Cardinality(Loops)
    BY MoreTurns
  <1> QED
    BY <1>1

\* A response is charged for a turn that ran until then.
LEMMA RoomCharged ==
  ASSUME NEW c \in Nat, NEW m \in Nat, NEW R, R \subseteq Loops, NEW l \in R,
         NEW d \in 0..MaxCharge,
         c + MaxCharge * Cardinality(R) < m + MaxCharge * Cardinality(Loops)
  PROVE  c + d + MaxCharge * Cardinality(R \ {l}) < m + MaxCharge * Cardinality(Loops)
  <1>1. /\ MaxCharge * Cardinality(R) \in Nat /\ MaxCharge * Cardinality(Loops) \in Nat
    BY MoreTurns
  <1>2. IsFiniteSet(R) /\ MaxCharge \in Nat
    BY GrantsAssumption, FS_Subset
  <1>3. Cardinality(R) \in Nat /\ Cardinality(R \ {l}) = Cardinality(R) - 1
    BY <1>2, FS_RemoveElement, FS_CardinalityType
  <1>4. ASSUME NEW M \in Nat, NEW n \in Nat
        PROVE  M * (n - 1) = M * n - M
    OBVIOUS
  <1>5. MaxCharge * Cardinality(R \ {l}) = MaxCharge * Cardinality(R) - MaxCharge
    BY <1>2, <1>3, <1>4
  <1> QED
    BY <1>1, <1>2, <1>5

\* Limits and charges are numbers.
LEMMA CostNumbers ==
  ASSUME GrantsInv, NEW g \in Grants
  PROVE  cost[g] \in Nat /\ (limit[g].cost # NoLimit => limit[g].cost \in Nat \ {0})
  BY DEF GrantsInv, GrantsTypeOK, Limits, Limit

-----------------------------------------------------------------------------
(* The inductive step *)

\* The root grant alone exists, and no turn runs.
LEMMA CostInvInit == GrantsInit => CostInv
  <1> SUFFICES ASSUME GrantsInit PROVE CostInv
    OBVIOUS
  <1> USE GrantsAssumption
  <1>1. TurnsOK
    BY DEF GrantsInit, TurnsOK, Primary
  <1>2. GrantsInv
    BY GrantsInvInit
  <1>3. ASSUME NEW g \in Grants, limit[g].cost # NoLimit
        PROVE  cost[g] + MaxCharge * Cardinality(Running(g))
                   < limit[g].cost + MaxCharge * Cardinality(Loops)
    <2>1. cost[g] = 0 /\ Running(g) \subseteq Loops
      BY DEF GrantsInit, Running
    <2>2. cost[g] \in Nat /\ limit[g].cost \in Nat /\ cost[g] < limit[g].cost
      BY <1>2, <1>3, <2>1, CostNumbers
    <2> QED
      BY <2>1, <2>2, RoomChecked
  <1> QED
    BY <1>1, <1>3 DEF CostInv, CostOK

\* A step that creates no grant and touches no turn, cost or latest grant.
LEMMA CostSame ==
  ASSUME GrantsInv, CostInv, UNCHANGED <<lineage, limit, cost, latest, turn>>,
         \A g \in Grants : status[g] = "absent" <=> status'[g] = "absent"
  PROVE  CostInv'
  <1>1. TurnsOK'
    BY DEF CostInv, TurnsOK, GrantsInv, GrantsTypeOK, RequestsOK
  <1>2. \A g \in Grants : Running(g)' = Running(g)
    BY DEF Running
  <1>3. CostOK'
    BY <1>2 DEF CostInv, CostOK
  <1> QED
    BY <1>1, <1>3 DEF CostInv

\* The new grant has cost nothing, and no turn runs under it.
LEMMA CostCreateChild ==
  ASSUME GrantsInv, GrantsInv', CostInv, NEW i \in Issuers, NEW g \in Grants, CreateChild(i, g)
  PROVE  CostInv'
  <1> USE GrantsAssumption
  <1>1. PICK p, s : Record(g, p, s, issue[i].wants)
    BY DEF CreateChild
  <1>2. /\ status[g] = "absent" /\ UNCHANGED <<cost, turn>>
        /\ \A h \in Grants : status'[h] = IF h = g THEN "active" ELSE status[h]
        /\ \A h \in Grants \ {g} : lineage'[h] = lineage[h] /\ limit'[h] = limit[h]
        /\ \A x \in Sessions : latest'[x] = latest[x] \/ latest'[x] = g
    BY <1>1 DEF CreateChild, Record, GrantsInv, GrantsTypeOK
  <1>3. \A l \in Loops : turn[l].at # "idle" => turn[l].grant \in Grants \ {g}
    BY <1>2 DEF GrantsInv, CostInv, TurnsOK, RequestsOK
  <1>4. TurnsOK'
    <2>1. \A x \in Sessions : latest[x] # NoGrant => latest[x] \in Grants
      BY DEF GrantsInv, GrantsTypeOK
    <2>2. \A x \in Sessions : latest'[x] # NoGrant => status'[latest'[x]] # "absent"
      BY <1>2, <2>1 DEF CostInv, TurnsOK
    <2>3. \A l \in Loops : turn'[l].at # "idle" => status'[turn'[l].grant] # "absent"
      BY <1>2, <1>3 DEF CostInv, TurnsOK
    <2>4. \A h \in Grants : status'[h] = "absent" => cost'[h] = 0
      BY <1>2 DEF CostInv, TurnsOK
    <2> QED
      BY <2>2, <2>3, <2>4 DEF TurnsOK
  <1>5. ASSUME NEW h \in Grants, limit'[h].cost # NoLimit
        PROVE  (cost[h] + MaxCharge * Cardinality(Running(h))
                   < limit[h].cost + MaxCharge * Cardinality(Loops))'
    <2>1. Running(h)' = Running(h) /\ Running(h) \subseteq Loops
      BY <1>2, <1>3 DEF Running
    <2>2. /\ cost'[h] \in Nat /\ limit'[h].cost \in Nat \ {0}
      BY <1>5 DEF GrantsInv, GrantsTypeOK, Limits, Limit
    <2>3. CASE h = g
      <3>1. cost'[h] < limit'[h].cost
        BY <1>2, <2>2, <2>3 DEF CostInv, TurnsOK
      <3> QED
        BY <2>1, <2>2, <3>1, RoomChecked
    <2>4. CASE h # g
      <3>1. cost'[h] = cost[h] /\ limit'[h] = limit[h]
        BY <1>2, <2>4
      <3> QED
        BY <1>5, <2>1, <3>1 DEF CostInv, CostOK
    <2> QED
      BY <2>3, <2>4
  <1> QED
    BY <1>4, <1>5 DEF CostInv, CostOK

\* A turn that is checked, reserved or dropped charges no cost.  It runs only
\* after reserve_task_grant_turn has found cost budget left in the whole lineage.
LEMMA CostTurn ==
  ASSUME GrantsInv, CostInv, NEW l \in Loops,
         (\E x \in Sessions : CheckTurn(l, x)) \/ ReserveTurn(l) \/ DropTurn(l)
  PROVE  CostInv'
  <1> USE GrantsAssumption
  <1>1. UNCHANGED <<status, lineage, limit, cost, latest>>
    BY DEF CheckTurn, ReserveTurn, DropTurn, grantVars
  <1>2. /\ \A m \in Loops \ {l} : turn'[m] = turn[m]
        /\ \/ turn'[l] = [at |-> "idle", grant |-> NoGrant]
           \/ \E x \in Sessions : /\ turn'[l] = [at |-> "checked", grant |-> latest[x]]
                                  /\ latest[x] # NoGrant
           \/ /\ turn'[l] = [turn[l] EXCEPT !.at = "running"]
              /\ turn[l].at = "checked"
              /\ \A h \in lineage[turn[l].grant] : ~CostExhausted(h)
    BY DEF CheckTurn, ReserveTurn, DropTurn, GrantsInv, GrantsTypeOK, Reserve,
           task_grant_reservation_denial, task_grant_runtime_denial
  <1>3. turn[l] \in [at : {"idle", "checked", "running"}, grant : Grants \cup {NoGrant}]
    BY DEF GrantsInv, GrantsTypeOK
  <1>4. turn'[l].at # "idle" =>
            status[turn'[l].grant] # "absent" /\ turn'[l].grant \in Grants
    <2>1. CASE turn'[l] = [at |-> "idle", grant |-> NoGrant]
      BY <2>1
    <2>2. ASSUME NEW x \in Sessions, turn'[l] = [at |-> "checked", grant |-> latest[x]],
                 latest[x] # NoGrant
          PROVE  status[turn'[l].grant] # "absent" /\ turn'[l].grant \in Grants
      <3>1. latest[x] \in Grants /\ status[latest[x]] # "absent"
        BY <2>2 DEF CostInv, TurnsOK, GrantsInv, GrantsTypeOK
      <3>2. turn'[l].grant = latest[x]
        BY <2>2
      <3> QED
        BY <3>1, <3>2
    <2>3. CASE turn'[l] = [turn[l] EXCEPT !.at = "running"] /\ turn[l].at = "checked"
      <3>1. turn'[l].grant = turn[l].grant
        BY <1>3, <2>3
      <3> QED
        BY <2>3, <3>1 DEF CostInv, TurnsOK, GrantsInv, RequestsOK
    <2> QED
      BY <1>2, <2>1, <2>2, <2>3
  <1>5. TurnsOK'
    BY <1>1, <1>2, <1>4 DEF CostInv, TurnsOK
  <1>6. ASSUME NEW h \in Grants, limit[h].cost # NoLimit
        PROVE  (cost[h] + MaxCharge * Cardinality(Running(h))
                   < limit[h].cost + MaxCharge * Cardinality(Loops))'
    <2>1. cost[h] \in Nat /\ limit[h].cost \in Nat /\ Running(h) \subseteq Loops
      BY <1>6, CostNumbers DEF Running
    <2>2. cost[h] + MaxCharge * Cardinality(Running(h))
              < limit[h].cost + MaxCharge * Cardinality(Loops)
      BY <1>6 DEF CostInv, CostOK
    <2>3. CASE turn'[l].at = "running" /\ h \in lineage[turn'[l].grant]
      <3>1. turn'[l].grant = turn[l].grant /\ ~CostExhausted(h)
        <4>1. /\ turn'[l] # [at |-> "idle", grant |-> NoGrant]
              /\ \A x \in Sessions : turn'[l] # [at |-> "checked", grant |-> latest[x]]
          BY <2>3
        <4>2. /\ turn'[l] = [turn[l] EXCEPT !.at = "running"]
              /\ \A a \in lineage[turn[l].grant] : ~CostExhausted(a)
          BY <1>2, <4>1
        <4>3. turn'[l].grant = turn[l].grant
          BY <1>3, <4>2
        <4> QED
          BY <2>3, <4>2, <4>3
      <3>2. cost[h] < limit[h].cost
        BY <1>6, <2>1, <3>1 DEF CostExhausted
      <3>3. Running(h)' \subseteq Loops
        BY DEF Running
      <3>4. ASSUME NEW R, R \subseteq Loops
            PROVE  cost[h] + MaxCharge * Cardinality(R)
                       < limit[h].cost + MaxCharge * Cardinality(Loops)
        BY <2>1, <3>2, <3>4, RoomChecked
      <3> QED
        BY <1>1, <3>3, <3>4
    <2>4. CASE ~(turn'[l].at = "running" /\ h \in lineage[turn'[l].grant])
      <3>1. Running(h)' \subseteq Running(h)
        BY <1>1, <1>2, <2>4 DEF Running
      <3>2. ASSUME NEW R, R \subseteq Running(h)
            PROVE  cost[h] + MaxCharge * Cardinality(R)
                       < limit[h].cost + MaxCharge * Cardinality(Loops)
        BY <2>1, <2>2, <3>2, RoomKept
      <3> QED
        BY <1>1, <3>1, <3>2
    <2> QED
      BY <2>3, <2>4
  <1> QED
    BY <1>1, <1>5, <1>6 DEF CostInv, CostOK

\* add_task_grant_cost charges the lineage of a turn that was running: what it
\* adds was allowed for.
LEMMA CostFinishTurn ==
  ASSUME GrantsInv, CostInv, NEW l \in Loops, FinishTurn(l)
  PROVE  CostInv'
  <1> USE GrantsAssumption
  <1>1. PICK d \in 0..MaxCharge :
            cost' = [h \in Grants |->
                IF h \in lineage[turn[l].grant] THEN cost[h] + d ELSE cost[h]]
    BY DEF FinishTurn
  <1>2. /\ UNCHANGED <<status, lineage, limit, latest>> /\ turn[l].at = "running"
        /\ turn'[l].at = "idle" /\ \A m \in Loops \ {l} : turn'[m] = turn[m]
    BY DEF FinishTurn, GrantsInv, GrantsTypeOK
  <1>3. turn[l].grant \in Grants /\ status[turn[l].grant] # "absent"
        /\ \A h \in lineage[turn[l].grant] : status[h] # "absent"
    BY <1>2 DEF GrantsInv, CostInv, TurnsOK, RequestsOK, LineageOK
  <1>4. TurnsOK'
    BY <1>1, <1>2, <1>3 DEF CostInv, TurnsOK
  <1>5. ASSUME NEW h \in Grants, limit[h].cost # NoLimit
        PROVE  (cost[h] + MaxCharge * Cardinality(Running(h))
                   < limit[h].cost + MaxCharge * Cardinality(Loops))'
    <2>1. cost[h] \in Nat /\ limit[h].cost \in Nat /\ Running(h) \subseteq Loops
      BY <1>5, CostNumbers DEF Running
    <2>2. cost[h] + MaxCharge * Cardinality(Running(h))
              < limit[h].cost + MaxCharge * Cardinality(Loops)
      BY <1>5 DEF CostInv, CostOK
    <2>3. Running(h)' = Running(h) \ {l}
      BY <1>2 DEF Running
    <2>4. CASE h \in lineage[turn[l].grant]
      <3>1. l \in Running(h)
        BY <1>2, <2>4 DEF Running
      <3>2. cost[h] + d + MaxCharge * Cardinality(Running(h) \ {l})
                < limit[h].cost + MaxCharge * Cardinality(Loops)
        BY <2>1, <2>2, <3>1, RoomCharged
      <3>3. cost'[h] = cost[h] + d
        BY <1>1, <2>4
      <3> QED
        BY <1>2, <2>3, <3>2, <3>3
    <2>5. CASE h \notin lineage[turn[l].grant]
      <3>1. Running(h)' = Running(h) /\ cost'[h] = cost[h]
        BY <1>1, <1>2, <2>5 DEF Running
      <3> QED
        BY <1>2, <2>2, <3>1
    <2> QED
      BY <2>4, <2>5
  <1> QED
    BY <1>2, <1>4, <1>5 DEF CostInv, CostOK

\* Ending a grant neither creates nor removes one.
LEMMA AbsenceKept ==
  ASSUME GrantsInv,
         \/ \E i \in Issuers : RefuseChild(i)
         \/ \E g \in Grants : Expire(g) \/ FinalizeStep(g)
         \/ \E c \in Enders : CloseNext(c)
  PROVE  \A g \in Grants : status[g] = "absent" <=> status'[g] = "absent"
  <1> USE GrantsAssumption
  <1>1. \/ UNCHANGED status
        \/ \E g \in Grants, e \in Terminal :
              status[g] = "active" /\ status' = [status EXCEPT ![g] = e]
    <2>1. CASE \E i \in Issuers : RefuseChild(i)
      BY <2>1 DEF RefuseChild, GrantsInv, RequestsOK, Terminal
    <2>2. CASE \E g \in Grants : Expire(g) \/ FinalizeStep(g)
      BY <2>2 DEF Expire, FinalizeStep, update_task_grant_status, StepEnded, Terminal
    <2>3. ASSUME NEW c \in Enders, CloseNext(c)
          PROVE  \/ UNCHANGED status
                 \/ \E g \in Grants, e \in Terminal :
                       status[g] = "active" /\ status' = [status EXCEPT ![g] = e]
      <3>1. closing[c].todo \subseteq Grants /\ closing[c].as \in Terminal
        BY <2>3 DEF CloseNext, GrantsInv, GrantsTypeOK, Closing, ClosingOK, Terminal
      <3> QED
        BY <2>3, <3>1 DEF CloseNext, update_task_grant_status
    <2> QED
      BY <2>1, <2>2, <2>3
  <1>2. \A e \in Terminal : e # "absent"
    BY DEF Terminal
  <1> QED
    BY <1>1, <1>2 DEF GrantsInv, GrantsTypeOK

\* No other step creates a grant, moves a turn or charges cost.
LEMMA CostOtherStep ==
  ASSUME GrantsInv, CostInv,
         \/ \E i \in Issuers :
               (\E g \in Grants : ReadParentForStep(i, g) \/ ReadParentForRequest(i, g))
               \/ RefuseChild(i)
         \/ \E g \in Grants : CommitCall(g) \/ Expire(g) \/ FinalizeStep(g)
         \/ \E e \in StepEndings, s \in Steps : EndStep(s, e)
         \/ \E c \in Enders :
               (\E e \in RunEndings : EndRun(c, e)) \/ ListActive(c) \/ CloseNext(c)
         \/ ReopenRun
         \/ UNCHANGED vars
  PROVE  CostInv'
  <1> USE GrantsAssumption
  <1>1. UNCHANGED <<lineage, limit, cost, latest, turn>>
    BY DEF ReadParentForStep, ReadParentForRequest, RefuseChild, CommitCall, Expire,
           FinalizeStep, EndStep, EndRun, ReopenRun, ListActive, CloseNext, vars, grantVars
  <1>2. \A g \in Grants : status[g] = "absent" <=> status'[g] = "absent"
    BY AbsenceKept DEF ReadParentForStep, ReadParentForRequest, CommitCall,
         EndStep, EndRun, ReopenRun, ListActive, vars, grantVars
  <1> QED
    BY <1>1, <1>2, CostSame

\* Every step keeps the bound.
LEMMA CostInvNext == GrantsInv /\ GrantsInv' /\ CostInv /\ [GrantsNext]_vars => CostInv'
  <1> SUFFICES ASSUME GrantsInv, GrantsInv', CostInv, [GrantsNext]_vars PROVE CostInv'
    OBVIOUS
  <1>1. ASSUME NEW i \in Issuers, NEW g \in Grants, CreateChild(i, g)
        PROVE  CostInv'
    BY <1>1, CostCreateChild
  <1>2. ASSUME NEW l \in Loops,
               \/ \E x \in Sessions : CheckTurn(l, x)
               \/ ReserveTurn(l) \/ DropTurn(l) \/ FinishTurn(l)
        PROVE  CostInv'
    BY <1>2, CostTurn, CostFinishTurn
  <1> QED
    BY <1>1, <1>2, CostOtherStep DEF GrantsNext

\* The cost of a run can exceed a grant's budget, because a response is charged
\* after the turn was admitted and without a fence, but by less than one response
\* of each turn that can be under way at once, for any number of turns and grants
\* (reserve_task_grant_turn, add_task_grant_cost).
THEOREM CostOvershootHolds == GrantsSpec => []CostOvershootIsBounded
  <1>1. GrantsInv /\ CostInv => CostOvershootIsBounded
    <2> SUFFICES ASSUME GrantsInv, CostInv, NEW g \in Grants, limit[g].cost # NoLimit
                 PROVE  cost[g] < limit[g].cost + MaxCharge * Cardinality(Loops)
      BY DEF CostOvershootIsBounded
    <2>1. cost[g] + MaxCharge * Cardinality(Running(g))
              < limit[g].cost + MaxCharge * Cardinality(Loops)
      BY DEF CostInv, CostOK
    <2>2. Running(g) \subseteq Loops
      BY DEF Running
    <2>3. /\ MaxCharge * Cardinality(Running(g)) \in Nat
          /\ MaxCharge * Cardinality(Loops) \in Nat
      BY <2>2, MoreTurns
    <2>4. cost[g] \in Nat /\ limit[g].cost \in Nat
      BY CostNumbers
    <2> QED
      BY <2>1, <2>3, <2>4
  <1> QED
    BY <1>1, CostInvInit, CostInvNext, GrantsInvariant, PTL DEF GrantsSpec

-----------------------------------------------------------------------------
(* A grant and its children *)

Existing == {g \in Grants : status[g] # "absent"}

\* Parents exist, a lineage is closed under parents and has at most one child of
\* any grant, none of its own grant: it is a chain.  Only finitely many grants
\* exist.
ChainOK ==
    /\ IsFiniteSet(Existing)
    /\ \A c \in Grants : parent[c] # NoGrant => c \in Existing /\ parent[c] \in Existing
    /\ \A g \in Grants : \A c \in lineage[g] :
          parent[c] # NoGrant => parent[c] \in lineage[g] /\ parent[c] # g
    /\ \A g \in Grants : \A c, d \in lineage[g] :
          parent[c] # NoGrant /\ parent[c] = parent[d] => c = d

AccountsInv == ChainOK /\ LineageAccounts

\* The children of a grant are finitely many, and each counts in natural numbers.
LEMMA ChildrenCount ==
  ASSUME GrantsInv, ChainOK, NEW g \in Grants, NEW k \in Kinds
  PROVE  /\ Children(g) \subseteq Existing /\ IsFiniteSet(Children(g))
         /\ Counts(used, k, Children(g)) /\ SumOf(used, k, Children(g)) \in Nat
         /\ used[g][k] \in Nat
  <1>1. Children(g) \subseteq Existing
    BY GrantsAssumption DEF Children, ChainOK
  <1>2. IsFiniteSet(Children(g))
    BY <1>1, FS_Subset DEF ChainOK
  <1>3. Counts(used, k, Children(g)) /\ used[g][k] \in Nat
    BY DEF Counts, Children, GrantsInv, GrantsTypeOK
  <1> QED
    BY <1>1, <1>2, <1>3, SumFirst

\* The accounts, in terms of SumOf.
LEMMA AccountsAsSum ==
  LineageAccounts <=> \A g \in Grants, k \in Kinds : used[g][k] >= SumOf(used, k, Children(g))
  BY DEF LineageAccounts, SumOf, MapThenSumSet, MapThenFoldSet

\* The same in the next state.
LEMMA NextAccountsAsSum ==
  LineageAccounts' <=>
      \A g \in Grants, k \in Kinds : used'[g][k] >= SumOf(used', k, Children(g)')
  BY DEF LineageAccounts, SumOf, MapThenSumSet, MapThenFoldSet

\* Only the root exists, without a parent and uncharged.
LEMMA AccountsInit == GrantsInit => AccountsInv
  <1> SUFFICES ASSUME GrantsInit PROVE AccountsInv
    OBVIOUS
  <1> USE GrantsAssumption
  <1>1. Existing = {Root}
    BY DEF GrantsInit, Existing
  <1>2. ChainOK
    <2>1. IsFiniteSet({Root})
      BY FS_Singleton
    <2> QED
      BY <1>1, <2>1 DEF GrantsInit, ChainOK
  <1>3. ASSUME NEW g \in Grants, NEW k \in Kinds
        PROVE  used[g][k] >= SumOf(used, k, Children(g))
    <2>1. Children(g) = {}
      BY DEF GrantsInit, Children
    <2>2. GrantsInv
      BY GrantsInvInit
    <2>3. SumOf(used, k, {}) = 0
      BY <1>2, <2>1, <2>2, ChildrenCount, SumFirst
    <2>4. used[g][k] = 0
      BY DEF GrantsInit, Unused
    <2> QED
      BY <2>1, <2>3, <2>4
  <1> QED
    BY <1>2, <1>3, AccountsAsSum DEF AccountsInv

\* A step that creates no grant and charges none.
LEMMA AccountsSame ==
  ASSUME AccountsInv, UNCHANGED <<parent, lineage, used>>,
         \A g \in Grants : status[g] = "absent" <=> status'[g] = "absent"
  PROVE  AccountsInv'
  <1>1. Existing' = Existing
    BY DEF Existing
  <1>2. ChainOK'
    BY <1>1 DEF AccountsInv, ChainOK
  <1>3. LineageAccounts'
    <2>1. \A g \in Grants : Children(g)' = Children(g)
      BY DEF Children
    <2> QED
      BY <2>1, AccountsAsSum, NextAccountsAsSum DEF AccountsInv
  <1> QED
    BY <1>2, <1>3 DEF AccountsInv

\* A new child has been charged nothing, and starts a longer chain.
LEMMA AccountsCreateChild ==
  ASSUME GrantsInv, AccountsInv, NEW i \in Issuers, NEW g \in Grants, CreateChild(i, g)
  PROVE  AccountsInv'
  <1> USE GrantsAssumption
  <1> DEFINE p == issue[i].from
  <1>1. PICK s : Record(g, p, s, issue[i].wants)
    BY DEF CreateChild
  <1>2. /\ status[g] = "absent" /\ used' = used /\ p \in Grants /\ status[p] = "active" /\ p # g
        /\ \A h \in Grants : status'[h] = IF h = g THEN "active" ELSE status[h]
        /\ \A h \in Grants : lineage'[h] = IF h = g THEN {g} \cup lineage[p] ELSE lineage[h]
        /\ \A h \in Grants : parent'[h] = IF h = g THEN p ELSE parent[h]
    BY <1>1 DEF CreateChild, Record, GrantsInv, GrantsTypeOK, RequestsOK, task_grant_runtime_denial
  <1> HIDE DEF p
  <1>3. Existing' = Existing \cup {g} /\ g \notin Existing /\ p \in Existing
    BY <1>2 DEF Existing
  <1>4. /\ \A h \in Grants : g \notin lineage[h] /\ lineage[h] \subseteq Grants
        /\ p \in lineage[p] /\ \A k \in Kinds : used[g][k] = 0
    BY <1>2 DEF GrantsInv, GrantsTypeOK, LineageOK, Unused
  <1>5. \A h \in Grants : parent[h] # g
    BY <1>3 DEF AccountsInv, ChainOK
  <1>6. ChainOK'
    <2>1. IsFiniteSet(Existing')
      BY <1>3, FS_AddElement DEF AccountsInv, ChainOK
    <2>2. \A c \in Grants : parent'[c] # NoGrant => c \in Existing' /\ parent'[c] \in Existing'
      BY <1>2, <1>3 DEF AccountsInv, ChainOK
    <2>3. ASSUME NEW h \in Grants, NEW c \in lineage'[h], parent'[c] # NoGrant
          PROVE  parent'[c] \in lineage'[h] /\ parent'[c] # h
      <3>1. CASE h # g
        BY <1>2, <1>4, <2>3, <3>1 DEF AccountsInv, ChainOK
      <3>2. CASE h = g /\ c = g
        BY <1>2, <1>4, <3>2
      <3>3. CASE h = g /\ c # g
        <4>1. c \in lineage[p] /\ c \in Grants /\ parent'[c] = parent[c]
          BY <1>2, <1>4, <3>3
        <4> QED
          BY <1>2, <1>5, <2>3, <3>3, <4>1 DEF AccountsInv, ChainOK
      <3> QED
        BY <3>1, <3>2, <3>3
    <2>4. ASSUME NEW h \in Grants, NEW c \in lineage'[h], NEW d \in lineage'[h],
                 parent'[c] # NoGrant, parent'[c] = parent'[d]
          PROVE  c = d
      <3>1. CASE h # g
        <4>1. /\ c \in lineage[h] /\ d \in lineage[h]
              /\ parent'[c] = parent[c] /\ parent'[d] = parent[d]
          BY <1>2, <1>4, <3>1
        <4> QED
          BY <2>4, <4>1 DEF AccountsInv, ChainOK
      <3>2. CASE h = g
        <4>1. \A e \in lineage[p] : e \in Grants /\ e # g /\ parent'[e] = parent[e]
          BY <1>2, <1>4
        <4>2. \A e \in lineage[p] : parent[e] # p
          BY <1>2 DEF AccountsInv, ChainOK
        <4>3. parent'[g] = p /\ lineage'[h] = {g} \cup lineage[p]
          BY <1>2, <3>2
        <4>4. \A e, f \in lineage[p] : parent[e] # NoGrant /\ parent[e] = parent[f] => e = f
          BY <1>2 DEF AccountsInv, ChainOK
        <4> QED
          BY <2>4, <4>1, <4>2, <4>3, <4>4
      <3> QED
        BY <3>1, <3>2
    <2> QED
      BY <2>1, <2>2, <2>3, <2>4 DEF ChainOK
  <1>7. ASSUME NEW h \in Grants, NEW k \in Kinds
        PROVE  used'[h][k] >= SumOf(used', k, Children(h)')
    <2>1. used[h][k] >= SumOf(used, k, Children(h))
      BY AccountsAsSum DEF AccountsInv
    <2>2. /\ Children(h) \subseteq Existing /\ IsFiniteSet(Children(h))
          /\ Counts(used, k, Children(h)) /\ SumOf(used, k, Children(h)) \in Nat
      BY ChildrenCount DEF AccountsInv
    <2>3. CASE h # p
      <3>1. Children(h)' = Children(h)
        BY <1>2, <1>3, <2>2, <2>3 DEF Children
      <3> QED
        BY <1>2, <2>1, <3>1
    <2>4. CASE h = p
      <3>1. Children(h)' = Children(h) \cup {g} /\ g \notin Children(h)
        BY <1>2, <1>3, <2>2, <2>4 DEF Children
      <3>2. Counts(used, k, Children(h) \cup {g})
        BY <1>4, <2>2 DEF Counts
      <3>3. SumOf(used, k, Children(h) \cup {g}) = used[g][k] + SumOf(used, k, Children(h))
        BY <2>2, <3>1, <3>2, SumAdd
      <3>4. SumOf(used, k, Children(h) \cup {g}) = SumOf(used, k, Children(h))
        BY <1>4, <2>2, <3>3
      <3> QED
        BY <1>2, <2>1, <3>1, <3>4
    <2> QED
      BY <2>3, <2>4
  <1> QED
    BY <1>6, <1>7, NextAccountsAsSum DEF AccountsInv

\* A charge goes to every grant of a lineage.  The lineage has at most one child
\* of a grant, and with it the grant: both are charged once.
LEMMA AccountsCharge ==
  ASSUME GrantsInv, AccountsInv, NEW g \in Grants, NEW k \in Kinds, Charge(g, k),
         UNCHANGED <<status, parent, lineage>>
  PROVE  AccountsInv'
  <1> USE GrantsAssumption
  <1>1. \A h \in Grants : used[h] \in [Kinds -> Nat]
    BY DEF GrantsInv, GrantsTypeOK
  <1>2. \A h \in Grants, j \in Kinds :
            used'[h][j] = IF h \in lineage[g] /\ j = k THEN used[h][j] + 1 ELSE used[h][j]
    BY <1>1 DEF Charge
  <1>3. ChainOK'
    BY DEF AccountsInv, ChainOK, Existing
  <1>4. ASSUME NEW h \in Grants, NEW j \in Kinds
        PROVE  used'[h][j] >= SumOf(used', j, Children(h)')
    <2>1. used[h][j] >= SumOf(used, j, Children(h))
      BY AccountsAsSum DEF AccountsInv
    <2>2. /\ IsFiniteSet(Children(h)) /\ Counts(used, j, Children(h))
          /\ SumOf(used, j, Children(h)) \in Nat /\ used[h][j] \in Nat
      BY ChildrenCount DEF AccountsInv
    <2>3. Children(h)' = Children(h) /\ Children(h) \subseteq Grants
      BY DEF Children
    <2>4. CASE j = k /\ \E c \in Children(h) : c \in lineage[g]
      <3>1. PICK c \in Children(h) : c \in lineage[g]
        BY <2>4
      <3>2. c \in Grants /\ parent[c] = h /\ h # NoGrant
        BY DEF Children
      <3>3. h \in lineage[g]
        BY <3>1, <3>2 DEF AccountsInv, ChainOK
      <3>4. \A d \in Children(h) \ {c} : d \notin lineage[g]
        BY <3>1, <3>2 DEF AccountsInv, ChainOK, Children
      <3>5. used'[c][j] = used[c][j] + 1 /\ \A d \in Children(h) \ {c} : used'[d][j] = used[d][j]
        BY <1>2, <2>3, <2>4, <3>1, <3>2, <3>4
      <3>6. SumOf(used', j, Children(h)) = SumOf(used, j, Children(h)) + 1
        BY <2>2, <3>1, <3>5, SumCharge
      <3>7. used'[h][j] = used[h][j] + 1
        BY <1>2, <2>4, <3>3
      <3> QED
        BY <2>1, <2>2, <2>3, <3>6, <3>7
    <2>5. CASE ~(j = k /\ \E c \in Children(h) : c \in lineage[g])
      <3>1. \A c \in Children(h) : used'[c][j] = used[c][j]
        BY <1>2, <2>3, <2>5
      <3>2. SumOf(used', j, Children(h)) = SumOf(used, j, Children(h))
        BY <2>2, <3>1, SumSame
      <3>3. used'[h][j] = used[h][j] \/ used'[h][j] = used[h][j] + 1
        BY <1>2
      <3> QED
        BY <2>1, <2>2, <2>3, <3>2, <3>3
    <2> QED
      BY <2>4, <2>5
  <1> QED
    BY <1>3, <1>4, NextAccountsAsSum DEF AccountsInv

\* Every step keeps the accounts.
LEMMA AccountsNext == GrantsInv /\ AccountsInv /\ [GrantsNext]_vars => AccountsInv'
  <1> SUFFICES ASSUME GrantsInv, AccountsInv, [GrantsNext]_vars PROVE AccountsInv'
    OBVIOUS
  <1>1. ASSUME NEW i \in Issuers, NEW g \in Grants, CreateChild(i, g)
        PROVE  AccountsInv'
    BY <1>1, AccountsCreateChild
  <1>2. ASSUME NEW l \in Loops, ReserveTurn(l)
        PROVE  AccountsInv'
    <2>1. turn[l].grant \in Grants /\ "turn" \in Kinds
      BY <1>2 DEF ReserveTurn, GrantsInv, RequestsOK, Kinds
    <2> QED
      BY <1>2, <2>1, AccountsCharge DEF ReserveTurn, Reserve
  <1>3. ASSUME NEW g \in Grants, CommitCall(g)
        PROVE  AccountsInv'
    <2>1. "call" \in Kinds
      BY DEF Kinds
    <2> QED
      BY <1>3, <2>1, AccountsCharge DEF CommitCall, Reserve
  <1>4. ASSUME NEW l \in Loops,
               (\E x \in Sessions : CheckTurn(l, x)) \/ FinishTurn(l) \/ DropTurn(l)
        PROVE  AccountsInv'
    BY <1>4, AccountsSame DEF CheckTurn, FinishTurn, DropTurn, grantVars
  <1>5. ASSUME NEW i \in Issuers, NEW g \in Grants,
               ReadParentForStep(i, g) \/ ReadParentForRequest(i, g)
        PROVE  AccountsInv'
    BY <1>5, AccountsSame DEF ReadParentForStep, ReadParentForRequest, grantVars
  <1>6. ASSUME \/ \E e \in StepEndings, s \in Steps : EndStep(s, e)
               \/ \E c \in Enders : (\E e \in RunEndings : EndRun(c, e)) \/ ListActive(c)
               \/ ReopenRun
               \/ UNCHANGED vars
        PROVE  AccountsInv'
    BY <1>6, AccountsSame DEF EndStep, EndRun, ReopenRun, ListActive, vars, grantVars
  <1>7. ASSUME \/ \E i \in Issuers : RefuseChild(i)
               \/ \E g \in Grants : Expire(g) \/ FinalizeStep(g)
               \/ \E c \in Enders : CloseNext(c)
        PROVE  AccountsInv'
    <2>1. UNCHANGED <<parent, lineage, used>>
      BY <1>7 DEF RefuseChild, Expire, FinalizeStep, CloseNext
    <2>2. \A g \in Grants : status[g] = "absent" <=> status'[g] = "absent"
      BY <1>7, AbsenceKept
    <2> QED
      BY <2>1, <2>2, AccountsSame
  <1> QED
    BY <1>1, <1>2, <1>3, <1>4, <1>5, <1>6, <1>7 DEF GrantsNext

\* What a grant has been charged covers all that its children have been charged
\* together, for any number of grants and however deep they are delegated:
\* reserve_task_grant_usage charges a whole lineage at once.
THEOREM LineagesAccount == GrantsSpec => []LineageAccounts
  <1>1. AccountsInv => LineageAccounts
    BY DEF AccountsInv
  <1> QED
    BY <1>1, AccountsInit, AccountsNext, GrantsInvariant, PTL DEF GrantsSpec
=============================================================================
