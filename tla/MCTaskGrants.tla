----------------------------- MODULE MCTaskGrants -----------------------------
(***************************************************************************)
(* Instance of TaskGrants: a root grant and two delegated ones in two      *)
(* sessions, two turns under way and two requests that end the run.  Under *)
(* a root without a cost budget both grants may be delegated, as siblings  *)
(* or one from the other; under a root with one only the first, and there  *)
(* are three turns to spend.                                               *)
(***************************************************************************)
EXTENDS TaskGrants, TLC

CONSTANTS g0, g1, g2, x0, x1

MCSessionOf == [g \in Grants |-> IF g = g0 THEN x0 ELSE x1]

Symmetry == Permutations({g1, g2}) \cup Permutations(Loops) \cup Permutations(Enders)

MCRootLimits == {[turn |-> 1, call |-> 1, cost |-> NoLimit],
                 [turn |-> 3, call |-> 1, cost |-> 1]}

MCOffers == {[turn |-> NoLimit, call |-> 1, cost |-> NoLimit],
             [turn |-> 1, call |-> 1, cost |-> 1]}

Ending == \E c \in Enders : closing[c].at # "idle"

TurnsIdle == \A l \in Loops : turn[l].at = "idle"

\* Bound: under a cost budget one grant is delegated, no call is made and the
\* run does not end.
CostInOneRun ==
    limit[g0].cost # NoLimit =>
        /\ ~Ending /\ used[g0]["call"] = 0
        /\ status[g1] = "absent" \/ status[g2] = "absent"

\* Bound: a run that ends has charged nothing and has no turn under way: turns, calls
\* and ends share nothing but the status of the grants.
TurnsBeforeEnd ==
    Ending => used[g0] = Unused /\ TurnsIdle
=============================================================================
