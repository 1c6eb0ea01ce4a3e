-------------------------- MODULE MCExecutionWorker --------------------------
(***************************************************************************)
(* ExecutionWorker for TLC.  One job is enough, since jobs share nothing   *)
(* but the runners.  Runners with the same worker name are the restarted   *)
(* daemon that only the generation tells apart, and are interchangeable;   *)
(* with names of their own they are two daemons, or a daemon and the       *)
(* cancel route.                                                           *)
(***************************************************************************)
EXTENDS ExecutionWorker, TLC

CONSTANTS r1, r2, w1, w2

SameName == [r \in Runners |-> w1]
OwnNames == (r1 :> w1) @@ (r2 :> w2)

Symmetry == Permutations(Runners)
=============================================================================
