---------------------------- MODULE MCSessionLoop ----------------------------
(***************************************************************************)
(* SessionLoop for TLC.  Sessions share nothing, so one is enough; runners *)
(* have names of their own, as two daemons have.                           *)
(***************************************************************************)
EXTENDS SessionLoop, TLC

OwnNames == [r \in Runners |-> r]

Symmetry == Permutations(Runners) \cup Permutations(Execs)
=============================================================================
