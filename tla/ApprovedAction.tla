---------------------------- MODULE ApprovedAction ----------------------------
(***************************************************************************)
(* What the execution runtime promises to the code that enqueues an        *)
(* approved tool call: the action is open until an attempt commits to it,  *)
(* it happens at most once and only after a commit, a canceled action      *)
(* never happens, and the verdict tells what is known about it.  How many  *)
(* workers, leases, attempts and crashes stand behind it is not visible.   *)
(*                                                                         *)
(* ExecutionWorker implements this specification (its ActionSpec);         *)
(* Approvals is composed with it instead of with the whole runtime.        *)
(***************************************************************************)
EXTENDS Naturals

CONSTANT Jobs        \* approved tool calls

VARIABLES
    phase,           \* what the runtime knows about the action
    acted            \* how often the outside world was changed

Verdicts == {"completed", "failed", "outcome_unknown", "canceled"}
Phases   == {"none", "open", "committed"} \cup Verdicts

ActionTypeOK ==
    /\ phase \in [Jobs -> Phases]
    /\ acted \in [Jobs -> Nat]

ActionInit ==
    /\ phase = [j \in Jobs |-> "none"]
    /\ acted = [j \in Jobs |-> 0]

Move(j, from, to) ==
    /\ phase[j] \in from
    /\ phase' = [phase EXCEPT ![j] = to]
    /\ UNCHANGED acted

\* A request that keeps the status of the queue.
RequestQueued(j) == Move(j, {"none"}, "queued")

\* enqueue
Request(j) == Move(j, {"none"}, "open")

\* begin_executing_started
CommitAction(j) == Move(j, {"open"}, "committed")

\* An attempt that says it changed nothing goes back to the queue.
Retreat(j) == acted[j] = 0 /\ Move(j, {"committed"}, "open")

\* The side effect.  An attempt whose claim was taken from it may act after
\* the job was given the verdict outcome_unknown, never after another one.
Act(j) ==
    /\ phase[j] \in {"committed", "outcome_unknown"}
    /\ acted[j] = 0
    /\ acted' = [acted EXCEPT ![j] = 1]
    /\ UNCHANGED phase

\* acknowledge_canceled: only an attempt that has not committed is canceled.
CancelAction(j) == Move(j, {"open"}, "canceled")

\* Attempts are exhausted before a commit, or the failure is known.
FailAction(j) == Move(j, {"open", "committed"}, "failed")

CompleteAction(j) == acted[j] = 1 /\ Move(j, {"committed"}, "completed")

LoseTrack(j) == Move(j, {"committed"}, "outcome_unknown")

ActionNext ==
    \E j \in Jobs :
        \/ Request(j) \/ CommitAction(j) \/ Retreat(j) \/ Act(j)
        \/ CancelAction(j) \/ FailAction(j) \/ CompleteAction(j)
        \/ LoseTrack(j)

Spec == ActionInit /\ [][ActionNext]_<<phase, acted>>
=============================================================================
