--------------------------- MODULE MCWorkflowGraph ---------------------------
(***************************************************************************)
(* Step graphs for WorkflowGraph.                                          *)
(***************************************************************************)
EXTENDS WorkflowGraph, TLC

CONSTANTS a, b, c, d, w1, w2

Plain(graph) ==
    [graph |-> graph, starts |-> {graph[1]}, deps |-> [k \in Keys |-> {}],
     min |-> [k \in Keys |-> 0], sources |-> [k \in Keys |-> {}],
     attempts |-> [k \in Keys |-> 1], delayed |-> {}, conditional |-> {},
     isolated |-> {}, cap |-> 0]

\* A capped fan-out with a branch, joined by all.
Diamond == [Plain(<<a, b, c, d>>) EXCEPT
    !.deps = (a :> {} @@ b :> {a} @@ c :> {a} @@ d :> {b, c}),
    !.min = (a :> 0 @@ b :> 1 @@ c :> 1 @@ d :> 2),
    !.conditional = {c}, !.cap = 2]

\* A join of any, of a step and the one before it: both become ready at once.
AnyOf == [Plain(<<a, b, c>>) EXCEPT
    !.deps = (a :> {} @@ b :> {a} @@ c :> {a, b} @@ d :> {}),
    !.min = (a :> 0 @@ b :> 1 @@ c :> 1 @@ d :> 0), !.cap = 1]

\* A step with a delayed retry, one that depends on it and one that compensates it.
Repair == [Plain(<<a, b, c, d>>) EXCEPT
    !.deps = (a :> {} @@ b :> {a} @@ c :> {b} @@ d :> {}),
    !.min = (a :> 0 @@ b :> 1 @@ c :> 1 @@ d :> 0),
    !.sources = (a :> {} @@ b :> {} @@ c :> {} @@ d :> {b}),
    !.attempts = (a :> 1 @@ b :> 2 @@ c :> 1 @@ d :> 1), !.delayed = {b}]

\* One step after another.
Pair == [Plain(<<a, b>>) EXCEPT
    !.deps = (a :> {} @@ b :> {a} @@ c :> {} @@ d :> {}),
    !.min = (a :> 0 @@ b :> 1 @@ c :> 0 @@ d :> 0), !.cap = 1]

SharedDefinitions == {Diamond, AnyOf, Repair, Pair}

\* Bound: a worker that outlasts its lease advances beside another one, and two
\* steps are enough for them to get into each other's way; no worker dies besides.
StallsInPairs == ~Punctual => def = Pair /\ crashes = 0

\* Two steps in sessions of their own, one with a retry, and a step that joins
\* them.
ParallelDefinitions == {[Plain(<<a, b, c>>) EXCEPT
    !.starts = {a, b}, !.deps = (a :> {} @@ b :> {} @@ c :> {a, b} @@ d :> {}),
    !.min = (a :> 0 @@ b :> 0 @@ c :> 2 @@ d :> 0), !.isolated = {a, b},
    !.attempts = (a :> 2 @@ b :> 1 @@ c :> 1 @@ d :> 1)]}
=============================================================================
