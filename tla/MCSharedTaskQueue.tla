-------------------------- MODULE MCSharedTaskQueue --------------------------
(* A directory, a file below it and a directory beside it.                 *)
EXTENDS SharedTaskQueue

CONSTANTS inner, outer, beside

Paths == (outer :> {<<"src">>}) @@ (inner :> {<<"src", "file">>}) @@ (beside :> {<<"test">>})
TheScope == [t \in Tasks |-> Paths[t]]
Anybody  == [t \in Tasks |-> Agents]
Symmetry == Permutations(Agents)
==============================================================================
