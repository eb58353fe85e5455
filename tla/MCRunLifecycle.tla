--------------------------- MODULE MCRunLifecycle ---------------------------
(* Instances of RunLifecycle for TLC. *)
EXTENDS RunLifecycle, TLC

CONSTANTS w1, w2, replica1, replica2, run1, run2

\* What clients ask for.
HeldPipeline   == {[tool |-> "pipeline", hold |-> TRUE]}
HeldAndSingle  == HeldPipeline \cup {[tool |-> "single", hold |-> FALSE]}
AnyHeld        == [tool : ToolKind, hold : {TRUE}]

\* One handler on each of two replicas, or a single one.
TwoReplicas == (w1 :> replica1) @@ (w2 :> replica2)
Alone       == [w \in {w1} |-> replica1]

\* The run ids, and the two replicas each with its handler, are alike.
SwapReplicas == (w1 :> w2) @@ (w2 :> w1) @@ (replica1 :> replica2) @@ (replica2 :> replica1)
Symmetry     == Permutations({run1, run2}) \cup {SwapReplicas}

\* The state without contested, which no action reads: enough for a run whose
\* properties do not speak of contested runs.
WithoutContested ==
    <<store, issued, job, batch, active, heldCounts, env, raced, leaked>>
=============================================================================
