------------------------ MODULE MCAzureTableRunStore ------------------------
(* Instances of AzureTableRunStore for TLC. *)
EXTENDS AzureTableRunStore, TLC

CONSTANTS c1, c2, c3, replica1, replica2, run1, run2

\* Two callers on one replica, and a third on another.
ThreeCallers == (c1 :> replica1) @@ (c2 :> replica1) @@ (c3 :> replica2)

Symmetry == Permutations({run1, run2}) \cup Permutations({c1, c2})
=============================================================================
