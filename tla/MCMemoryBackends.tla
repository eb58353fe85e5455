-------------------------- MODULE MCMemoryBackends --------------------------
(* An instance of MemoryBackends for TLC: a default destination of any kind *)
(* and another one that is a directory.                                     *)
EXTENDS MemoryBackends

MCKindsOf == [t \in {"main", "other"} |->
                 IF t = "main" THEN {"file", "table", "graph"} ELSE {"file"}]
MCNames == <<"decisions", "history/a", "state">>
MCFolderOf == [p \in {"decisions", "history/a", "state"} |->
                 IF p = "history/a" THEN "history" ELSE ""]
CONSTANTS c1, c2
Symmetric == Permutations({c1, c2})
=============================================================================
