--------------------------- MODULE MCSquadMemory ---------------------------
(* An instance of SquadMemory for TLC: two runs and a caller whose batch   *)
(* names an entry twice.                                                   *)
EXTENDS SquadMemory

MCItems == [c \in {"c1"} |-> <<"state", "decisions", "state">>]
Established == Header \o <<"old1", "old2", "old3">>
FreshOrEstablished == {<<>>, Established}
=============================================================================
