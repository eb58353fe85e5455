-------------------------- MODULE MCSquadTracking --------------------------
(* An instance of SquadTracking for TLC: two runs whose agents meet, one of *)
(* them with two roles that share a root, as analyst and product-owner do.  *)
EXTENDS SquadTracking

SameOrApart == {[r \in {"r1", "r2"} |-> "p1"],
                [r \in {"r1", "r2"} |-> IF r = "r1" THEN "p1" ELSE "p2"]}
MCRoles == {"council", "analyst", "presenter"}
MCRootOf == [role \in {"analyst", "presenter"} |-> "plans"]
MCAsked == [r \in {"r1", "r2"} |-> IF r = "r1" THEN "default" ELSE "product"]
MCStages == [r \in {"r1", "r2"} |-> IF r = "r1" THEN <<"analyst">>
                                    ELSE <<"council", "analyst", "presenter">>]
=============================================================================
