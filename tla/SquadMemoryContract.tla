------------------------- MODULE SquadMemoryContract -------------------------
(***************************************************************************)
(* What a squad-memory store promises, whatever holds its entries: an      *)
(* entry that exists can be read, and it changes only as a whole and under *)
(* a new ETag, one entry at a time.                                        *)
(***************************************************************************)
EXTENDS Naturals, Sequences

CONSTANTS Paths, Lines

VARIABLE entry      \* [Paths -> [etag, content]]; etag 0 for an absent entry

Init == \A p \in Paths :
            /\ entry[p].etag \in {0, 1} /\ entry[p].content \in Seq(Lines)
            /\ entry[p].etag = 0 => entry[p].content = <<>>

Write(p) ==
    /\ entry'[p].content \in Seq(Lines)
    /\ entry' = [entry EXCEPT ![p] = [etag |-> @.etag + 1, content |-> entry'[p].content]]

Next == \E p \in Paths : Write(p)

Spec == Init /\ [][Next]_entry
=============================================================================
