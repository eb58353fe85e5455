----------------------------- MODULE StoredRun -----------------------------
(***************************************************************************)
(* A run record as a store sees it, and what the operations of the store   *)
(* make of it.  Unlike RunRecord this one keeps leaseExpiresAt as an       *)
(* instant: a claim over the network decides with the clock it read before *)
(* its first request.                                                      *)
(***************************************************************************)
EXTENDS Naturals

CONSTANTS
    Operators,   \* subjects that approve
    NoOne,       \* approvedBy of a record nobody approved
    Lease,       \* lease length, in clock steps
    Ttl          \* time to live of a record, in clock steps

Record == [status : {"absent", "running", "held", "complete", "failed"},
           approvedBy : Operators \cup {NoOne},
           leaseExpiresAt : Nat,
           expiresAt : Nat]

Absent == [status |-> "absent", approvedBy |-> NoOne, leaseExpiresAt |-> 0, expiresAt |-> 0]

\* What create stores when its clock says "at".
Fresh(at) == [status |-> "running", approvedBy |-> NoOne, leaseExpiresAt |-> 0,
              expiresAt |-> at + Ttl]

Exists(rec)   == rec.status # "absent"
Approved(rec) == rec.approvedBy # NoOne
Expired(rec, at) == Exists(rec) /\ rec.expiresAt <= at

Creations == {"create"}
Updates   == {"hold", "approve", "complete", "fail"}
Claims    == {"claim"}
Reads     == {"get", "listClaimable", "sweepExpired"}
Ops       == Creations \cup Updates \cup Claims \cup Reads

\* The patches the coordinator and the approval channel merge.
Patched(op, by, rec) ==
    CASE op = "hold"     -> [rec EXCEPT !.status = "held"]
      [] op = "approve"  -> [rec EXCEPT !.approvedBy = by]
      [] op = "complete" -> [rec EXCEPT !.status = "complete"]
      [] op = "fail"     -> [rec EXCEPT !.status = "failed"]

\* claim(runId, ["held", "running"], "running") of a caller whose clock said
\* "at", and what it stores.
Claimable(rec, at) ==
    /\ ~Expired(rec, at)
    /\ \/ rec.status = "held"
       \/ rec.status = "running" /\ rec.leaseExpiresAt <= at

\* Mutant: what the claim stores has lost the approval it consumed.
ClaimedAfresh(rec, at) ==
    [rec EXCEPT !.status = "running", !.leaseExpiresAt = at + Lease, !.approvedBy = NoOne]

ClaimedAt(rec, at) == [rec EXCEPT !.status = "running", !.leaseExpiresAt = at + Lease]
=============================================================================
