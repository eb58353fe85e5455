----------------------------- MODULE RunRecord -----------------------------
(***************************************************************************)
(* The persisted run record (RunState) and the predicates every run-state  *)
(* store shares.                                                           *)
(*                                                                         *)
(* Time.  leaseExpiresAt is an instant; what the code ever asks of it is   *)
(* whether it has passed, so a record carries the REMAINING lease: 0 means *)
(* "unset or lapsed", and a clock step decrements it.  expiresAt is        *)
(* abstracted further: a record past its TTL is deleted by the next read   *)
(* and skipped by every list, so an expired record is an absent one.       *)
(*                                                                         *)
(* Data.  A stage section is its position in the stage plan; an artifact   *)
(* is the number of sections compiled into it, 0 when none is stored.      *)
(***************************************************************************)
EXTENDS Naturals, Sequences

CONSTANTS
    Tenants,     \* tenant ids: the isolation key of a record
    Operators,   \* subjects of the tokens that call /admin/approve
    NoOne,       \* approvedBy of a record nobody approved
    Lease,       \* lease length, in clock steps (DEFAULT_LEASE_MS)
    Stages       \* number of stages of the advisory pipeline

ASSUME NoOneAssumption  == NoOne \notin Operators
ASSUME LeaseAssumption  == Lease \in Nat \ {0}
ASSUME StagesAssumption == Stages \in Nat \ {0}

RunStatus == {"running", "held", "complete", "failed"}
Terminal  == {"complete", "failed"}

\* squad_run and squad_federate are started by startHttpRun and driven through
\* the staged pipeline; every other tool answers within its own call.
ToolKind == {"pipeline", "single"}

\* "absent" is the answer undefined of the store's get.
RunState ==
    [status     : RunStatus \cup {"absent"},
     tenantId   : Tenants,
     tool       : ToolKind,
     approvedBy : Operators \cup {NoOne},
     lease      : 0..Lease,
     stages     : Seq(1..Stages),
     artifact   : 0..Stages]

\* What create stores: a running record that nobody has leased.
Fresh(tenant, tool) ==
    [status |-> "running", tenantId |-> tenant, tool |-> tool,
     approvedBy |-> NoOne, lease |-> 0, stages |-> <<>>, artifact |-> 0]

Exists(rec)        == rec.status # "absent"
IsRunApproved(rec) == rec.approvedBy # NoOne

\* Mutants: a worker that never takes over a dead drive; a claim that does not
\* compare the lease, the status, or that never takes over.
ListHeldOnly(rec)       == rec.status = "held" /\ IsRunApproved(rec)
ClaimIgnoringLease(rec) == rec.status \in {"held", "running"}
ClaimAnyStatus(rec)     == Exists(rec) /\ rec.lease = 0
ClaimHeldOnly(rec)      == rec.status = "held"

\* What listClaimable reports to a worker.
IsRunClaimable(rec) ==
    \/ rec.status = "held" /\ IsRunApproved(rec)
    \/ rec.status = "running" /\ rec.lease = 0

\* claim(runId, ["held", "running"], "running"): when it succeeds ...
CanClaim(rec) ==
    \/ rec.status = "held"
    \/ rec.status = "running" /\ rec.lease = 0

\* ... and what it stores.
Claimed(rec) == [rec EXCEPT !.status = "running", !.lease = Lease]

\* One clock step, seen by the lease of a record or of a claim.
Elapse(n) == IF n = 0 THEN 0 ELSE n - 1
=============================================================================
