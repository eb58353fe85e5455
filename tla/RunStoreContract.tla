-------------------------- MODULE RunStoreContract --------------------------
(***************************************************************************)
(* What the coordinators of all replicas can count on from a RunStateStore.*)
(* A call takes effect at one instant between its start and its answer, or *)
(* it has no effect: it is refused, which a store may do to an update only *)
(* when the run is gone or when another call took effect on it in the      *)
(* meantime, or it fails.                                                  *)
(*                                                                         *)
(* The record an update merges its patch into, and a claim must find       *)
(* claimable, is the current one when the store compares what it read with *)
(* what it replaces.  A store that does not compare may use any record the *)
(* run had since the call started, and so takes back what other calls did  *)
(* in between; but never one that is older, and never for a run that is    *)
(* gone.                                                                   *)
(***************************************************************************)
EXTENDS StoredRun

CONSTANTS
    Callers,
    Runs,
    Compares   \* a write compares the record it read with the one it replaces

VARIABLES
    record,    \* [Runs -> Record], the current records
    version,   \* how many calls took effect on each run
    call,      \* the last call of each caller, and its answer
    seen,      \* the records the run of a write had since the write started
    now        \* the clock

vars == <<record, version, call, seen, now>>

Call == [op : Ops, run : Runs, by : Operators \cup {NoOne},
         at     : Nat,    \* the clock when the call started
         since  : Nat,    \* the version of the run when the call started
         answer : {"pending", "done", "refused", "error"}]

Pending(c) == call[c].answer = "pending"

Writing(c) == Pending(c) /\ call[c].op \in Updates \cup Claims

Watch == seen' = [c \in Callers |-> IF Writing(c)' THEN seen[c] \cup {record'[call'[c].run]}
                                                  ELSE {}]

Init ==
    /\ record = [r \in Runs |-> Absent]
    /\ version = [r \in Runs |-> 0]
    /\ call \in [Callers -> [op : {"get"}, run : Runs, by : {NoOne}, at : {0},
                             since : {0}, answer : {"error"}]]
    /\ seen = [c \in Callers |-> {}]
    /\ now = 0

\* A run id is allocated by one call of create.
Invoke(c) ==
    /\ ~Pending(c)
    /\ \E op \in Ops, r \in Runs, by \in Operators :
          /\ op = "create" => /\ version[r] = 0
                              /\ \A d \in Callers : ~(/\ Pending(d) /\ call[d].run = r
                                                       /\ call[d].op = "create")
          /\ call' = [call EXCEPT ![c] = [op |-> op, run |-> r, by |-> by, at |-> now,
                                          since |-> version[r], answer |-> "pending"]]
    /\ UNCHANGED <<record, version, now>>

\* The record after the call of c takes effect on rec.
Result(c, rec) ==
    CASE call[c].op = "create"  -> Fresh(call[c].at)
      [] call[c].op \in Updates -> Patched(call[c].op, call[c].by, rec)
      [] call[c].op = "claim"   -> ClaimedAt(rec, call[c].at)

\* The records the call of c may take effect on.
Bases(c) ==
    LET r == call[c].run IN
    IF Writing(c) THEN {rec \in IF Compares THEN {record[r]} ELSE seen[c] :
                          /\ Exists(record[r]) /\ Exists(rec)
                          /\ call[c].op = "claim" => Claimable(rec, call[c].at)}
                  ELSE {record[r]}

\* Even when the effect takes place, its answer may be lost on the way.
Effect(c) ==
    LET r == call[c].run IN
    /\ Pending(c) /\ call[c].op \notin Reads
    /\ \E rec \in Bases(c) : record' = [record EXCEPT ![r] = Result(c, rec)]
    /\ version' = [version EXCEPT ![r] = @ + 1]
    /\ \E a \in {"done", "error"} : call' = [call EXCEPT ![c].answer = a]
    /\ UNCHANGED now

MayRefuse(c) ==
    LET r == call[c].run IN
    \/ ~Exists(record[r])
    \/ version[r] # call[c].since
    \/ call[c].op = "claim" /\ ~Claimable(record[r], call[c].at)

NoEffect(c) ==
    /\ Pending(c)
    /\ \E a \in {"done", "refused"} :
          /\ a = "done"    => call[c].op \in Reads
          /\ a = "refused" => call[c].op \in Reads \/ MayRefuse(c)
          /\ call' = [call EXCEPT ![c].answer = a]
    /\ UNCHANGED <<record, version, now>>

\* Calls may fail together, when they wait for the same thing.
Fail(failed) ==
    /\ \A c \in failed : Pending(c)
    /\ call' = [c \in Callers |-> IF c \in failed THEN [call[c] EXCEPT !.answer = "error"]
                                                  ELSE call[c]]
    /\ UNCHANGED <<record, version, now>>

\* A record whose time to live is over is removed by a reader that finds it.
Remove(r) ==
    /\ Expired(record[r], now)
    /\ \E c \in Callers : Pending(c) /\ call[c].op \in {"get", "sweepExpired"}
    /\ record' = [record EXCEPT ![r] = Absent]
    /\ UNCHANGED <<version, call, now>>

Tick == now' = now + 1 /\ UNCHANGED <<record, version, call>>

Next ==
    /\ \/ \E c \in Callers : Invoke(c) \/ Effect(c) \/ NoEffect(c)
       \/ \E failed \in SUBSET Callers : Fail(failed)
       \/ \E r \in Runs : Remove(r)
       \/ Tick
    /\ Watch

Spec == Init /\ [][Next]_vars
=============================================================================
