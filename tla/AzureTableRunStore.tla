------------------------- MODULE AzureTableRunStore -------------------------
(***************************************************************************)
(* AzureTableRunStateStore: the run-state store over the REST interface of *)
(* a table service.  Every operation is a few requests; what other callers *)
(* do between them is caught by the ETag of the entity, when the answer of *)
(* the query carries one.  The requests ask for odata=nometadata, so it    *)
(* carries none and the PUT says If-Match "*": the instances set           *)
(* EtagVisible to FALSE, and TRUE is what one header would buy.            *)
(***************************************************************************)
EXTENDS StoredRun

CONSTANTS
    Callers,     \* operations in progress, on all replicas
    Replicas,    \* processes, each with one store object
    ReplicaOf,   \* the process of each caller
    Runs,        \* run ids
    EtagVisible, \* the service puts odata.etag into the answer of a query
    MaxCalls,    \* bound: operations started
    MaxTime,     \* bound: clock steps
    MaxFaults    \* bound: requests that fail

ASSUME NoOneAssumption    == NoOne \notin Operators
ASSUME TimesAssumption    == Lease \in Nat \ {0} /\ Ttl \in Nat
ASSUME ReplicasAssumption == ReplicaOf \in [Callers -> Replicas]
ASSUME SwitchAssumption   == EtagVisible \in BOOLEAN
ASSUME BoundAssumption    == {MaxCalls, MaxTime, MaxFaults} \subseteq Nat

VARIABLES
    table,       \* the entities of the table service
    tableExists, \* the table was created
    ensured,     \* tableEnsured of each store object
    call,        \* operation, arguments and answer of each caller
    step,        \* where it is between its requests, and its local variables
    seen,        \* history: the records a run had since a write to it started
    now,         \* the clock
    calls,       \* operations started so far
    faults       \* requests that failed so far

vars == <<table, tableExists, ensured, call, step, seen, now, calls, faults>>

Entity == [rec : Record, etag : Nat]

Step == [pc   : {"ensure", "insert", "query", "put", "delete", "done"},
         next : Record,         \* what update or claim are about to put
         tag  : Nat,            \* the ETag of the entity they fetched
         todo : SUBSET Runs]    \* expired runs still to be deleted

AtRest == [pc |-> "done", next |-> Absent, tag |-> 0, todo |-> {}]

Records == [r \in Runs |-> table[r].rec]
Etags   == [r \in Runs |-> table[r].etag]

Contract == INSTANCE RunStoreContract
            WITH record <- Records, version <- Etags, Compares <- EtagVisible

Init ==
    /\ table = [r \in Runs |-> [rec |-> Absent, etag |-> 0]]
    /\ tableExists = FALSE
    /\ ensured = [p \in Replicas |-> "unset"]
    /\ call \in [Callers -> [op : {"get"}, run : Runs, by : {NoOne}, at : {0},
                             since : {0}, answer : {"error"}]]
    /\ step = [c \in Callers |-> AtRest]
    /\ seen = [c \in Callers |-> {}]
    /\ now = 0 /\ calls = 0 /\ faults = 0
-----------------------------------------------------------------------------
At(c, pc) == call[c].answer = "pending" /\ step[c].pc = pc

Answer(c, a) == /\ call' = [call EXCEPT ![c].answer = a]
                /\ step' = [step EXCEPT ![c] = AtRest]

Fault == faults < MaxFaults /\ faults' = faults + 1

\* An operation starts: its arguments are bound and the clock is read.  Who
\* writes to a run got its id from the store; who reads may ask for any.
Begin(c) ==
    /\ call[c].answer # "pending" /\ calls < MaxCalls
    /\ \E op \in Ops, r \in Runs, by \in Operators :
          /\ op = "create" => /\ table[r].etag = 0
                              /\ \A d \in Callers : ~(/\ call[d].answer = "pending"
                                                      /\ call[d].run = r
                                                      /\ call[d].op = "create")
          /\ op \in Updates \cup Claims => table[r].etag > 0
          /\ call' = [call EXCEPT ![c] = [op |-> op, run |-> r, by |-> by, at |-> now,
                                          since |-> table[r].etag, answer |-> "pending"]]
          /\ step' = [step EXCEPT ![c] =
                         [AtRest EXCEPT !.pc = IF op = "create" THEN "ensure" ELSE "query"]]
    /\ calls' = calls + 1
    /\ UNCHANGED <<table, tableExists, ensured, now, faults>>

\* ensureTable: the first create of a process asks for the table, the others
\* wait for the same promise.
AskForTable(c) ==
    /\ At(c, "ensure") /\ ensured[ReplicaOf[c]] = "unset"
    /\ ensured' = [ensured EXCEPT ![ReplicaOf[c]] = "asked"]
    /\ UNCHANGED <<table, tableExists, call, step, now, calls, faults>>

TableIsThere(p) ==
    /\ ensured[p] = "asked"
    /\ ensured' = [ensured EXCEPT ![p] = "ready"]
    /\ tableExists' = TRUE
    /\ UNCHANGED <<table, call, step, now, calls, faults>>

\* Mutants: the rejected promise stays; the promise is not awaited.
MemoPoisoned(p)    == ensured' = [ensured EXCEPT ![p] = "rejected"]
TableNotAwaited(p) == ensured[p] # "unset"

MemoCleared(p) == ensured' = [ensured EXCEPT ![p] = "unset"]

\* The promise is dropped, and everybody who waited for it fails with it.
TableRefused(p) ==
    LET waiting == {c \in Callers : ReplicaOf[c] = p /\ At(c, "ensure")} IN
    /\ ensured[p] = "asked" /\ Fault
    /\ MemoCleared(p)
    /\ call' = [c \in Callers |-> IF c \in waiting THEN [call[c] EXCEPT !.answer = "error"]
                                                   ELSE call[c]]
    /\ step' = [c \in Callers |-> IF c \in waiting THEN AtRest ELSE step[c]]
    /\ UNCHANGED <<table, tableExists, now, calls>>

TableKnown(p) == ensured[p] = "ready"

TableEnsured(c) ==
    /\ At(c, "ensure") /\ TableKnown(ReplicaOf[c])
    /\ step' = [step EXCEPT ![c].pc = "insert"]
    /\ UNCHANGED <<table, tableExists, ensured, call, now, calls, faults>>

\* The answer to a request that took effect arrives, or is lost.
Served(c) == \/ Answer(c, "done") /\ UNCHANGED faults
             \/ Answer(c, "error") /\ Fault

Insert(c) ==
    /\ At(c, "insert")
    /\ table' = [table EXCEPT ![call[c].run] =
                    [rec |-> Fresh(call[c].at), etag |-> @.etag + 1]]
    /\ Served(c)
    /\ UNCHANGED <<tableExists, ensured, now, calls>>
-----------------------------------------------------------------------------
\* update: fetchEntity, then the patch is merged into what was fetched.
FetchForUpdate(c) ==
    LET e == table[call[c].run] IN
    /\ At(c, "query") /\ call[c].op \in Updates
    /\ \/ /\ ~Exists(e.rec) /\ Answer(c, "refused")
       \/ /\ Exists(e.rec) /\ UNCHANGED call
          /\ step' = [step EXCEPT ![c] = [@ EXCEPT !.pc = "put", !.tag = e.etag,
                         !.next = Patched(call[c].op, call[c].by, e.rec)]]
    /\ UNCHANGED <<table, tableExists, ensured, now, calls, faults>>

\* claim: a run that is gone, expired, finished or leased is refused, all by
\* the clock read before the query.  Its mutant does not look at the lease.
MayClaimLeased(c) ==
    LET rec == table[call[c].run].rec IN
    rec.status \in {"held", "running"} /\ ~Expired(rec, call[c].at)

MayClaim(c) == Claimable(table[call[c].run].rec, call[c].at)

FetchForClaim(c) ==
    LET e == table[call[c].run] IN
    /\ At(c, "query") /\ call[c].op = "claim"
    /\ \/ ~MayClaim(c) /\ Answer(c, "refused")
       \/ /\ MayClaim(c) /\ UNCHANGED call
          /\ step' = [step EXCEPT ![c] = [@ EXCEPT !.pc = "put", !.tag = e.etag,
                         !.next = ClaimedAt(e.rec, call[c].at)]]
    /\ UNCHANGED <<table, tableExists, ensured, now, calls, faults>>

\* If-Match of the PUT: the fetched ETag, or "*" when the query gave none.
IfMatch(c) == EtagVisible => table[call[c].run].etag = step[c].tag

\* putWithEtag: 404 throws, 412 refuses, anything else overwrites the entity.
Put(c) ==
    LET r == call[c].run IN
    /\ At(c, "put")
    /\ \/ /\ ~Exists(table[r].rec) /\ Answer(c, "error") /\ UNCHANGED <<table, faults>>
       \/ /\ Exists(table[r].rec) /\ ~IfMatch(c)
          /\ Answer(c, "refused") /\ UNCHANGED <<table, faults>>
       \/ /\ Exists(table[r].rec) /\ IfMatch(c)
          /\ table' = [table EXCEPT ![r] = [rec |-> step[c].next, etag |-> @.etag + 1]]
          /\ Served(c)
    /\ UNCHANGED <<tableExists, ensured, now, calls>>
-----------------------------------------------------------------------------
\* get: an expired run is deleted and answered as gone.
Get(c) ==
    LET rec == table[call[c].run].rec IN
    /\ At(c, "query") /\ call[c].op = "get"
    /\ \/ ~Exists(rec) /\ Answer(c, "refused")
       \/ Exists(rec) /\ ~Expired(rec, now) /\ Answer(c, "done")
       \/ /\ Expired(rec, now) /\ UNCHANGED call
          /\ step' = [step EXCEPT ![c] = [@ EXCEPT !.pc = "delete", !.todo = {call[c].run}]]
    /\ UNCHANGED <<table, tableExists, ensured, now, calls, faults>>

\* listClaimable and sweepExpired query the whole table, and throw when it
\* was never created.
List(c) ==
    /\ At(c, "query") /\ call[c].op = "listClaimable"
    /\ Answer(c, IF tableExists THEN "done" ELSE "error")
    /\ UNCHANGED <<table, tableExists, ensured, now, calls, faults>>

Sweep(c) ==
    /\ At(c, "query") /\ call[c].op = "sweepExpired"
    /\ \/ ~tableExists /\ Answer(c, "error")
       \/ /\ tableExists /\ UNCHANGED call
          /\ step' = [step EXCEPT ![c] = [@ EXCEPT !.pc = "delete",
                         !.todo = {r \in Runs : Expired(table[r].rec, call[c].at)}]]
    /\ UNCHANGED <<table, tableExists, ensured, now, calls, faults>>

\* delete: its query only finds the partition; the DELETE says If-Match "*",
\* and nobody looks at its status.
Delete(c) ==
    /\ At(c, "delete")
    /\ \E r \in step[c].todo :
          /\ step' = [step EXCEPT ![c].todo = @ \ {r}]
          /\ \/ table' = [table EXCEPT ![r].rec = Absent] /\ UNCHANGED faults
             \/ Fault /\ UNCHANGED table
    /\ UNCHANGED <<tableExists, ensured, call, now, calls>>

Deleted(c) ==
    /\ At(c, "delete") /\ step[c].todo = {}
    /\ Answer(c, IF call[c].op = "get" THEN "refused" ELSE "done")
    /\ UNCHANGED <<table, tableExists, ensured, now, calls, faults>>

\* A request fails before it takes effect, or no token can be had.
RequestFails(c) ==
    /\ call[c].answer = "pending" /\ step[c].pc \in {"insert", "query", "put", "delete"}
    /\ Fault
    /\ Answer(c, "error")
    /\ UNCHANGED <<table, tableExists, ensured, now, calls>>

Tick == /\ now < MaxTime /\ now' = now + 1
        /\ UNCHANGED <<table, tableExists, ensured, call, step, calls, faults>>
-----------------------------------------------------------------------------
Create(c) == AskForTable(c) \/ TableEnsured(c) \/ Insert(c)
Write(c)  == FetchForUpdate(c) \/ FetchForClaim(c) \/ Put(c)
Read(c)   == Get(c) \/ List(c) \/ Sweep(c) \/ Delete(c) \/ Deleted(c)

Writing(c) == call[c].answer = "pending" /\ call[c].op \in Updates \cup Claims

Watch == seen' = [c \in Callers |-> IF Writing(c)' THEN seen[c] \cup {table'[call'[c].run].rec}
                                                  ELSE {}]

Next ==
    /\ \/ \E c \in Callers  : Begin(c) \/ Create(c) \/ Write(c) \/ Read(c) \/ RequestFails(c)
       \/ \E p \in Replicas : TableIsThere(p) \/ TableRefused(p)
       \/ Tick
    /\ Watch

Spec == Init /\ [][Next]_vars
-----------------------------------------------------------------------------
(* Properties. *)

\* Every variable stays in its type.
TypeOK ==
    /\ table \in [Runs -> Entity]
    /\ tableExists \in BOOLEAN
    /\ ensured \in [Replicas -> {"unset", "asked", "ready"}]
    /\ call \in [Callers -> Contract!Call]
    /\ step \in [Callers -> Step]
    /\ seen \in [Callers -> SUBSET Record]
    /\ now \in Nat /\ calls \in Nat /\ faults \in Nat

\* Requests of other callers between the two requests of an operation show
\* only as far as the contract allows (RunStateStore): each operation takes
\* effect at once on a record of its own lifetime, on the current one where
\* ETags are compared, never on a run that is gone, or it has no effect.
AtomicOperations == Contract!Spec

\* Another write took effect on the run between the query of c and its PUT,
\* and no ETag tells.
Overtaken(c) == ~EtagVisible /\ step[c].tag < table[call[c].run].etag

\* "exactly ONE replica wins a claim (compare-and-swap)" (RunStateStore.claim),
\* as far as the store keeps it: a claim that wins found the run held, or
\* unleased by its clock, at the very moment it took it, or was overtaken.
ClaimIsCas ==
    [][\A c \in Callers :
          call[c].op = "claim" /\ call[c].answer = "pending" /\ call'[c].answer = "done"
          => Claimable(table[call[c].run].rec, call[c].at) \/ Overtaken(c)]_vars

\* The same comment word for word: every claim that wins found the run
\* claimable when its PUT took effect (AzureTableRunStateStore.claim).
OneWinner ==
    [][\A c \in Callers :
          call[c].op = "claim" /\ call[c].answer = "pending" /\ call'[c].answer = "done"
          => Claimable(table[call[c].run].rec, call[c].at)]_vars

\* An approval on the record is visible to every replica until the run is
\* gone: of the writes in flight only one that was overtaken takes it back.
ApprovalSticks ==
    [][\A r \in Runs :
          Approved(table[r].rec) /\ Exists(table'[r].rec) /\ ~Approved(table'[r].rec)
          => \E c \in Callers : At(c, "put") /\ call[c].run = r /\ Overtaken(c)]_vars

\* ensureTable is remembered only when the table is there, so the insert that
\* follows it always finds one.
InsertFindsTable ==
    \A c \in Callers : At(c, "insert") => tableExists
=============================================================================
