---------------------------- MODULE RunLifecycle ----------------------------
(***************************************************************************)
(* The life of gated runs: the coordinators of the web replicas and of the *)
(* background workers, over the run-state store they share.                *)
(*                                                                         *)
(* A handler is one request being served by a web replica, or one worker   *)
(* process.  Handlers interleave where the code awaits, that is between    *)
(* two calls of the store; each call is one atomic step here.  The memory  *)
(* and the file store are such a store, and so would be the table store if *)
(* it compared ETags: AzureTableRunStore says what becomes of a call when  *)
(* it does not.                                                            *)
(***************************************************************************)
EXTENDS RunRecord, FiniteSets

CONSTANTS
    Runs,           \* run ids the stores may allocate (each once)
    Requests,       \* calls clients make: [tool, hold], hold being the gate's decision
    Web,            \* request handlers of the web replicas
    Workers,        \* background worker processes
    Replicas,       \* web replica processes
    ReplicaOf,      \* the replica that serves each web handler
    DriveOnPoll,    \* the coordinator's driveOnPoll option
    Remote,         \* the store is a table service that compares ETags: it refuses
                    \* an update that lost a race, and its answers may be lost
    MaxHeld,        \* maxHeldRunsPerTenant
    Concurrency,    \* quota concurrency per tenant and process
    Expiring,       \* records have a TTL (runTtlMs is set)
    DrivesFitLease, \* a drive that is not killed ends before its lease lapses
    BatchSize,      \* runs a worker drives per tick
    MaxFaults,      \* bound: crashes, failed or refused store calls, exhausted budgets
    NoRun           \* the run of an idle handler

Handlers  == Web \cup Workers
Processes == Replicas \cup Workers
ProcessOf(h) == IF h \in Web THEN ReplicaOf[h] ELSE h

ASSUME TenantsAssumption == Tenants # {}
ASSUME RequestsAssumption == Requests \subseteq [tool : ToolKind, hold : BOOLEAN]
ASSUME ProcessAssumption ==
    /\ Web \cap Workers = {}
    /\ Replicas \cap Workers = {}
    /\ ReplicaOf \in [Web -> Replicas]
ASSUME SwitchAssumption ==
    {DriveOnPoll, Remote, Expiring, DrivesFitLease} \subseteq BOOLEAN
ASSUME BoundAssumption ==
    {MaxHeld, Concurrency, BatchSize, MaxFaults} \subseteq Nat
ASSUME NoRunAssumption == NoRun \notin Runs

VARIABLES
    store,      \* [Runs -> RunState], the shared run-state store
    allocated,  \* run ids ever created (randomUUID never repeats one)
    mustHold,   \* runs whose gate decision was "hold"
    known,      \* run ids that were returned to a client
    job,        \* what each handler is doing, and its local variables
    batch,      \* rest of a worker's listClaimable snapshot
    active,     \* TenantQuotaTracker.usage[t].active of each process
    heldCounts, \* heldCounts of each process
    overCeiling,\* the tenants' spend has reached the monthly ceiling
    faults,     \* faults so far
    raced,      \* handlers whose run was written by another since their last step
    leaked,     \* history: slots of each process that nobody will give back
    contested   \* history: runs an operator approved while they were driven

vars == <<store, allocated, mustHold, known, job, batch, active, heldCounts,
          overCeiling, faults, raced, leaked, contested>>
issued  == <<allocated, mustHold, known>>
env     == <<overCeiling, faults>>
history == <<leaked, contested>>

\* Where a handler can be: before the store call, or the local code, it names.
PC == {"idle",
       "created", "syncHeld", "persisted",    \* startHttpRun and the hold of handle
       "dispatching",                         \* handle, handleAdvisory, handleBusiness
       "approving",                           \* approveRun
       "polled", "admitted",                  \* pollRun up to the claim
       "driving", "stageRead", "failing",     \* executeRunningRun ...
       "driven"}                              \* ... and its return

Driving == {"driving", "stageRead", "failing"}

\* The handlers that hold a concurrency slot of their process, and those whose
\* next call is an update or a claim of their run.
InSlot  == {"created", "syncHeld", "persisted", "dispatching", "admitted", "driven"}
               \cup Driving
Writing == {"created", "syncHeld", "dispatching", "approving", "admitted"} \cup Driving

Job ==
    [pc     : PC,
     run    : Runs \cup {NoRun},
     tenant : Tenants \cup {NoRun},
     stage  : 1..(Stages + 1),       \* next stage of the pipeline
     copy   : Seq(1..Stages),        \* stages read by recordStage
     held   : 0..MaxHeld,            \* heldCounts read by startHttpRun
     op     : Operators \cup {NoOne},
     fresh  : 0..Lease]              \* what is left of the lease this drive claimed

Idle == [pc |-> "idle", run |-> NoRun, tenant |-> NoRun, stage |-> 1, copy |-> <<>>,
         held |-> 0, op |-> NoOne, fresh |-> 0]

Init ==
    /\ store = [r \in Runs |->
                  [Fresh(CHOOSE t \in Tenants : TRUE, "single") EXCEPT !.status = "absent"]]
    /\ allocated = {} /\ mustHold = {} /\ known = {}
    /\ job = [h \in Handlers |-> Idle]
    /\ batch = [w \in Workers |-> {}]
    /\ active = [p \in Processes |-> [t \in Tenants |-> 0]]
    /\ heldCounts = [p \in Processes |-> [t \in Tenants |-> 0]]
    /\ overCeiling = FALSE
    /\ faults = 0
    /\ raced = {}
    /\ leaked = [p \in Processes |-> [t \in Tenants |-> 0]]
    /\ contested = {}
-----------------------------------------------------------------------------
(* Calls of the store, and of the objects private to a process. *)

Fault == faults < MaxFaults /\ faults' = faults + 1

\* A step of h writes run r: whoever else is about to write it may lose the
\* race.  Its own later calls start afresh.
Races(h, r) ==
    raced' = (raced \ {h}) \cup
             {g \in Handlers \ {h} : Remote /\ job[g].pc \in Writing /\ job[g].run = r}

Quiet(h) == raced' = raced \ {h}

\* update merges a patch into a record; a record that is gone stays gone.
Merge(r, rec) == store' = [store EXCEPT ![r] = IF Exists(@) THEN rec ELSE @]

\* The table answers 412, update answers undefined, and nobody looks at it.
LosesRace(h) == h \in raced /\ Fault /\ Quiet(h) /\ UNCHANGED store

Update(h, rec) ==
    \/ Merge(job[h].run, rec) /\ Races(h, job[h].run) /\ UNCHANGED faults
    \/ LosesRace(h)

Admits(h, t)  == ~overCeiling /\ active[ProcessOf(h)][t] < Concurrency
Acquire(h, t) == active' = [active EXCEPT ![ProcessOf(h)][t] = @ + 1]
Release(h)    == active' = [active EXCEPT ![ProcessOf(h)][job[h].tenant] =
                                IF @ = 0 THEN 0 ELSE @ - 1]

DecrementHeld(h) ==
    heldCounts' = [heldCounts EXCEPT ![ProcessOf(h)][job[h].tenant] =
                      IF @ <= 1 THEN 0 ELSE @ - 1]

Goto(h, pc) == job' = [job EXCEPT ![h] = [@ EXCEPT !.pc = pc]]
Finish(h)   == job' = [job EXCEPT ![h] = Idle]
-----------------------------------------------------------------------------
(* startHttpRun, and the synchronous tools. *)

\* The entry of a tool call, up to its first await: quota, gate, the cap on
\* held runs, and the create call.
Call(h, t, r, req) ==
    /\ job[h].pc = "idle"
    /\ r \notin allocated
    /\ Admits(h, t)
    /\ req.tool = "pipeline" /\ req.hold => heldCounts[ProcessOf(h)][t] < MaxHeld
    /\ Acquire(h, t)
    /\ store' = [store EXCEPT ![r] = Fresh(t, req.tool)]
    /\ allocated' = allocated \cup {r}
    /\ mustHold' = IF req.hold THEN mustHold \cup {r} ELSE mustHold
    /\ job' = [job EXCEPT ![h] = [Idle EXCEPT
                  !.pc = CASE req.tool = "pipeline"            -> "created"
                           [] req.tool = "single" /\ req.hold  -> "syncHeld"
                           [] req.tool = "single" /\ ~req.hold -> "dispatching",
                  !.run = r, !.tenant = t,
                  !.held = IF req.tool = "pipeline" /\ req.hold
                           THEN heldCounts[ProcessOf(h)][t] ELSE 0]]
    /\ UNCHANGED <<known, batch, heldCounts, env, raced, history>>

\* The status a start writes: the hold, or a queued run that proceeds.
StartStatus(r) == IF r \in mustHold THEN "held" ELSE "running"

PersistStart(h) ==
    /\ job[h].pc = "created"
    /\ Update(h, [store[job[h].run] EXCEPT !.status = StartStatus(job[h].run)])
    /\ Goto(h, "persisted")
    /\ UNCHANGED <<issued, batch, active, heldCounts, overCeiling, history>>

\* startHttpRun counts the hold with the value it read before its awaits,
\* frees the slot and returns the run id.
ReturnStart(h) ==
    LET r == job[h].run IN
    /\ job[h].pc = "persisted"
    /\ heldCounts' = IF r \in mustHold
                     THEN [heldCounts EXCEPT ![ProcessOf(h)][job[h].tenant] = job[h].held + 1]
                     ELSE heldCounts
    /\ known' = known \cup {r}
    /\ Release(h) /\ Finish(h) /\ Quiet(h)
    /\ UNCHANGED <<store, allocated, mustHold, batch, env, history>>

\* handle, holding a gated tool: update, release, return the run id.
PersistSyncHold(h) ==
    LET r == job[h].run IN
    /\ job[h].pc = "syncHeld"
    /\ Update(h, [store[r] EXCEPT !.status = "held"])
    /\ known' = known \cup {r}
    /\ Release(h) /\ Finish(h)
    /\ UNCHANGED <<allocated, mustHold, batch, heldCounts, overCeiling, history>>

\* handle, handleAdvisory and handleBusiness after their dispatch.  handle
\* stores no artifact, the other two store theirs; a thrown error marks the
\* run failed and answers without a run id.
FinishSync(h) ==
    LET r == job[h].run IN
    /\ job[h].pc = "dispatching"
    /\ \/ /\ \E a \in 0..1 : Update(h, [store[r] EXCEPT !.status = "complete",
                                             !.artifact = IF a = 0 THEN @ ELSE 1])
          /\ known' = known \cup {r}
       \/ Update(h, [store[r] EXCEPT !.status = "failed"]) /\ known' = known
    /\ Release(h) /\ Finish(h)
    /\ UNCHANGED <<allocated, mustHold, batch, heldCounts, overCeiling, history>>

\* The call after create fails, the second one of the store or the allocation
\* of a workspace: the error propagates, the slot is freed, and the created
\* record stays as it is, unless it is only the answer that was lost.
StartFails(h) ==
    LET r == job[h].run IN
    /\ job[h].pc \in {"created", "syncHeld", "dispatching"}
    /\ Fault
    /\ \/ UNCHANGED store /\ Quiet(h)
       \/ /\ Remote /\ job[h].pc # "dispatching"
          /\ Merge(r, [store[r] EXCEPT !.status = StartStatus(r)]) /\ Races(h, r)
    /\ Release(h) /\ Finish(h)
    /\ UNCHANGED <<issued, batch, heldCounts, overCeiling, history>>
-----------------------------------------------------------------------------
(* approveRun: the record is read, then written, by the operator's request. *)

ApproveRead(h, op, r) ==
    /\ job[h].pc = "idle"
    /\ r \in known /\ Exists(store[r])
    /\ job' = [job EXCEPT ![h] = [Idle EXCEPT !.pc = "approving", !.run = r, !.op = op]]
    /\ UNCHANGED <<store, issued, batch, active, heldCounts, env, raced, history>>

IsDriving(h, r) == job[h].pc \in Driving /\ job[h].run = r

ApproveWrite(h) ==
    LET r == job[h].run IN
    /\ job[h].pc = "approving"
    /\ Update(h, [store[r] EXCEPT !.approvedBy = job[h].op])
    /\ contested' = IF Remote /\ \E g \in Handlers : IsDriving(g, r)
                    THEN contested \cup {r} ELSE contested
    /\ Finish(h)
    /\ UNCHANGED <<issued, batch, active, heldCounts, overCeiling, leaked>>

\* The write of an approval, or the read of it by a poll, fails.
ApprovalFails(h) ==
    /\ job[h].pc \in {"approving", "polled"}
    /\ Fault
    /\ Finish(h) /\ Quiet(h)
    /\ UNCHANGED <<store, issued, batch, active, heldCounts, overCeiling, history>>
-----------------------------------------------------------------------------
(* pollRun. *)

\* The first read: a run that is gone or terminal is answered at once.
PollRead(h, r) ==
    /\ job[h].pc = "idle"
    /\ r \in known /\ store[r].status \in {"held", "running"}
    /\ job' = [job EXCEPT ![h] = [Idle EXCEPT !.pc = "polled", !.run = r,
                                              !.tenant = store[r].tenantId]]
    /\ UNCHANGED <<store, issued, batch, active, heldCounts, env, raced, history>>

\* Mutant: the approval is not looked at again.
ReleasesUnread(rec) == DriveOnPoll

\* The approval is read again: the poll goes on only when the run is approved
\* and polls drive.
Releases(rec) == Exists(rec) /\ IsRunApproved(rec) /\ DriveOnPoll

\* The second read, and then the slot.
PollCheck(h) ==
    LET t == job[h].tenant IN
    /\ job[h].pc = "polled"
    /\ \/ /\ Releases(store[job[h].run]) /\ Admits(h, t)
          /\ Acquire(h, t) /\ Goto(h, "admitted")
       \/ /\ ~(Releases(store[job[h].run]) /\ Admits(h, t))
          /\ Finish(h) /\ UNCHANGED active
    /\ Quiet(h)
    /\ UNCHANGED <<store, issued, batch, heldCounts, env, history>>

TakeLease(h, r) == store' = [store EXCEPT ![r] = Claimed(@)] /\ Races(h, r)

\* Mutant: a lost claim keeps the slot.
SlotKept(h) == UNCHANGED active

\* admit.release() of a poll that lost its claim.
SlotGivenBack(h) == Release(h)

\* The claim: a lost one gives the slot back.
PollClaim(h) ==
    LET r == job[h].run IN
    /\ job[h].pc = "admitted"
    /\ \/ /\ CanClaim(store[r]) /\ TakeLease(h, r)
          /\ job' = [job EXCEPT ![h] = [@ EXCEPT !.pc = "driving", !.fresh = Lease]]
          /\ UNCHANGED <<active, faults>>
       \/ /\ \/ ~CanClaim(store[r]) /\ Quiet(h) /\ UNCHANGED <<store, faults>>
             \/ LosesRace(h)
          /\ SlotGivenBack(h) /\ Finish(h)
    /\ UNCHANGED <<issued, batch, heldCounts, overCeiling, history>>

\* A claim that throws, its effect being lost or only its answer, is outside
\* of the try whose finally releases the slot: nobody gives it back.
PollClaimThrows(h) ==
    LET r == job[h].run IN
    /\ job[h].pc = "admitted"
    /\ Fault
    /\ \/ UNCHANGED store /\ Quiet(h)
       \/ Remote /\ CanClaim(store[r]) /\ TakeLease(h, r)
    /\ leaked' = [leaked EXCEPT ![ProcessOf(h)][job[h].tenant] = @ + 1]
    /\ Finish(h)
    /\ UNCHANGED <<issued, batch, active, heldCounts, overCeiling, contested>>
-----------------------------------------------------------------------------
(* RunWorker.tickOnce and driveClaimable. *)

WorkerList(w) ==
    LET claimable == {r \in Runs : IsRunClaimable(store[r])} IN
    /\ job[w].pc = "idle" /\ batch[w] = {} /\ claimable # {}
    /\ \E some \in SUBSET claimable :
          /\ Cardinality(some) =
                IF Cardinality(claimable) < BatchSize THEN Cardinality(claimable) ELSE BatchSize
          /\ batch' = [batch EXCEPT ![w] = some]
    /\ UNCHANGED <<store, issued, job, active, heldCounts, env, raced, history>>

\* The claim comes before the quota: a refused run keeps the lease it got.
WorkerClaim(w, r) ==
    /\ job[w].pc = "idle" /\ r \in batch[w]
    /\ batch' = [batch EXCEPT ![w] = @ \ {r}]
    /\ \/ /\ ~CanClaim(store[r])
          /\ UNCHANGED <<store, job, active, raced>>
       \/ /\ CanClaim(store[r]) /\ TakeLease(w, r)
          /\ \/ /\ Admits(w, store[r].tenantId)
                /\ Acquire(w, store[r].tenantId)
                /\ job' = [job EXCEPT ![w] = [Idle EXCEPT !.pc = "driving", !.run = r,
                                 !.tenant = store[r].tenantId, !.fresh = Lease]]
             \/ /\ ~Admits(w, store[r].tenantId)
                /\ UNCHANGED <<job, active>>
    /\ UNCHANGED <<issued, heldCounts, env, history>>

\* The claim throws, or loses a race: tickOnce goes on with the next run.
WorkerClaimFails(w, r) ==
    /\ job[w].pc = "idle" /\ r \in batch[w]
    /\ batch' = [batch EXCEPT ![w] = @ \ {r}]
    /\ Fault
    /\ \/ UNCHANGED <<store, raced>>
       \/ Remote /\ CanClaim(store[r]) /\ TakeLease(w, r)
    /\ UNCHANGED <<issued, job, active, heldCounts, overCeiling, history>>
-----------------------------------------------------------------------------
(* executeRunningRun: a claimed run is driven, by a poll or by a worker. *)

\* The model call of a stage, then the read half of recordStage.
StageRead(h) ==
    LET rec == store[job[h].run] IN
    /\ job[h].pc = "driving" /\ rec.tool = "pipeline" /\ job[h].stage <= Stages
    /\ job' = IF Exists(rec)
              THEN [job EXCEPT ![h] = [@ EXCEPT !.pc = "stageRead", !.copy = rec.stages]]
              ELSE [job EXCEPT ![h] = [@ EXCEPT !.stage = job[h].stage + 1]]
    /\ Quiet(h)
    /\ UNCHANGED <<store, issued, batch, active, heldCounts, env, history>>

\* The write half: the section is appended to the stages that were READ.
StageWrite(h) ==
    /\ job[h].pc = "stageRead"
    /\ Update(h, [store[job[h].run] EXCEPT !.stages = Append(job[h].copy, job[h].stage)])
    /\ job' = [job EXCEPT ![h] = [@ EXCEPT !.pc = "driving", !.copy = <<>>,
                                         !.stage = job[h].stage + 1]]
    /\ UNCHANGED <<issued, batch, active, heldCounts, overCeiling, history>>

\* How many sections a drive compiles; the mutant counts the next one too.
SectionsAndNext(h) == job[h].stage
Sections(h)        == job[h].stage - 1

\* The compiled artifact is stored.  A pipeline may stop after any stage (a
\* Stop verdict, a cost ceiling): it completes with the sections it has.
Compiled(h) ==
    LET rec == store[job[h].run] IN
    [rec EXCEPT !.status = "complete",
                !.artifact = IF rec.tool = "pipeline" THEN Sections(h) ELSE 1]

MayComplete(h) ==
    /\ job[h].pc = "driving"
    /\ store[job[h].run].tool = "pipeline" => job[h].stage > 1

DriveComplete(h) ==
    /\ MayComplete(h)
    /\ Update(h, Compiled(h))
    /\ Goto(h, "driven")
    /\ UNCHANGED <<issued, batch, active, heldCounts, overCeiling, history>>

\* The run is complete, but the answer of that update is lost, and the drive
\* takes it for a failure.
CompleteUnanswered(h) ==
    /\ Remote /\ MayComplete(h)
    /\ Fault
    /\ Merge(job[h].run, Compiled(h)) /\ Races(h, job[h].run)
    /\ Goto(h, "failing")
    /\ UNCHANGED <<issued, batch, active, heldCounts, overCeiling, history>>

\* A pipeline that throws, or the two-stage spike when it is denied.
DriveFails(h) ==
    LET rec == store[job[h].run] IN
    /\ \/ job[h].pc = "driving"
       \/ job[h].pc = "failing" /\ rec.tool = "pipeline"
    /\ Update(h, [rec EXCEPT !.status = "failed"])
    /\ Goto(h, "driven")
    /\ UNCHANGED <<issued, batch, active, heldCounts, overCeiling, history>>

\* The pipeline throws and nobody catches it: only the slot is given back.  The
\* two-stage spike has no handler; the others have one that starts after the
\* workspace is allocated and ends with a store call, and either may fail.
DriveThrows(h) ==
    /\ job[h].pc \in {"driving", "failing"}
    /\ \/ store[job[h].run].tool = "single" /\ UNCHANGED faults
       \/ store[job[h].run].tool = "pipeline" /\ Fault
    /\ Release(h) /\ Finish(h) /\ Quiet(h)
    /\ UNCHANGED <<store, issued, batch, heldCounts, overCeiling, history>>

DriveReturn(h) ==
    /\ job[h].pc = "driven"
    /\ DecrementHeld(h) /\ Release(h) /\ Finish(h) /\ Quiet(h)
    /\ UNCHANGED <<store, issued, batch, env, history>>
-----------------------------------------------------------------------------
(* The environment: processes die, records expire, time passes. *)

Crash(p) ==
    /\ Fault
    /\ job' = [h \in Handlers |-> IF ProcessOf(h) = p THEN Idle ELSE job[h]]
    /\ batch' = [w \in Workers |-> IF w = p THEN {} ELSE batch[w]]
    /\ active' = [active EXCEPT ![p] = [t \in Tenants |-> 0]]
    /\ heldCounts' = [heldCounts EXCEPT ![p] = [t \in Tenants |-> 0]]
    /\ leaked' = [leaked EXCEPT ![p] = [t \in Tenants |-> 0]]
    /\ raced' = {h \in raced : ProcessOf(h) # p}
    /\ UNCHANGED <<store, issued, overCeiling, contested>>

\* recordCostUsd reaches the monthly ceiling; usageFor starts a new month.
SpendReachesCeiling ==
    /\ ~overCeiling /\ overCeiling' = TRUE
    /\ Fault
    /\ UNCHANGED <<store, issued, job, batch, active, heldCounts, raced, history>>

NewMonth ==
    /\ overCeiling /\ overCeiling' = FALSE
    /\ UNCHANGED <<store, issued, job, batch, active, heldCounts, faults, raced, history>>

\* The TTL of a record passes: lazy expiry and sweepExpired alike remove it.
Expire(r) ==
    /\ Expiring /\ Exists(store[r])
    /\ store' = [store EXCEPT ![r] =
                    [Fresh(store[r].tenantId, store[r].tool) EXCEPT !.status = "absent"]]
    /\ UNCHANGED <<issued, job, batch, active, heldCounts, env, raced, history>>

Tick ==
    /\ \/ \E r \in Runs : store[r].lease > 0
       \/ \E h \in Handlers : job[h].fresh > 0
    /\ DrivesFitLease => \A h \in Handlers : job[h].pc \in Driving => job[h].fresh # 1
    /\ store' = [r \in Runs |-> [store[r] EXCEPT !.lease = Elapse(@)]]
    /\ job' = [h \in Handlers |-> [job[h] EXCEPT !.fresh = Elapse(@)]]
    /\ UNCHANGED <<issued, batch, active, heldCounts, env, raced, history>>
-----------------------------------------------------------------------------
Start(h)   == \/ \E t \in Tenants, r \in Runs, req \in Requests : Call(h, t, r, req)
              \/ PersistStart(h) \/ ReturnStart(h) \/ PersistSyncHold(h)
              \/ FinishSync(h) \/ StartFails(h)
Approve(h) == \/ \E op \in Operators, r \in Runs : ApproveRead(h, op, r)
              \/ ApproveWrite(h) \/ ApprovalFails(h)
Poll(h)    == \/ \E r \in Runs : PollRead(h, r)
              \/ PollCheck(h) \/ PollClaim(h) \/ PollClaimThrows(h)
Work(w)    == \/ WorkerList(w)
              \/ \E r \in Runs : WorkerClaim(w, r) \/ WorkerClaimFails(w, r)
Drive(h)   == \/ StageRead(h) \/ StageWrite(h) \/ DriveComplete(h) \/ CompleteUnanswered(h)
              \/ DriveFails(h) \/ DriveThrows(h) \/ DriveReturn(h)
Environment == \/ Tick \/ SpendReachesCeiling \/ NewMonth
               \/ \E p \in Processes : Crash(p)
               \/ \E r \in Runs : Expire(r)

Next ==
    \/ \E h \in Web      : Start(h) \/ Approve(h) \/ Poll(h)
    \/ \E w \in Workers  : Work(w)
    \/ \E h \in Handlers : Drive(h)
    \/ Environment

Spec == Init /\ [][Next]_vars
-----------------------------------------------------------------------------
(* Properties. *)

\* Every variable stays in its type.
TypeOK ==
    /\ store \in [Runs -> RunState]
    /\ allocated \subseteq Runs /\ mustHold \subseteq Runs /\ known \subseteq Runs
    /\ job \in [Handlers -> Job]
    /\ batch \in [Workers -> SUBSET Runs]
    /\ active \in [Processes -> [Tenants -> Nat]]
    /\ heldCounts \in [Processes -> [Tenants -> Nat]]
    /\ overCeiling \in BOOLEAN
    /\ faults \in 0..MaxFaults
    /\ raced \subseteq Handlers
    /\ leaked \in [Processes -> [Tenants -> Nat]]
    /\ contested \subseteq Runs

\* The human gate (SEC-6): a run the gate decided to hold is driven only once
\* an operator's approval is on its record.  claim does not look at the
\* approval, so this rests on what every caller of claim established before.
GateHolds ==
    \A h \in Handlers, r \in mustHold :
        IsDriving(h, r) /\ Exists(store[r]) => IsRunApproved(store[r])

\* A step takes a record out of "held" only when it is approved.
HeldNeedsApproval ==
    [][\A r \in Runs : store[r].status = "held" /\ store'[r].status \notin {"held", "absent"}
                         => IsRunApproved(store[r])]_vars

\* The compare-and-swap of claim: of the drives of a run, at most one is
\* within the lease it claimed.
OneLiveLease ==
    \A r \in Runs, h1, h2 \in Handlers :
        /\ IsDriving(h1, r) /\ job[h1].fresh > 0
        /\ IsDriving(h2, r) /\ job[h2].fresh > 0
        => h1 = h2

\* No run is driven by two handlers at once: what run-worker.ts promises
\* ("two workers ... cannot double-execute a run").
SingleDriver ==
    \A r \in Runs, h1, h2 \in Handlers : IsDriving(h1, r) /\ IsDriving(h2, r) => h1 = h2

\* A finished run is never reopened, whatever update or claim is in flight.
TerminalStays ==
    [][\A r \in Runs : store[r].status \in Terminal
                         => store'[r].status \in Terminal \cup {"absent"}]_vars

\* What the record of a finished run says stays so while it exists: the
\* artifact always, and the verdict unless the drive that completed the run
\* never learnt that it had and marks it failed.
ResultIsFinal ==
    [][\A r \in Runs : store[r].status \in Terminal /\ Exists(store'[r])
           => /\ store'[r].artifact = store[r].artifact
              /\ \/ store'[r].status = store[r].status
                 \/ /\ store'[r].status = "failed"
                    /\ \E h \in Handlers : job[h].pc = "failing" /\ job[h].run = r]_vars

\* The artifact a pipeline run completed with is compiled from the sections
\* persisted last, in the order of the plan; a drive that was killed before
\* leaves its own sections in front of them.  Only an operator who approves the
\* run again while it is driven can make a section get lost on the record.
ArtifactMatchesStages ==
    \A r \in Runs \ contested :
        LET rec == store[r]
            n   == Len(rec.stages)
        IN  rec.status = "complete" /\ rec.tool = "pipeline" =>
               /\ rec.artifact \in 1..n
               /\ \A i \in 1..rec.artifact : rec.stages[n - rec.artifact + i] = i

\* acquire and release balance on every path but one: the active count of a
\* tenant in a process is the number of its handlers that hold a slot there,
\* and of the polls of it whose claim threw since the process started.
QuotaBalanced ==
    \A p \in Processes, t \in Tenants :
        active[p][t] = leaked[p][t] + Cardinality({h \in Handlers : /\ ProcessOf(h) = p
                                                                    /\ job[h].tenant = t
                                                                    /\ job[h].pc \in InSlot})

(* Liveness.  A handler that is past a call goes on (the event loop), clients *)
(* poll until their run is over, workers tick forever, and time passes.       *)
Progress(h) ==
    \/ PersistStart(h) \/ ReturnStart(h) \/ PersistSyncHold(h) \/ FinishSync(h)
    \/ ApproveWrite(h) \/ PollCheck(h) \/ PollClaim(h) \/ Drive(h)

Fairness ==
    /\ \A h \in Handlers : WF_vars(Progress(h))
    /\ \A r \in Runs : SF_vars(\E h \in Web : PollRead(h, r))
    /\ \A w \in Workers : WF_vars(Work(w))
    /\ WF_vars(Tick) /\ WF_vars(NewMonth)

FairSpec == Spec /\ Fairness

\* A replica has no slot left for the tenant of run r, and never will.
Starved(r) == \E p \in Replicas : leaked[p][store[r].tenantId] >= Concurrency

\* An approved run is finished, even when the process that drives it dies, its
\* completion is refused or a claim fails: its lease lapses and another poll,
\* or the worker, takes it over.  Polls do not if they reach a replica that lost
\* all of its slots to claims that threw.
ApprovedRunFinishes ==
    \A r \in Runs : (store[r].status \in {"held", "running"} /\ IsRunApproved(store[r]))
                        ~> (store[r].status \in Terminal \cup {"absent"} \/ Starved(r))
=============================================================================
