------------------------- MODULE RunLifecycleProofs -------------------------
(***************************************************************************)
(* Theorems about RunLifecycle, for every value of its constants.          *)
(*                                                                         *)
(* TypeInv and QuotaInv are inductive in every deployment.  GateInv, which *)
(* carries the human gate, the uniqueness of a live lease and the          *)
(* permanence of a result, is inductive in the deployments that have no    *)
(* worker, and FitInv, which carries the uniqueness of a driver, in those  *)
(* of them whose living drives end before their leases.                    *)
(***************************************************************************)
EXTENDS RunLifecycle, FiniteSetTheorems, TLAPS

\* A handler that is past its entry works on a run, and it has a tenant
\* wherever it touches the quota; recordStage writes a stage of the plan, and
\* an approval names its operator.
Sound(j) ==
    /\ j \in Job
    /\ j.pc # "idle" => j.run \in Runs
    /\ j.pc \in InSlot \cup {"polled"} => j.tenant \in Tenants
    /\ j.pc = "stageRead" => j.stage <= Stages
    /\ j.pc = "approving" => j.op \in Operators

WellFormed == \A h \in Handlers : Sound(job[h])

TypeInv == TypeOK /\ WellFormed

USE TenantsAssumption, RequestsAssumption, ProcessAssumption, BoundAssumption,
    NoRunAssumption, NoOneAssumption, LeaseAssumption, StagesAssumption

-----------------------------------------------------------------------------
(* Records. *)

\* What the run-state stores write is a run record: create, claim, expiry.
LEMMA FreshType ==
    \A t \in Tenants, k \in ToolKind :
        /\ Fresh(t, k) \in RunState
        /\ [Fresh(t, k) EXCEPT !.status = "absent"] \in RunState
  <1>1. 0 \in 0..Lease /\ 0 \in 0..Stages /\ <<>> \in Seq(1..Stages)  OBVIOUS
  <1> QED  BY <1>1 DEF Fresh, RunState, RunStatus

LEMMA RecordTypes ==
    \A rec \in RunState :
        /\ Claimed(rec) \in RunState
        /\ [Fresh(rec.tenantId, rec.tool) EXCEPT !.status = "absent"] \in RunState
  <1>1. Lease \in 0..Lease  OBVIOUS
  <1>2. \A rec \in RunState : Claimed(rec) \in RunState
    BY <1>1 DEF Claimed, RunState, RunStatus
  <1>3. \A rec \in RunState : rec.tenantId \in Tenants /\ rec.tool \in ToolKind
    BY DEF RunState
  <1> QED  BY <1>2, <1>3, FreshType

\* The patches the coordinator writes keep the type of a record.
LEMMA PatchTypes ==
    ASSUME NEW rec \in RunState
    PROVE  /\ \A s \in RunStatus : [rec EXCEPT !.status = s] \in RunState
           /\ \A s \in RunStatus, a \in 0..Stages :
                 [rec EXCEPT !.status = s, !.artifact = a] \in RunState
           /\ \A op \in Operators \cup {NoOne} : [rec EXCEPT !.approvedBy = op] \in RunState
           /\ \A st \in Seq(1..Stages) : [rec EXCEPT !.stages = st] \in RunState
           /\ \A n \in 0..Lease : [rec EXCEPT !.lease = n] \in RunState
  BY DEF RunState

LEMMA IdleType == Idle \in Job /\ Sound(Idle)
  BY DEF Idle, Job, PC, Sound, InSlot, Driving

\* What an update does to the store: it merges its patch, or is refused.
Patches(r, rec) == Merge(r, rec) \/ store' = store

LEMMA UpdatePatches ==
    ASSUME NEW h, NEW rec, Update(h, rec)
    PROVE  Patches(job[h].run, rec) /\ (faults' = faults \/ Fault)
  BY DEF Update, LosesRace, Patches

\* A patch with a well-typed record keeps the type of the store, also when
\* the record is gone.
LEMMA PatchesType ==
    ASSUME NEW r, store \in [Runs -> RunState],
           NEW rec, r \in Runs => rec \in RunState, Patches(r, rec)
    PROVE  store' \in [Runs -> RunState]
  BY DEF Patches, Merge

\* The two shapes of a counter's change, for any process and tenant.
LEMMA CountersType ==
    ASSUME NEW c \in [Processes -> [Tenants -> Nat]], NEW p, NEW t,
           NEW v, p \in Processes /\ t \in Tenants => v \in Nat
    PROVE  [c EXCEPT ![p][t] = v] \in [Processes -> [Tenants -> Nat]]
  <1> DEFINE f == [c[p] EXCEPT ![t] = v]
  <1>1. ASSUME p \in Processes PROVE f \in [Tenants -> Nat]
    <2>1. c[p] \in [Tenants -> Nat]  BY <1>1
    <2> QED  BY <1>1, <2>1
  <1>2. [c EXCEPT ![p] = f] \in [Processes -> [Tenants -> Nat]]
    <2> HIDE DEF f
    <2> QED  BY <1>1
  <1> QED  BY <1>2

LEMMA Bounds == MaxHeld \in Nat /\ Concurrency \in Nat /\ MaxFaults \in Nat
  OBVIOUS

\* One handler moves on to a sound job.
LEMMA JobStep ==
    ASSUME TypeInv, NEW h \in Handlers, NEW j, Sound(j), job' = [job EXCEPT ![h] = j]
    PROVE  job' \in [Handlers -> Job] /\ WellFormed'
  <1>1. job \in [Handlers -> Job]  BY DEF TypeInv, TypeOK
  <1>2. j \in Job  BY DEF Sound
  <1>3. job' \in [Handlers -> Job]  BY <1>1, <1>2
  <1>4. ASSUME NEW g \in Handlers PROVE Sound(job'[g])
    <2>1. Sound(job[g])  BY DEF TypeInv, WellFormed
    <2>2. job'[g] = IF g = h THEN j ELSE job[g]  BY <1>1
    <2> QED  BY <2>1, <2>2
  <1> QED  BY <1>3, <1>4 DEF WellFormed

LEMMA FinishStep ==
    ASSUME TypeInv, NEW h \in Handlers, Finish(h)
    PROVE  job' \in [Handlers -> Job] /\ WellFormed'
  BY JobStep, IdleType DEF Finish

LEMMA ReleaseType ==
    ASSUME NEW h, active \in [Processes -> [Tenants -> Nat]], Release(h)
    PROVE  active' \in [Processes -> [Tenants -> Nat]]
  <1> DEFINE p == ProcessOf(h)
             t == job[h].tenant
             v == IF active[p][t] = 0 THEN 0 ELSE active[p][t] - 1
  <1>1. active' = [active EXCEPT ![p][t] = v]  BY DEF Release
  <1>2. p \in Processes /\ t \in Tenants => v \in Nat
    <2>1. p \in Processes /\ t \in Tenants => active[p][t] \in Nat  OBVIOUS
    <2> QED  BY <2>1
  <1> QED  BY <1>1, <1>2, CountersType

LEMMA AcquireType ==
    ASSUME NEW h, NEW t, active \in [Processes -> [Tenants -> Nat]], Acquire(h, t)
    PROVE  active' \in [Processes -> [Tenants -> Nat]]
  <1> DEFINE p == ProcessOf(h)
             v == active[p][t] + 1
  <1>1. active' = [active EXCEPT ![p][t] = v]  BY DEF Acquire
  <1>2. p \in Processes /\ t \in Tenants => v \in Nat
    <2>1. p \in Processes /\ t \in Tenants => active[p][t] \in Nat  OBVIOUS
    <2> QED  BY <2>1
  <1> QED  BY <1>1, <1>2, CountersType
-----------------------------------------------------------------------------
(* Type correctness. *)

\* The types of what the model keeps beside the state of the program.
BookOK ==
    /\ raced \subseteq Handlers
    /\ leaked \in [Processes -> [Tenants -> Nat]]
    /\ contested \subseteq Runs

LEMMA TypeInit == Init => TypeInv
  <1> SUFFICES ASSUME Init PROVE TypeInv  OBVIOUS
  <1>1. (CHOOSE t \in Tenants : TRUE) \in Tenants  OBVIOUS
  <1>2. store \in [Runs -> RunState]
    BY <1>1, FreshType DEF Init, ToolKind
  <1>3. job \in [Handlers -> Job]  BY IdleType DEF Init
  <1>4. TypeOK
    <2>1. allocated \subseteq Runs /\ mustHold \subseteq Runs /\ known \subseteq Runs
      BY DEF Init
    <2>2. batch \in [Workers -> SUBSET Runs]  BY DEF Init
    <2>3. active \in [Processes -> [Tenants -> Nat]]
          /\ heldCounts \in [Processes -> [Tenants -> Nat]]
      BY DEF Init
    <2>4. overCeiling \in BOOLEAN  BY Zenon DEF Init
    <2>5. faults \in 0..MaxFaults
      <3>1. faults = 0  BY Zenon DEF Init
      <3> QED  BY <3>1, Bounds
    <2>6. raced \subseteq Handlers /\ leaked \in [Processes -> [Tenants -> Nat]]
          /\ contested \subseteq Runs
      BY DEF Init
    <2> QED  BY <1>2, <1>3, <2>1, <2>2, <2>3, <2>4, <2>5, <2>6 DEF TypeOK
  <1>5. WellFormed  BY IdleType DEF Init, WellFormed
  <1> QED  BY <1>4, <1>5 DEF TypeInv

\* The parts of the type invariant, as a step has to re-establish them.
LEMMA TypeParts ==
    ASSUME TypeOK,
           store' \in [Runs -> RunState], job' \in [Handlers -> Job], WellFormed',
           allocated' \subseteq Runs, mustHold' \subseteq Runs, known' \subseteq Runs,
           batch' \in [Workers -> SUBSET Runs],
           active' \in [Processes -> [Tenants -> Nat]],
           heldCounts' \in [Processes -> [Tenants -> Nat]],
           overCeiling' \in BOOLEAN, faults' = faults \/ Fault, BookOK'
    PROVE  TypeInv'
  <1>1. faults' \in 0..MaxFaults  BY Bounds DEF TypeOK, Fault
  <1> QED  BY <1>1 DEF TypeInv, TypeOK, BookOK

\* Who may lose a race, who leaks a slot, and which runs are contested.
LEMMA RacesType ==
    ASSUME raced \subseteq Handlers, NEW h, NEW r, Races(h, r) \/ Quiet(h) \/ raced' = raced
    PROVE  raced' \subseteq Handlers
  BY DEF Races, Quiet

LEMMA UpdateRaces ==
    ASSUME NEW h, NEW rec, Update(h, rec)
    PROVE  Races(h, job[h].run) \/ Quiet(h)
  BY DEF Update, LosesRace

LEMMA BookStart ==
    ASSUME TypeInv, NEW h \in Web, Start(h) \/ Approve(h)
    PROVE  BookOK'
  <1> DEFINE r == job[h].run
  <1>t. TypeOK  BY DEF TypeInv
  <1>1. CASE PersistStart(h) \/ PersistSyncHold(h) \/ FinishSync(h)
    <2>1. UNCHANGED history /\ \E rec : Update(h, rec)
      BY <1>1 DEF PersistStart, PersistSyncHold, FinishSync
    <2> QED  BY <1>t, <2>1, UpdateRaces, RacesType DEF BookOK, TypeOK, history
  <1>2. CASE ReturnStart(h) \/ StartFails(h) \/ ApprovalFails(h)
    <2>1. UNCHANGED history /\ (Races(h, r) \/ Quiet(h))
      BY <1>2 DEF ReturnStart, StartFails, ApprovalFails
    <2> QED  BY <1>t, <2>1, RacesType DEF BookOK, TypeOK, history
  <1>3. CASE ApproveWrite(h)
    <2>1. (\E rec : Update(h, rec)) /\ UNCHANGED leaked
          /\ (contested' = contested \/ contested' = contested \cup {r})
      BY <1>3 DEF ApproveWrite
    <2>2. r \in Runs  BY <1>3 DEF ApproveWrite, TypeInv, WellFormed, Sound, Handlers
    <2> QED  BY <1>t, <2>1, <2>2, UpdateRaces, RacesType DEF BookOK, TypeOK
  <1>4. \A t \in Tenants, q \in Runs, req \in Requests : Call(h, t, q, req) => BookOK'
    BY <1>t DEF Call, BookOK, TypeOK, history
  <1>5. \A op \in Operators, q \in Runs : ApproveRead(h, op, q) => BookOK'
    BY <1>t DEF ApproveRead, BookOK, TypeOK, history
  <1> QED  BY <1>1, <1>2, <1>3, <1>4, <1>5 DEF Start, Approve

LEMMA BookPoll ==
    ASSUME TypeInv, NEW h \in Web, Poll(h)
    PROVE  BookOK'
  <1> DEFINE r == job[h].run
  <1>t. TypeOK  BY DEF TypeInv
  <1>1. ASSUME NEW q \in Runs, PollRead(h, q) PROVE BookOK'
    BY <1>t, <1>1 DEF PollRead, BookOK, TypeOK, history
  <1>2. CASE PollCheck(h) \/ PollClaim(h)
    <2>1. UNCHANGED history /\ (Races(h, r) \/ Quiet(h))
      BY <1>2 DEF PollCheck, PollClaim, TakeLease, LosesRace
    <2> QED  BY <1>t, <2>1, RacesType DEF BookOK, TypeOK, history
  <1>3. CASE PollClaimThrows(h)
    <2> DEFINE p == ProcessOf(h)
               t == job[h].tenant
               v == leaked[p][t] + 1
    <2>1. /\ Races(h, r) \/ Quiet(h)
          /\ contested' = contested /\ leaked' = [leaked EXCEPT ![p][t] = v]
      BY <1>3 DEF PollClaimThrows, TakeLease
    <2>2. p \in Processes /\ t \in Tenants => v \in Nat
      <3>1. p \in Processes /\ t \in Tenants => leaked[p][t] \in Nat  BY <1>t DEF TypeOK
      <3> QED  BY <3>1
    <2>3. leaked' \in [Processes -> [Tenants -> Nat]]
      <3> HIDE DEF v
      <3> QED  BY <1>t, <2>1, <2>2, CountersType DEF TypeOK
    <2> QED  BY <1>t, <2>1, <2>3, RacesType DEF BookOK, TypeOK
  <1> QED  BY <1>1, <1>2, <1>3 DEF Poll

LEMMA BookDrive ==
    ASSUME TypeInv, NEW h \in Handlers, (h \in Workers /\ Work(h)) \/ Drive(h)
    PROVE  BookOK'
  <1> DEFINE r == job[h].run
  <1>t. TypeOK  BY DEF TypeInv
  <1>1. CASE WorkerList(h)
    BY <1>t, <1>1 DEF WorkerList, BookOK, TypeOK, history
  <1>2. ASSUME NEW q \in Runs, WorkerClaim(h, q) \/ WorkerClaimFails(h, q) PROVE BookOK'
    <2>1. UNCHANGED history /\ (Races(h, q) \/ raced' = raced)
      BY <1>2 DEF WorkerClaim, WorkerClaimFails, TakeLease
    <2> QED  BY <1>t, <2>1, RacesType DEF BookOK, TypeOK, history
  <1>3. CASE Drive(h)
    <2>1. UNCHANGED history /\ (Races(h, r) \/ Quiet(h))
      <3>1. CASE StageRead(h) \/ DriveThrows(h) \/ DriveReturn(h) \/ CompleteUnanswered(h)
        BY <3>1 DEF StageRead, DriveThrows, DriveReturn, CompleteUnanswered
      <3>2. CASE StageWrite(h) \/ DriveComplete(h) \/ DriveFails(h)
        <4>1. UNCHANGED history /\ \E rec : Update(h, rec)
          BY <3>2 DEF StageWrite, DriveComplete, DriveFails
        <4> QED  BY <4>1, UpdateRaces
      <3> QED  BY <1>3, <3>1, <3>2 DEF Drive
    <2> QED  BY <1>t, <2>1, RacesType DEF BookOK, TypeOK, history
  <1> QED  BY <1>1, <1>2, <1>3 DEF Work

LEMMA BookEnvironment ==
    ASSUME TypeInv, Environment PROVE BookOK'
  <1>t. TypeOK  BY DEF TypeInv
  <1>1. ASSUME NEW q \in Runs, Expire(q) PROVE BookOK'
    BY <1>t, <1>1 DEF Expire, BookOK, TypeOK, history
  <1>2. CASE Tick \/ SpendReachesCeiling \/ NewMonth
    BY <1>t, <1>2 DEF Tick, SpendReachesCeiling, NewMonth, BookOK, TypeOK, history
  <1>3. ASSUME NEW p \in Processes, Crash(p) PROVE BookOK'
    BY <1>t, <1>3 DEF Crash, BookOK, TypeOK
  <1> QED  BY <1>1, <1>2, <1>3 DEF Environment

LEMMA StartType ==
    ASSUME TypeInv, BookOK', NEW h \in Web, Start(h) PROVE TypeInv'
  <1> DEFINE r == job[h].run
  <1>h. h \in Handlers  BY DEF Handlers
  <1>t. TypeOK /\ Sound(job[h]) /\ job[h] \in Job
    BY <1>h DEF TypeInv, WellFormed, Sound
  <1>r. job[h].pc # "idle" => r \in Runs /\ store[r] \in RunState
    BY <1>t DEF TypeOK, Sound
  <1>s. RunStatus = {"running", "held", "complete", "failed"}  BY DEF RunStatus
  <1>1. ASSUME NEW t \in Tenants, NEW q \in Runs, NEW req \in Requests, Call(h, t, q, req)
        PROVE  TypeInv'
    <2> DEFINE kind == CASE req.tool = "pipeline"            -> "created"
                         [] req.tool = "single" /\ req.hold  -> "syncHeld"
                         [] req.tool = "single" /\ ~req.hold -> "dispatching"
               n    == IF req.tool = "pipeline" /\ req.hold
                       THEN heldCounts[ProcessOf(h)][t] ELSE 0
               j    == [Idle EXCEPT !.pc = kind, !.run = q, !.tenant = t, !.held = n]
    <2>1. req.tool \in ToolKind /\ req.hold \in BOOLEAN  OBVIOUS
    <2>2. store' \in [Runs -> RunState]
      BY <1>t, <1>1, <2>1, FreshType DEF Call, TypeOK
    <2>3. job' = [job EXCEPT ![h] = j]  BY <1>1 DEF Call
    <2>4. kind \in {"created", "syncHeld", "dispatching"}
      BY <2>1 DEF ToolKind
    <2>5. ProcessOf(h) \in Processes  BY DEF ProcessOf, Processes
    <2>6. n \in 0..MaxHeld
      <3>1. heldCounts[ProcessOf(h)][t] \in Nat  BY <1>t, <2>5 DEF TypeOK
      <3>2. CASE req.tool = "pipeline" /\ req.hold
        <4>1. heldCounts[ProcessOf(h)][t] < MaxHeld  BY <1>1, <3>2 DEF Call
        <4> QED  BY <3>1, <3>2, <4>1, Bounds
      <3> QED  BY <3>2, Bounds
    <2>7. Sound(j)
      <3> HIDE DEF kind, n
      <3> QED  BY <2>4, <2>6, IdleType DEF Sound, Idle, Job, PC, InSlot, Driving
    <2>8. active' \in [Processes -> [Tenants -> Nat]]
      BY <1>1, <1>t, AcquireType DEF Call, TypeOK
    <2>9. UNCHANGED <<known, batch, heldCounts, env>>  BY <1>1 DEF Call
    <2>10. allocated' \subseteq Runs /\ mustHold' \subseteq Runs
      BY <1>1, <1>t DEF Call, TypeOK
    <2>11. job' \in [Handlers -> Job] /\ WellFormed'
      <3> HIDE DEF j
      <3> QED  BY <1>h, <2>3, <2>7, JobStep
    <2> QED  BY <1>t, <2>2, <2>8, <2>9, <2>10, <2>11, TypeParts DEF TypeOK, env
  <1>2. CASE PersistStart(h)
    <2>1. store' \in [Runs -> RunState]
      <3> DEFINE s == StartStatus(r)
      <3>1. Patches(r, [store[r] EXCEPT !.status = s])
        BY <1>2, UpdatePatches DEF PersistStart
      <3>2. s \in RunStatus  BY <1>s DEF StartStatus
      <3> HIDE DEF s
      <3> QED  BY <1>t, <1>r, <1>2, <3>1, <3>2, PatchTypes, PatchesType DEF TypeOK, PersistStart
    <2>2. job' \in [Handlers -> Job] /\ WellFormed'
      <3> DEFINE j == [job[h] EXCEPT !.pc = "persisted"]
      <3>1. job' = [job EXCEPT ![h] = j]  BY <1>2 DEF PersistStart, Goto
      <3>2. Sound(j)  BY <1>t, <1>2 DEF PersistStart, Sound, Job, PC, InSlot, Driving
      <3> QED  BY <1>h, <3>1, <3>2, JobStep
    <2>3. /\ UNCHANGED <<issued, batch, active, heldCounts, overCeiling>>
          /\ faults' = faults \/ Fault
      BY <1>2, UpdatePatches DEF PersistStart
    <2> QED  BY <1>t, <2>1, <2>2, <2>3, TypeParts DEF TypeOK, issued
  <1>3. CASE ReturnStart(h)
    <2>1. Release(h) /\ Finish(h) /\ UNCHANGED <<store, allocated, mustHold, batch, env>>
      BY <1>3 DEF ReturnStart
    <2>2. heldCounts' \in [Processes -> [Tenants -> Nat]]
      <3>1. job[h].held + 1 \in Nat  BY <1>t, Bounds DEF Job
      <3>2. \/ heldCounts' = heldCounts
            \/ heldCounts' = [heldCounts EXCEPT ![ProcessOf(h)][job[h].tenant] = job[h].held + 1]
        BY <1>3 DEF ReturnStart
      <3>3. [heldCounts EXCEPT ![ProcessOf(h)][job[h].tenant] = job[h].held + 1]
               \in [Processes -> [Tenants -> Nat]]
        BY <1>t, <3>1, CountersType DEF TypeOK
      <3> QED  BY <1>t, <3>2, <3>3 DEF TypeOK
    <2>3. known' \subseteq Runs  BY <1>t, <1>r, <1>3 DEF ReturnStart, TypeOK
    <2> QED  BY <1>h, <1>t, <2>1, <2>2, <2>3, FinishStep, ReleaseType, TypeParts DEF TypeOK, env
  <1>4. CASE PersistSyncHold(h)
    <2>1. /\ Release(h) /\ Finish(h) /\ Patches(r, [store[r] EXCEPT !.status = "held"])
          /\ UNCHANGED <<allocated, mustHold, batch, heldCounts, overCeiling>>
          /\ faults' = faults \/ Fault
      BY <1>4, UpdatePatches DEF PersistSyncHold
    <2>2. known' \subseteq Runs  BY <1>t, <1>r, <1>4 DEF PersistSyncHold, TypeOK
    <2>3. store' \in [Runs -> RunState]
      BY <1>t, <1>r, <1>s, <1>4, <2>1, PatchTypes, PatchesType DEF TypeOK, PersistSyncHold
    <2> QED  BY <1>h, <1>t, <2>1, <2>2, <2>3, FinishStep, ReleaseType, TypeParts DEF TypeOK
  <1>5. CASE FinishSync(h)
    <2>1. /\ Release(h) /\ Finish(h)
          /\ UNCHANGED <<allocated, mustHold, batch, heldCounts, overCeiling>>
          /\ faults' = faults \/ Fault
      BY <1>5, UpdatePatches DEF FinishSync
    <2>2. known' \subseteq Runs  BY <1>t, <1>r, <1>5 DEF FinishSync, TypeOK
    <2>3. store' \in [Runs -> RunState]
      <3>r. r \in Runs /\ store[r] \in RunState  BY <1>r, <1>5 DEF FinishSync
      <3>1. ASSUME NEW a \in 0..1,
                   Patches(r, [store[r] EXCEPT !.status = "complete",
                                              !.artifact = IF a = 0 THEN @ ELSE 1])
            PROVE  store' \in [Runs -> RunState]
        <4> DEFINE n == IF a = 0 THEN store[r].artifact ELSE 1
        <4>1. n \in 0..Stages  BY <3>r DEF RunState
        <4>2. Patches(r, [store[r] EXCEPT !.status = "complete", !.artifact = n])  BY <3>1
        <4> HIDE DEF n
        <4> QED  BY <1>t, <1>s, <3>r, <4>1, <4>2, PatchTypes, PatchesType DEF TypeOK
      <3>2. CASE Patches(r, [store[r] EXCEPT !.status = "failed"])
        BY <1>t, <1>s, <3>r, <3>2, PatchTypes, PatchesType DEF TypeOK
      <3> QED  BY <1>5, <3>1, <3>2, UpdatePatches DEF FinishSync
    <2> QED  BY <1>h, <1>t, <2>1, <2>2, <2>3, FinishStep, ReleaseType, TypeParts DEF TypeOK
  <1>6. CASE StartFails(h)
    <2>1. /\ Fault /\ Release(h) /\ Finish(h)
          /\ Patches(r, [store[r] EXCEPT !.status = StartStatus(r)])
          /\ UNCHANGED <<issued, batch, heldCounts, overCeiling>>
      BY <1>6 DEF StartFails, Patches
    <2>2. store' \in [Runs -> RunState]
      <3>1. StartStatus(r) \in RunStatus  BY <1>s DEF StartStatus
      <3> QED  BY <1>t, <1>r, <1>6, <2>1, <3>1, PatchTypes, PatchesType DEF TypeOK, StartFails
    <2> QED  BY <1>h, <1>t, <2>1, <2>2, FinishStep, ReleaseType, TypeParts DEF TypeOK, issued
  <1> QED  BY <1>1, <1>2, <1>3, <1>4, <1>5, <1>6 DEF Start

LEMMA ApproveType ==
    ASSUME TypeInv, BookOK', NEW h \in Web, Approve(h) PROVE TypeInv'
  <1> DEFINE r == job[h].run
  <1>h. h \in Handlers  BY DEF Handlers
  <1>t. TypeOK /\ Sound(job[h]) /\ job[h] \in Job
    BY <1>h DEF TypeInv, WellFormed, Sound
  <1>1. ASSUME NEW op \in Operators, NEW q \in Runs, ApproveRead(h, op, q) PROVE TypeInv'
    <2> DEFINE j == [Idle EXCEPT !.pc = "approving", !.run = q, !.op = op]
    <2>1. /\ job' = [job EXCEPT ![h] = j]
          /\ UNCHANGED <<store, issued, batch, active, heldCounts, env>>
      BY <1>1 DEF ApproveRead
    <2>2. Sound(j)  BY IdleType DEF Sound, Idle, Job, PC, InSlot, Driving
    <2>3. job' \in [Handlers -> Job] /\ WellFormed'
      <3> HIDE DEF j
      <3> QED  BY <1>h, <2>1, <2>2, JobStep
    <2> QED  BY <1>t, <2>1, <2>3, TypeParts DEF TypeOK, issued, env
  <1>2. CASE ApproveWrite(h)
    <2>1. /\ Finish(h) /\ Patches(r, [store[r] EXCEPT !.approvedBy = job[h].op])
          /\ UNCHANGED <<issued, batch, active, heldCounts, overCeiling>>
          /\ faults' = faults \/ Fault
      BY <1>2, UpdatePatches DEF ApproveWrite
    <2>2. store' \in [Runs -> RunState]
      <3>1. r \in Runs => [store[r] EXCEPT !.approvedBy = job[h].op] \in RunState
        <4>1. job[h].op \in Operators \cup {NoOne}  BY <1>t DEF Job
        <4>2. r \in Runs => store[r] \in RunState  BY <1>t DEF TypeOK
        <4> QED  BY <4>1, <4>2, PatchTypes
      <3> QED  BY <1>t, <2>1, <3>1, PatchesType DEF TypeOK
    <2> QED  BY <1>h, <1>t, <2>1, <2>2, FinishStep, TypeParts DEF TypeOK, issued
  <1>3. CASE ApprovalFails(h)
    <2>1. Fault /\ Finish(h) /\ UNCHANGED <<store, issued, batch, active, heldCounts, overCeiling>>
      BY <1>3 DEF ApprovalFails
    <2> QED  BY <1>h, <1>t, <2>1, FinishStep, TypeParts DEF TypeOK, issued
  <1> QED  BY <1>1, <1>2, <1>3 DEF Approve

LEMMA LeaseType ==
    ASSUME TypeOK, NEW h, NEW r \in Runs, TakeLease(h, r)
    PROVE  store' \in [Runs -> RunState]
  <1>1. store \in [Runs -> RunState] /\ store' = [store EXCEPT ![r] = Claimed(@)]
    BY DEF TypeOK, TakeLease
  <1> QED  BY <1>1, RecordTypes

\* What a successful claim does to the types, for a poll and for a worker.
LEMMA ClaimType ==
    ASSUME TypeInv, NEW h \in Handlers, NEW r \in Runs, NEW j, Sound(j),
           NEW t, Acquire(h, t) \/ active' = active, TakeLease(h, r),
           job' = [job EXCEPT ![h] = j]
    PROVE  /\ store' \in [Runs -> RunState]
           /\ active' \in [Processes -> [Tenants -> Nat]]
           /\ job' \in [Handlers -> Job] /\ WellFormed'
  <1>t. TypeOK  BY DEF TypeInv
  <1>1. store' \in [Runs -> RunState]  BY <1>t, LeaseType DEF TypeOK
  <1>2. active' \in [Processes -> [Tenants -> Nat]]  BY <1>t, AcquireType DEF TypeOK
  <1> QED  BY <1>1, <1>2, JobStep

LEMMA PollType ==
    ASSUME TypeInv, BookOK', NEW h \in Web, Poll(h) PROVE TypeInv'
  <1> DEFINE r == job[h].run
  <1>h. h \in Handlers  BY DEF Handlers
  <1>t. TypeOK /\ Sound(job[h]) /\ job[h] \in Job
    BY <1>h DEF TypeInv, WellFormed, Sound
  <1>1. ASSUME NEW q \in Runs, PollRead(h, q) PROVE TypeInv'
    <2> DEFINE j == [Idle EXCEPT !.pc = "polled", !.run = q, !.tenant = store[q].tenantId]
    <2>1. /\ job' = [job EXCEPT ![h] = j]
          /\ UNCHANGED <<store, issued, batch, active, heldCounts, env>>
      BY <1>1 DEF PollRead
    <2>2. store[q].tenantId \in Tenants  BY <1>t DEF TypeOK, RunState
    <2>3. Sound(j)  BY <2>2, IdleType DEF Sound, Idle, Job, PC, InSlot, Driving
    <2>4. job' \in [Handlers -> Job] /\ WellFormed'
      <3> HIDE DEF j
      <3> QED  BY <1>h, <2>1, <2>3, JobStep
    <2> QED  BY <1>t, <2>1, <2>4, TypeParts DEF TypeOK, issued, env
  <1>2. CASE PollCheck(h)
    <2> DEFINE j == [job[h] EXCEPT !.pc = "admitted"]
    <2>1. /\ UNCHANGED <<store, issued, batch, heldCounts, env>>
          /\ Acquire(h, job[h].tenant) \/ active' = active
      BY <1>2 DEF PollCheck
    <2>2. job' = [job EXCEPT ![h] = j] \/ Finish(h)  BY <1>2 DEF PollCheck, Goto
    <2>3. Sound(j)  BY <1>t, <1>2 DEF PollCheck, Sound, Job, PC, InSlot, Driving
    <2>4. job' \in [Handlers -> Job] /\ WellFormed'
      <3> HIDE DEF j
      <3> QED  BY <1>h, <2>2, <2>3, JobStep, FinishStep
    <2>5. active' \in [Processes -> [Tenants -> Nat]]
      BY <1>t, <2>1, AcquireType DEF TypeOK
    <2> QED  BY <1>t, <2>1, <2>4, <2>5, TypeParts DEF TypeOK, issued, env
  <1>3. CASE PollClaim(h)
    <2>1. UNCHANGED <<issued, batch, heldCounts, overCeiling>> /\ r \in Runs
      BY <1>t, <1>3 DEF PollClaim, Sound
    <2>2. /\ store' \in [Runs -> RunState]
          /\ active' \in [Processes -> [Tenants -> Nat]]
          /\ job' \in [Handlers -> Job] /\ WellFormed'
          /\ faults' = faults \/ Fault
      <3> DEFINE j == [job[h] EXCEPT !.pc = "driving", !.fresh = Lease]
      <3>1. \/ /\ UNCHANGED <<active, faults>> /\ TakeLease(h, r)
               /\ job' = [job EXCEPT ![h] = j]
            \/ /\ Finish(h) /\ Release(h) /\ UNCHANGED store
               /\ faults' = faults \/ Fault
        BY <1>3 DEF PollClaim, SlotGivenBack, LosesRace
      <3>l. Lease \in 0..Lease  OBVIOUS
      <3>2. Sound(j)  BY <3>l, <1>t, <1>3 DEF PollClaim, Sound, Job, PC, InSlot, Driving
      <3> HIDE DEF j
      <3>3. CASE Finish(h) /\ Release(h) /\ UNCHANGED store /\ (faults' = faults \/ Fault)
        BY <1>h, <1>t, <3>3, FinishStep, ReleaseType DEF TypeOK
      <3> QED  BY <1>h, <2>1, <3>1, <3>2, <3>3, ClaimType
    <2> QED  BY <1>t, <2>1, <2>2, TypeParts DEF TypeOK, issued
  <1>4. CASE PollClaimThrows(h)
    <2>1. /\ Fault /\ Finish(h) /\ (UNCHANGED store \/ TakeLease(h, r))
          /\ UNCHANGED <<issued, batch, active, heldCounts, overCeiling>> /\ r \in Runs
      BY <1>t, <1>4 DEF PollClaimThrows, Sound
    <2>2. store' \in [Runs -> RunState]  BY <1>t, <2>1, LeaseType DEF TypeOK
    <2> QED  BY <1>h, <1>t, <2>1, <2>2, FinishStep, TypeParts DEF TypeOK, issued
  <1> QED  BY <1>1, <1>2, <1>3, <1>4 DEF Poll

LEMMA WorkType ==
    ASSUME TypeInv, BookOK', NEW w \in Workers, Work(w) PROVE TypeInv'
  <1>h. w \in Handlers  BY DEF Handlers
  <1>t. TypeOK /\ Sound(job[w]) /\ job[w] \in Job
    BY <1>h DEF TypeInv, WellFormed, Sound
  <1>1. CASE WorkerList(w)
    <2>1. UNCHANGED <<store, issued, job, active, heldCounts, env>>
      BY <1>1 DEF WorkerList
    <2>2. batch' \in [Workers -> SUBSET Runs]
      <3>1. PICK some \in SUBSET Runs : batch' = [batch EXCEPT ![w] = some]
        BY <1>1 DEF WorkerList
      <3> QED  BY <1>t, <3>1 DEF TypeOK
    <2>3. WellFormed'  BY <2>1 DEF TypeInv, WellFormed
    <2> QED  BY <1>t, <2>1, <2>2, <2>3, TypeParts DEF TypeOK, issued, env
  <1>2. ASSUME NEW r \in Runs, WorkerClaim(w, r) PROVE TypeInv'
    <2> DEFINE j == [Idle EXCEPT !.pc = "driving", !.run = r,
                        !.tenant = store[r].tenantId, !.fresh = Lease]
    <2>1. UNCHANGED <<issued, heldCounts, env>>  BY <1>2 DEF WorkerClaim
    <2>2. batch' \in [Workers -> SUBSET Runs]  BY <1>t, <1>2 DEF WorkerClaim, TypeOK
    <2>3. /\ store' \in [Runs -> RunState]
          /\ active' \in [Processes -> [Tenants -> Nat]]
          /\ job' \in [Handlers -> Job] /\ WellFormed'
      <3>1. \/ UNCHANGED <<store, job, active>>
            \/ /\ TakeLease(w, r) /\ (Acquire(w, store[r].tenantId) \/ active' = active)
               /\ job' = [job EXCEPT ![w] = j] \/ UNCHANGED <<job, active>>
        BY <1>2 DEF WorkerClaim
      <3>2. store[r].tenantId \in Tenants  BY <1>t DEF TypeOK, RunState
      <3>l. Lease \in 0..Lease  OBVIOUS
      <3>3. Sound(j)  BY <3>l, <3>2, IdleType DEF Sound, Idle, Job, PC, InSlot, Driving
      <3> HIDE DEF j
      <3>4. CASE UNCHANGED <<job, active>>
        <4>1. store' \in [Runs -> RunState]  BY <1>t, <3>1, LeaseType DEF TypeOK
        <4> QED  BY <1>t, <3>4, <4>1 DEF TypeInv, TypeOK, WellFormed
      <3> QED  BY <1>h, <3>1, <3>3, <3>4, ClaimType
    <2> QED  BY <1>t, <2>1, <2>2, <2>3, TypeParts DEF TypeOK, issued, env
  <1>3. ASSUME NEW r \in Runs, WorkerClaimFails(w, r) PROVE TypeInv'
    <2>1. /\ Fault /\ (UNCHANGED store \/ TakeLease(w, r))
          /\ UNCHANGED <<issued, job, active, heldCounts, overCeiling>>
      BY <1>3 DEF WorkerClaimFails
    <2>2. batch' \in [Workers -> SUBSET Runs]  BY <1>t, <1>3 DEF WorkerClaimFails, TypeOK
    <2>3. store' \in [Runs -> RunState]  BY <1>t, <2>1, LeaseType DEF TypeOK
    <2>4. WellFormed'  BY <2>1 DEF TypeInv, WellFormed
    <2> QED  BY <1>t, <2>1, <2>2, <2>3, <2>4, TypeParts DEF TypeOK, issued
  <1> QED  BY <1>1, <1>2, <1>3 DEF Work

LEMMA DriveType ==
    ASSUME TypeInv, BookOK', NEW h \in Handlers, Drive(h) PROVE TypeInv'
  <1> DEFINE r == job[h].run
  <1>t. TypeOK /\ Sound(job[h]) /\ job[h] \in Job
    BY DEF TypeInv, WellFormed, Sound
  <1>r. job[h].pc # "idle" => r \in Runs /\ store[r] \in RunState
    BY <1>t DEF TypeOK, Sound
  <1>s. RunStatus = {"running", "held", "complete", "failed"}  BY DEF RunStatus
  <1>d. job[h].pc \in {"driving", "failing"} =>
           \A pc \in {"failing", "driven"} : Sound([job[h] EXCEPT !.pc = pc])
    BY <1>t DEF Sound, Job, PC, InSlot, Driving
  <1>1. CASE StageRead(h)
    <2> DEFINE j1 == [job[h] EXCEPT !.pc = "stageRead", !.copy = store[r].stages]
               j2 == [job[h] EXCEPT !.stage = job[h].stage + 1]
    <2>1. /\ job[h].pc = "driving" /\ job[h].stage <= Stages
          /\ UNCHANGED <<store, issued, batch, active, heldCounts, env>>
      BY <1>1 DEF StageRead
    <2>2. job' = [job EXCEPT ![h] = j1] \/ job' = [job EXCEPT ![h] = j2]
      BY <1>1 DEF StageRead
    <2>3. store[r].stages \in Seq(1..Stages)  BY <1>r, <2>1 DEF RunState
    <2>4. Sound(j1)  BY <1>t, <2>1, <2>3 DEF Sound, Job, PC, InSlot, Driving
    <2>5. job[h].stage \in 1..(Stages + 1)  BY <1>t DEF Job
    <2>6. job[h].stage + 1 \in 1..(Stages + 1)  BY <2>1, <2>5
    <2>7. Sound(j2)  BY <1>t, <2>1, <2>6 DEF Sound, Job
    <2>8. job' \in [Handlers -> Job] /\ WellFormed'
      <3> HIDE DEF j1, j2
      <3> QED  BY <2>2, <2>4, <2>7, JobStep
    <2> QED  BY <1>t, <2>1, <2>8, TypeParts DEF TypeOK, issued, env
  <1>2. CASE StageWrite(h)
    <2> DEFINE st == Append(job[h].copy, job[h].stage)
               n  == job[h].stage + 1
               j  == [job[h] EXCEPT !.pc = "driving", !.copy = <<>>, !.stage = n]
    <2>1. /\ job[h].pc = "stageRead"
          /\ UNCHANGED <<issued, batch, active, heldCounts, overCeiling>>
          /\ faults' = faults \/ Fault
          /\ Patches(r, [store[r] EXCEPT !.stages = st])
          /\ job' = [job EXCEPT ![h] = j]
      BY <1>2, UpdatePatches DEF StageWrite
    <2>2. job[h].stage \in 1..(Stages + 1) /\ job[h].stage <= Stages
      BY <1>t, <2>1 DEF Job, Sound
    <2>3. job[h].copy \in Seq(1..Stages) /\ job[h].stage \in 1..Stages  BY <1>t, <2>2 DEF Job
    <2>4. st \in Seq(1..Stages)  BY <2>3
    <2>5. n \in 1..(Stages + 1)  BY <2>2
    <2>6. store' \in [Runs -> RunState]
      <3> HIDE DEF st
      <3> QED  BY <1>t, <1>r, <2>1, <2>4, PatchTypes, PatchesType DEF TypeOK
    <2>7. Sound(j)
      <3>1. <<>> \in Seq(1..Stages)  OBVIOUS
      <3> HIDE DEF n
      <3> QED  BY <1>t, <2>1, <2>5, <3>1 DEF Sound, Job, PC, InSlot, Driving
    <2>8. job' \in [Handlers -> Job] /\ WellFormed'
      <3> HIDE DEF j
      <3> QED  BY <2>1, <2>7, JobStep
    <2> QED  BY <1>t, <2>1, <2>6, <2>8, TypeParts DEF TypeOK, issued
  <1>3. CASE DriveComplete(h) \/ CompleteUnanswered(h)
    <2> DEFINE a == IF store[r].tool = "pipeline" THEN job[h].stage - 1 ELSE 1
    <2>1. /\ job[h].pc = "driving"
          /\ UNCHANGED <<issued, batch, active, heldCounts, overCeiling>>
          /\ faults' = faults \/ Fault
          /\ Patches(r, [store[r] EXCEPT !.status = "complete", !.artifact = a])
          /\ \E pc \in {"failing", "driven"} : job' = [job EXCEPT ![h] = [job[h] EXCEPT !.pc = pc]]
      <3>1. Compiled(h) = [store[r] EXCEPT !.status = "complete", !.artifact = a]
        BY DEF Compiled, Sections
      <3>2. CASE DriveComplete(h)
        BY <3>1, <3>2, UpdatePatches DEF DriveComplete, MayComplete, Goto
      <3>3. CASE CompleteUnanswered(h)
        BY <3>1, <3>3 DEF CompleteUnanswered, MayComplete, Goto, Patches
      <3> QED  BY <1>3, <3>2, <3>3
    <2>2. a \in 0..Stages
      <3>1. job[h].stage \in 1..(Stages + 1)  BY <1>t DEF Job
      <3> QED  BY <3>1
    <2>3. store' \in [Runs -> RunState]
      <3> HIDE DEF a
      <3> QED  BY <1>t, <1>r, <1>s, <2>1, <2>2, PatchTypes, PatchesType DEF TypeOK
    <2>4. job' \in [Handlers -> Job] /\ WellFormed'
      <3>1. PICK pc \in {"failing", "driven"} : job' = [job EXCEPT ![h] = [job[h] EXCEPT !.pc = pc]]
        BY <2>1
      <3>2. Sound([job[h] EXCEPT !.pc = pc])  BY <1>d, <2>1
      <3> QED  BY <3>1, <3>2, JobStep
    <2> QED  BY <1>t, <2>1, <2>3, <2>4, TypeParts DEF TypeOK, issued
  <1>4. CASE DriveFails(h)
    <2>1. /\ job[h].pc \in {"driving", "failing"}
          /\ UNCHANGED <<issued, batch, active, heldCounts, overCeiling>>
          /\ faults' = faults \/ Fault
          /\ Patches(r, [store[r] EXCEPT !.status = "failed"])
          /\ job' = [job EXCEPT ![h] = [job[h] EXCEPT !.pc = "driven"]]
      BY <1>4, UpdatePatches DEF DriveFails, Goto
    <2>2. store' \in [Runs -> RunState]
      BY <1>t, <1>r, <1>s, <2>1, PatchTypes, PatchesType DEF TypeOK
    <2>3. job' \in [Handlers -> Job] /\ WellFormed'  BY <1>d, <2>1, JobStep
    <2> QED  BY <1>t, <2>1, <2>2, <2>3, TypeParts DEF TypeOK, issued
  <1>5. CASE DriveThrows(h)
    <2>1. /\ UNCHANGED faults \/ Fault
          /\ Release(h) /\ Finish(h)
          /\ UNCHANGED <<store, issued, batch, heldCounts, overCeiling>>
      BY <1>5 DEF DriveThrows
    <2> QED  BY <1>t, <2>1, FinishStep, ReleaseType, TypeParts DEF TypeOK, issued
  <1>6. CASE DriveReturn(h)
    <2> DEFINE p == ProcessOf(h)
               t == job[h].tenant
               v == IF heldCounts[p][t] <= 1 THEN 0 ELSE heldCounts[p][t] - 1
    <2>1. Release(h) /\ Finish(h) /\ UNCHANGED <<store, issued, batch, env>>
      BY <1>6 DEF DriveReturn
    <2>2. heldCounts' = [heldCounts EXCEPT ![p][t] = v]  BY <1>6 DEF DriveReturn, DecrementHeld
    <2>3. p \in Processes /\ t \in Tenants => v \in Nat
      <3>1. p \in Processes /\ t \in Tenants => heldCounts[p][t] \in Nat  BY <1>t DEF TypeOK
      <3> QED  BY <3>1
    <2>4. heldCounts' \in [Processes -> [Tenants -> Nat]]
      <3> HIDE DEF v
      <3> QED  BY <1>t, <2>2, <2>3, CountersType DEF TypeOK
    <2> QED  BY <1>t, <2>1, <2>4, FinishStep, ReleaseType, TypeParts DEF TypeOK, issued, env
  <1> QED  BY <1>1, <1>2, <1>3, <1>4, <1>5, <1>6 DEF Drive

LEMMA EnvironmentType ==
    ASSUME TypeInv, BookOK', Environment PROVE TypeInv'
  <1>t. TypeOK /\ WellFormed  BY DEF TypeInv
  <1>e. \A n \in 0..Lease : Elapse(n) \in 0..Lease  BY DEF Elapse
  <1>1. CASE Tick
    <2>1. store' \in [Runs -> RunState]
      <3>1. ASSUME NEW q \in Runs PROVE [store[q] EXCEPT !.lease = Elapse(@)] \in RunState
        <4>1. store[q] \in RunState /\ Elapse(store[q].lease) \in 0..Lease
          BY <1>t, <1>e DEF TypeOK, RunState
        <4> QED  BY <4>1, PatchTypes
      <3> QED  BY <1>1, <3>1 DEF Tick
    <2>2. ASSUME NEW g \in Handlers PROVE Sound([job[g] EXCEPT !.fresh = Elapse(@)])
      <3>1. Sound(job[g])  BY <1>t DEF WellFormed
      <3>2. Elapse(job[g].fresh) \in 0..Lease  BY <1>e, <3>1 DEF Sound, Job
      <3> QED  BY <3>1, <3>2 DEF Sound, Job
    <2>3. job' \in [Handlers -> Job]  BY <1>1, <2>2 DEF Tick, Sound
    <2>4. WellFormed'  BY <1>1, <2>2 DEF Tick, WellFormed
    <2>5. UNCHANGED <<issued, batch, active, heldCounts, env>>  BY <1>1 DEF Tick
    <2> QED  BY <1>t, <2>1, <2>3, <2>4, <2>5, TypeParts DEF TypeOK, issued, env
  <1>2. CASE SpendReachesCeiling
    <2>1. Fault /\ UNCHANGED <<store, issued, job, batch, active, heldCounts>>
      BY <1>2 DEF SpendReachesCeiling
    <2>2. overCeiling' \in BOOLEAN  BY <1>2, Zenon DEF SpendReachesCeiling
    <2>3. WellFormed'  BY <1>t, <2>1 DEF WellFormed
    <2> QED  BY <1>t, <2>1, <2>2, <2>3, TypeParts DEF TypeOK, issued
  <1>3. CASE NewMonth
    <2>1. UNCHANGED <<store, issued, job, batch, active, heldCounts, faults>>
      BY <1>3 DEF NewMonth
    <2>2. overCeiling' \in BOOLEAN  BY <1>3, Zenon DEF NewMonth
    <2>3. WellFormed'  BY <1>t, <2>1 DEF WellFormed
    <2> QED  BY <1>t, <2>1, <2>2, <2>3, TypeParts DEF TypeOK, issued
  <1>4. ASSUME NEW p \in Processes, Crash(p) PROVE TypeInv'
    <2>1. Fault /\ UNCHANGED <<store, issued, overCeiling>>  BY <1>4 DEF Crash
    <2>2. /\ job' \in [Handlers -> Job] /\ WellFormed'
      BY <1>t, <1>4, IdleType DEF Crash, TypeOK, WellFormed
    <2>3. batch' \in [Workers -> SUBSET Runs]  BY <1>t, <1>4 DEF Crash, TypeOK
    <2>4. /\ active' \in [Processes -> [Tenants -> Nat]]
          /\ heldCounts' \in [Processes -> [Tenants -> Nat]]
      BY <1>t, <1>4 DEF Crash, TypeOK
    <2> QED  BY <1>t, <2>1, <2>2, <2>3, <2>4, TypeParts DEF TypeOK, issued
  <1>5. ASSUME NEW q \in Runs, Expire(q) PROVE TypeInv'
    <2>1. UNCHANGED <<issued, job, batch, active, heldCounts, env>>  BY <1>5 DEF Expire
    <2>2. store' \in [Runs -> RunState]  BY <1>t, <1>5, RecordTypes DEF Expire, TypeOK
    <2>3. WellFormed'  BY <1>t, <2>1 DEF WellFormed
    <2> QED  BY <1>t, <2>1, <2>2, <2>3, TypeParts DEF TypeOK, issued, env
  <1> QED  BY <1>1, <1>2, <1>3, <1>4, <1>5 DEF Environment

LEMMA TypeStep == TypeInv /\ [Next]_vars => TypeInv'
  <1> SUFFICES ASSUME TypeInv, [Next]_vars PROVE TypeInv'  OBVIOUS
  <1>1. CASE UNCHANGED vars  BY <1>1 DEF vars, TypeInv, TypeOK, WellFormed
  <1>2. CASE Next
    <2>1. BookOK'
      BY <1>2, BookStart, BookPoll, BookDrive, BookEnvironment DEF Next, Handlers
    <2> QED  BY <1>2, <2>1, StartType, ApproveType, PollType, WorkType, DriveType,
                EnvironmentType DEF Next
  <1> QED  BY <1>1, <1>2

\* Every reachable state is well typed, in every deployment.
THEOREM TypeCorrect == Spec => []TypeOK
  <1>1. TypeInv => TypeOK  BY DEF TypeInv
  <1> QED  BY <1>1, TypeInit, TypeStep, PTL DEF Spec
-----------------------------------------------------------------------------
(* The quota: every slot that was acquired is held by one handler, or leaked. *)

\* The handlers that hold a slot of process p for tenant t.
SlotsOf(p, t) ==
    {h \in Handlers : ProcessOf(h) = p /\ job[h].tenant = t /\ job[h].pc \in InSlot}

\* QuotaBalanced, and that its cardinality is the one of a finite set: there
\* may be any number of handlers, but each slot was acquired by a step.
QuotaInv ==
    \A p \in Processes, t \in Tenants :
        /\ IsFiniteSet(SlotsOf(p, t))
        /\ active[p][t] = leaked[p][t] + Cardinality(SlotsOf(p, t))

LEMMA QuotaInit == Init => QuotaInv
  <1> SUFFICES ASSUME Init, NEW p \in Processes, NEW t \in Tenants
               PROVE  /\ IsFiniteSet(SlotsOf(p, t))
                      /\ active[p][t] = leaked[p][t] + Cardinality(SlotsOf(p, t))
    BY DEF QuotaInv
  <1>1. SlotsOf(p, t) = {}  BY DEF Init, SlotsOf, Idle, InSlot, Driving
  <1>2. active[p][t] = 0 /\ leaked[p][t] = 0  BY DEF Init
  <1> QED  BY <1>1, <1>2, FS_EmptySet

\* Nobody takes or leaves a slot.
LEMMA QuotaKeep ==
    ASSUME QuotaInv, active' = active, leaked' = leaked,
           \A g \in Handlers : /\ job'[g].pc \in InSlot <=> job[g].pc \in InSlot
                               /\ job[g].pc \in InSlot => job'[g].tenant = job[g].tenant
    PROVE  QuotaInv'
  <1>1. ASSUME NEW p \in Processes, NEW t \in Tenants
        PROVE  SlotsOf(p, t)' = SlotsOf(p, t)
    BY DEF SlotsOf
  <1> QED  BY <1>1 DEF QuotaInv

LEMMA QuotaMove ==
    ASSUME TypeInv, QuotaInv, active' = active, leaked' = leaked, NEW h \in Handlers, NEW j,
           job' = [job EXCEPT ![h] = j],
           j.pc \in InSlot <=> job[h].pc \in InSlot,
           job[h].pc \in InSlot => j.tenant = job[h].tenant
    PROVE  QuotaInv'
  <1>1. \A g \in Handlers : job'[g] = IF g = h THEN j ELSE job[g]  BY DEF TypeInv, TypeOK
  <1> QED  BY <1>1, QuotaKeep

\* A handler takes a slot ...
LEMMA QuotaTake ==
    ASSUME TypeInv, QuotaInv, NEW h \in Handlers, job[h].pc \notin InSlot,
           NEW j, job' = [job EXCEPT ![h] = j], j.pc \in InSlot,
           NEW u \in Tenants, j.tenant = u, Acquire(h, u), leaked' = leaked
    PROVE  QuotaInv'
  <1> SUFFICES ASSUME NEW p \in Processes, NEW t \in Tenants
               PROVE  /\ IsFiniteSet(SlotsOf(p, t)')
                      /\ active'[p][t] = leaked'[p][t] + Cardinality(SlotsOf(p, t)')
    BY DEF QuotaInv
  <1>0. ProcessOf(h) \in Processes  BY DEF ProcessOf, Processes, Handlers
  <1>1. \A g \in Handlers : job'[g] = IF g = h THEN j ELSE job[g]  BY DEF TypeInv, TypeOK
  <1>2. active'[p][t] = IF p = ProcessOf(h) /\ t = u THEN active[p][t] + 1 ELSE active[p][t]
    BY <1>0 DEF Acquire, TypeInv, TypeOK
  <1>3. /\ IsFiniteSet(SlotsOf(p, t))
        /\ active[p][t] = leaked[p][t] + Cardinality(SlotsOf(p, t))
        /\ leaked[p][t] \in Nat /\ Cardinality(SlotsOf(p, t)) \in Nat
    BY FS_CardinalityType DEF QuotaInv, TypeInv, TypeOK
  <1>4. CASE p = ProcessOf(h) /\ t = u
    <2>1. SlotsOf(p, t)' = SlotsOf(p, t) \cup {h} /\ h \notin SlotsOf(p, t)
      BY <1>1, <1>4 DEF SlotsOf
    <2>2. /\ IsFiniteSet(SlotsOf(p, t) \cup {h})
          /\ Cardinality(SlotsOf(p, t) \cup {h}) = Cardinality(SlotsOf(p, t)) + 1
      <3>1. IsFiniteSet(SlotsOf(p, t)) /\ h \notin SlotsOf(p, t)  BY <1>3, <2>1
      <3> QED  BY <3>1, FS_AddElement
    <2> QED  BY <1>2, <1>3, <1>4, <2>1, <2>2
  <1>5. CASE ~(p = ProcessOf(h) /\ t = u)
    <2>1. SlotsOf(p, t)' = SlotsOf(p, t)  BY <1>1, <1>5 DEF SlotsOf
    <2> QED  BY <1>2, <1>3, <1>5, <2>1
  <1> QED  BY <1>4, <1>5

\* ... and gives it back, as the tenant it took it for.
LEMMA QuotaLeave ==
    ASSUME TypeInv, QuotaInv, NEW h \in Handlers, job[h].pc \in InSlot, Finish(h), Release(h),
           leaked' = leaked
    PROVE  QuotaInv'
  <1> SUFFICES ASSUME NEW p \in Processes, NEW t \in Tenants
               PROVE  /\ IsFiniteSet(SlotsOf(p, t)')
                      /\ active'[p][t] = leaked'[p][t] + Cardinality(SlotsOf(p, t)')
    BY DEF QuotaInv
  <1> DEFINE u == job[h].tenant
  <1>0. ProcessOf(h) \in Processes /\ u \in Tenants
    BY DEF ProcessOf, Processes, Handlers, TypeInv, WellFormed, Sound
  <1>1. \A g \in Handlers : job'[g] = IF g = h THEN Idle ELSE job[g]
    BY DEF TypeInv, TypeOK, Finish
  <1>2. /\ p = ProcessOf(h) /\ t = u =>
              active'[p][t] = IF active[p][t] = 0 THEN 0 ELSE active[p][t] - 1
        /\ ~(p = ProcessOf(h) /\ t = u) => active'[p][t] = active[p][t]
    BY <1>0 DEF Release, TypeInv, TypeOK
  <1>3. /\ IsFiniteSet(SlotsOf(p, t))
        /\ active[p][t] = leaked[p][t] + Cardinality(SlotsOf(p, t))
        /\ leaked[p][t] \in Nat /\ Cardinality(SlotsOf(p, t)) \in Nat
    BY FS_CardinalityType DEF QuotaInv, TypeInv, TypeOK
  <1>i. Idle.pc \notin InSlot  BY DEF Idle, InSlot, Driving
  <1>4. CASE p = ProcessOf(h) /\ t = u
    <2>1. SlotsOf(p, t)' = SlotsOf(p, t) \ {h} /\ h \in SlotsOf(p, t)
      BY <1>1, <1>4, <1>i DEF SlotsOf
    <2>2. /\ IsFiniteSet(SlotsOf(p, t) \ {h})
          /\ Cardinality(SlotsOf(p, t) \ {h}) = Cardinality(SlotsOf(p, t)) - 1
      BY <1>3, <2>1, FS_RemoveElement
    <2>3. Cardinality(SlotsOf(p, t)) # 0  BY <1>3, <2>1, FS_EmptySet
    <2> HIDE DEF u
    <2> QED  BY <1>2, <1>3, <1>4, <2>1, <2>2, <2>3
  <1>5. CASE ~(p = ProcessOf(h) /\ t = u)
    <2>1. SlotsOf(p, t)' = SlotsOf(p, t)  BY <1>1, <1>5, <1>i DEF SlotsOf
    <2> QED  BY <1>2, <1>3, <1>5, <2>1
  <1> QED  BY <1>4, <1>5

\* A slot that nobody will give back is counted as such from then on.
LEMMA QuotaLeak ==
    ASSUME TypeInv, QuotaInv, NEW h \in Handlers, job[h].pc \in InSlot, Finish(h),
           active' = active, leaked' = [leaked EXCEPT ![ProcessOf(h)][job[h].tenant] = @ + 1]
    PROVE  QuotaInv'
  <1> SUFFICES ASSUME NEW p \in Processes, NEW t \in Tenants
               PROVE  /\ IsFiniteSet(SlotsOf(p, t)')
                      /\ active'[p][t] = leaked'[p][t] + Cardinality(SlotsOf(p, t)')
    BY DEF QuotaInv
  <1> DEFINE u == job[h].tenant
  <1>0. ProcessOf(h) \in Processes /\ u \in Tenants
    BY DEF ProcessOf, Processes, Handlers, TypeInv, WellFormed, Sound
  <1>1. \A g \in Handlers : job'[g] = IF g = h THEN Idle ELSE job[g]
    BY DEF TypeInv, TypeOK, Finish
  <1>2. /\ p = ProcessOf(h) /\ t = u => leaked'[p][t] = leaked[p][t] + 1
        /\ ~(p = ProcessOf(h) /\ t = u) => leaked'[p][t] = leaked[p][t]
    BY <1>0 DEF TypeInv, TypeOK
  <1>3. /\ IsFiniteSet(SlotsOf(p, t))
        /\ active[p][t] = leaked[p][t] + Cardinality(SlotsOf(p, t))
        /\ leaked[p][t] \in Nat /\ Cardinality(SlotsOf(p, t)) \in Nat
    BY FS_CardinalityType DEF QuotaInv, TypeInv, TypeOK
  <1>i. Idle.pc \notin InSlot  BY DEF Idle, InSlot, Driving
  <1>4. CASE p = ProcessOf(h) /\ t = u
    <2>1. SlotsOf(p, t)' = SlotsOf(p, t) \ {h} /\ h \in SlotsOf(p, t)
      BY <1>1, <1>4, <1>i DEF SlotsOf
    <2>2. /\ IsFiniteSet(SlotsOf(p, t) \ {h})
          /\ Cardinality(SlotsOf(p, t) \ {h}) = Cardinality(SlotsOf(p, t)) - 1
      BY <1>3, <2>1, FS_RemoveElement
    <2> HIDE DEF u
    <2> QED  BY <1>2, <1>3, <1>4, <2>1, <2>2
  <1>5. CASE ~(p = ProcessOf(h) /\ t = u)
    <2>1. SlotsOf(p, t)' = SlotsOf(p, t)  BY <1>1, <1>5, <1>i DEF SlotsOf
    <2> QED  BY <1>2, <1>3, <1>5, <2>1
  <1> QED  BY <1>4, <1>5

LEMMA QuotaStart ==
    ASSUME TypeInv, QuotaInv, NEW h \in Handlers, Start(h)
    PROVE  QuotaInv'
  <1> USE DEF InSlot, Driving
  <1>j. job[h] \in Job  BY DEF TypeInv, TypeOK
  <1>1. ASSUME NEW t \in Tenants, NEW q \in Runs, NEW req \in Requests, Call(h, t, q, req)
        PROVE  QuotaInv'
    <2> DEFINE kind == CASE req.tool = "pipeline"            -> "created"
                         [] req.tool = "single" /\ req.hold  -> "syncHeld"
                         [] req.tool = "single" /\ ~req.hold -> "dispatching"
               n    == IF req.tool = "pipeline" /\ req.hold
                       THEN heldCounts[ProcessOf(h)][t] ELSE 0
               j    == [Idle EXCEPT !.pc = kind, !.run = q, !.tenant = t, !.held = n]
    <2>1. /\ job[h].pc = "idle" /\ Acquire(h, t) /\ leaked' = leaked
          /\ job' = [job EXCEPT ![h] = j]
      BY <1>1 DEF Call, history
    <2>2. kind \in {"created", "syncHeld", "dispatching"}  BY DEF ToolKind
    <2>3. j.pc \in InSlot /\ j.tenant = t
      <3> HIDE DEF kind, n
      <3> QED  BY <2>2 DEF Idle
    <2> HIDE DEF j
    <2> QED  BY <2>1, <2>3, QuotaTake
  <1>2. CASE PersistStart(h)
    <2> DEFINE j == [job[h] EXCEPT !.pc = "persisted"]
    <2>1. /\ job[h].pc = "created" /\ active' = active /\ leaked' = leaked
          /\ job' = [job EXCEPT ![h] = j]
      BY <1>2 DEF PersistStart, Goto, history
    <2>2. j.pc = "persisted" /\ j.tenant = job[h].tenant  BY <1>j DEF Job
    <2> HIDE DEF j
    <2> QED  BY <2>1, <2>2, QuotaMove
  <1>3. CASE ReturnStart(h) \/ PersistSyncHold(h) \/ FinishSync(h) \/ StartFails(h)
    <2>1. job[h].pc \in InSlot /\ Finish(h) /\ Release(h) /\ leaked' = leaked
      BY <1>3 DEF ReturnStart, PersistSyncHold, FinishSync, StartFails, history
    <2> QED  BY <2>1, QuotaLeave
  <1> QED  BY <1>1, <1>2, <1>3 DEF Start

\* A handler that holds no slot goes on without one.
LEMMA QuotaOutside ==
    ASSUME TypeInv, QuotaInv, active' = active, NEW h \in Handlers, NEW j,
           leaked' = leaked,
           job' = [job EXCEPT ![h] = j], job[h].pc \notin InSlot, j.pc \notin InSlot
    PROVE  QuotaInv'
  BY QuotaMove

LEMMA QuotaPoll ==
    ASSUME TypeInv, QuotaInv, NEW h \in Handlers, Approve(h) \/ Poll(h)
    PROVE  QuotaInv'
  <1> USE DEF InSlot, Driving
  <1>j. job[h] \in Job  BY DEF TypeInv, TypeOK
  <1>i. Idle.pc = "idle"  BY DEF Idle
  <1>1. ASSUME NEW op \in Operators, NEW q \in Runs, ApproveRead(h, op, q) PROVE QuotaInv'
    <2> DEFINE j == [Idle EXCEPT !.pc = "approving", !.run = q, !.op = op]
    <2>1. /\ job[h].pc = "idle" /\ active' = active /\ leaked' = leaked
          /\ job' = [job EXCEPT ![h] = j]
      BY <1>1 DEF ApproveRead, history
    <2>2. j.pc = "approving"  BY DEF Idle
    <2> HIDE DEF j
    <2> QED  BY <2>1, <2>2, QuotaOutside
  <1>2. CASE ApproveWrite(h) \/ ApprovalFails(h)
    <2>1. /\ job[h].pc \in {"approving", "polled"} /\ active' = active /\ leaked' = leaked
          /\ job' = [job EXCEPT ![h] = Idle]
      BY <1>2 DEF ApproveWrite, ApprovalFails, Finish, history
    <2> QED  BY <1>i, <2>1, QuotaOutside
  <1>3. ASSUME NEW q \in Runs, PollRead(h, q) PROVE QuotaInv'
    <2> DEFINE j == [Idle EXCEPT !.pc = "polled", !.run = q, !.tenant = store[q].tenantId]
    <2>1. /\ job[h].pc = "idle" /\ active' = active /\ leaked' = leaked
          /\ job' = [job EXCEPT ![h] = j]
      BY <1>3 DEF PollRead, history
    <2>2. j.pc = "polled"  BY DEF Idle
    <2> HIDE DEF j
    <2> QED  BY <2>1, <2>2, QuotaOutside
  <1>4. CASE PollCheck(h)
    <2> DEFINE j == [job[h] EXCEPT !.pc = "admitted"]
    <2>1. /\ job[h].pc = "polled" /\ leaked' = leaked
          /\ \/ Acquire(h, job[h].tenant) /\ job' = [job EXCEPT ![h] = j]
             \/ active' = active /\ job' = [job EXCEPT ![h] = Idle]
      BY <1>4 DEF PollCheck, Goto, Finish, history
    <2>2. j.pc = "admitted" /\ j.tenant = job[h].tenant  BY <1>j DEF Job
    <2>3. job[h].tenant \in Tenants  BY <2>1 DEF TypeInv, WellFormed, Sound
    <2> HIDE DEF j
    <2>4. CASE Acquire(h, job[h].tenant) /\ job' = [job EXCEPT ![h] = j]
      BY <2>1, <2>2, <2>3, <2>4, QuotaTake
    <2>5. CASE active' = active /\ job' = [job EXCEPT ![h] = Idle]
      BY <1>i, <2>1, <2>5, QuotaOutside
    <2> QED  BY <2>1, <2>4, <2>5
  <1>5. CASE PollClaim(h)
    <2> DEFINE j == [job[h] EXCEPT !.pc = "driving", !.fresh = Lease]
    <2>1. /\ job[h].pc = "admitted" /\ leaked' = leaked
          /\ \/ active' = active /\ job' = [job EXCEPT ![h] = j]
             \/ Release(h) /\ Finish(h)
      BY <1>5 DEF PollClaim, SlotGivenBack, history
    <2>2. j.pc = "driving" /\ j.tenant = job[h].tenant  BY <1>j DEF Job
    <2> HIDE DEF j
    <2>3. CASE active' = active /\ job' = [job EXCEPT ![h] = j]
      BY <2>1, <2>2, <2>3, QuotaMove
    <2>4. CASE Release(h) /\ Finish(h)  BY <2>1, <2>4, QuotaLeave
    <2> QED  BY <2>1, <2>3, <2>4
  <1>6. CASE PollClaimThrows(h)
    <2>1. /\ job[h].pc \in InSlot /\ Finish(h) /\ active' = active
          /\ leaked' = [leaked EXCEPT ![ProcessOf(h)][job[h].tenant] = @ + 1]
      BY <1>6 DEF PollClaimThrows
    <2> QED  BY <2>1, QuotaLeak
  <1> QED  BY <1>1, <1>2, <1>3, <1>4, <1>5, <1>6 DEF Approve, Poll

LEMMA QuotaWork ==
    ASSUME TypeInv, QuotaInv, NEW w \in Workers, Work(w)
    PROVE  QuotaInv'
  <1>h. w \in Handlers  BY DEF Handlers
  <1>1. CASE WorkerList(w)
    <2>1. active' = active /\ leaked' = leaked /\ job' = job  BY <1>1 DEF WorkerList, history
    <2> QED  BY <2>1, QuotaKeep
  <1>2. ASSUME NEW q \in Runs, WorkerClaim(w, q) PROVE QuotaInv'
    <2> DEFINE j == [Idle EXCEPT !.pc = "driving", !.run = q,
                        !.tenant = store[q].tenantId, !.fresh = Lease]
    <2>1. /\ job[w].pc = "idle" /\ leaked' = leaked
          /\ \/ active' = active /\ job' = job
             \/ Acquire(w, store[q].tenantId) /\ job' = [job EXCEPT ![w] = j]
      BY <1>2 DEF WorkerClaim, history
    <2>2. CASE active' = active /\ job' = job  BY <2>1, <2>2, QuotaKeep
    <2>3. CASE Acquire(w, store[q].tenantId) /\ job' = [job EXCEPT ![w] = j]
      <3>1. j.pc = "driving" /\ j.tenant = store[q].tenantId  BY DEF Idle
      <3>2. store[q].tenantId \in Tenants  BY DEF TypeInv, TypeOK, RunState
      <3>3. job[w].pc \notin InSlot /\ j.pc \in InSlot  BY <2>1, <3>1 DEF InSlot, Driving
      <3> HIDE DEF j
      <3> QED  BY <1>h, <2>1, <2>3, <3>1, <3>2, <3>3, QuotaTake
    <2> QED  BY <2>1, <2>2, <2>3
  <1>3. ASSUME NEW q \in Runs, WorkerClaimFails(w, q) PROVE QuotaInv'
    <2>1. active' = active /\ leaked' = leaked /\ job' = job
      BY <1>3 DEF WorkerClaimFails, history
    <2> QED  BY <2>1, QuotaKeep
  <1> QED  BY <1>1, <1>2, <1>3 DEF Work

LEMMA QuotaDrive ==
    ASSUME TypeInv, QuotaInv, NEW h \in Handlers, Drive(h)
    PROVE  QuotaInv'
  <1> USE DEF InSlot, Driving
  <1>j. job[h] \in Job  BY DEF TypeInv, TypeOK
  <1>1. CASE StageRead(h)
    <2> DEFINE j1 == [job[h] EXCEPT !.pc = "stageRead", !.copy = store[job[h].run].stages]
               j2 == [job[h] EXCEPT !.stage = job[h].stage + 1]
    <2>1. /\ job[h].pc = "driving" /\ active' = active /\ leaked' = leaked
          /\ job' = [job EXCEPT ![h] = j1] \/ job' = [job EXCEPT ![h] = j2]
      BY <1>1 DEF StageRead, history
    <2>2. /\ j1.pc = "stageRead" /\ j1.tenant = job[h].tenant
          /\ j2.pc = job[h].pc /\ j2.tenant = job[h].tenant
      BY <1>j DEF Job
    <2> HIDE DEF j1, j2
    <2>3. CASE job' = [job EXCEPT ![h] = j1]  BY <2>1, <2>2, <2>3, QuotaMove
    <2>4. CASE job' = [job EXCEPT ![h] = j2]  BY <2>1, <2>2, <2>4, QuotaMove
    <2> QED  BY <2>1, <2>3, <2>4
  <1>2. CASE StageWrite(h)
    <2> DEFINE j == [job[h] EXCEPT !.pc = "driving", !.copy = <<>>, !.stage = job[h].stage + 1]
    <2>1. /\ job[h].pc = "stageRead" /\ active' = active /\ leaked' = leaked
          /\ job' = [job EXCEPT ![h] = j]
      BY <1>2 DEF StageWrite, history
    <2>2. j.pc = "driving" /\ j.tenant = job[h].tenant  BY <1>j DEF Job
    <2> HIDE DEF j
    <2> QED  BY <2>1, <2>2, QuotaMove
  <1>3. CASE DriveComplete(h) \/ CompleteUnanswered(h) \/ DriveFails(h)
    <2> DEFINE j(pc) == [job[h] EXCEPT !.pc = pc]
    <2>1. /\ job[h].pc \in {"driving", "failing"} /\ active' = active /\ leaked' = leaked
          /\ \E pc \in {"failing", "driven"} : job' = [job EXCEPT ![h] = j(pc)]
      BY <1>3 DEF DriveComplete, CompleteUnanswered, DriveFails, MayComplete, Goto, history
    <2>2. \A pc \in {"failing", "driven"} : j(pc).pc = pc /\ j(pc).tenant = job[h].tenant
      BY <1>j DEF Job
    <2>3. PICK pc \in {"failing", "driven"} : job' = [job EXCEPT ![h] = j(pc)]  BY <2>1
    <2> HIDE DEF j
    <2> QED  BY <2>1, <2>2, <2>3, QuotaMove
  <1>4. CASE DriveThrows(h) \/ DriveReturn(h)
    <2>1. job[h].pc \in InSlot /\ Finish(h) /\ Release(h) /\ leaked' = leaked
      BY <1>4 DEF DriveThrows, DriveReturn, history
    <2> QED  BY <2>1, QuotaLeave
  <1> QED  BY <1>1, <1>2, <1>3, <1>4 DEF Drive

LEMMA QuotaEnvironment ==
    ASSUME TypeInv, QuotaInv, Environment
    PROVE  QuotaInv'
  <1>1. CASE Tick
    <2>1. /\ active' = active /\ leaked' = leaked
          /\ \A g \in Handlers : job'[g].pc = job[g].pc /\ job'[g].tenant = job[g].tenant
      BY <1>1 DEF Tick, TypeInv, TypeOK, Job, history
    <2> QED  BY <2>1, QuotaKeep
  <1>2. ASSUME NEW q \in Runs, Expire(q) PROVE QuotaInv'
    <2>1. active' = active /\ leaked' = leaked /\ job' = job  BY <1>2 DEF Expire, history
    <2> QED  BY <2>1, QuotaKeep
  <1>3. CASE SpendReachesCeiling \/ NewMonth
    <2>1. active' = active /\ leaked' = leaked /\ job' = job
      BY <1>3 DEF SpendReachesCeiling, NewMonth, history
    <2> QED  BY <2>1, QuotaKeep
  <1>4. ASSUME NEW c \in Processes, Crash(c) PROVE QuotaInv'
    <2> SUFFICES ASSUME NEW p \in Processes, NEW t \in Tenants
                 PROVE  /\ IsFiniteSet(SlotsOf(p, t)')
                        /\ active'[p][t] = leaked'[p][t] + Cardinality(SlotsOf(p, t)')
      BY DEF QuotaInv
    <2>1. \A g \in Handlers : job'[g] = IF ProcessOf(g) = c THEN Idle ELSE job[g]
      BY <1>4 DEF Crash
    <2>2. /\ active'[p][t] = IF p = c THEN 0 ELSE active[p][t]
          /\ leaked'[p][t] = IF p = c THEN 0 ELSE leaked[p][t]
      BY <1>4 DEF Crash, TypeInv, TypeOK
    <2>3. CASE p = c
      <3>1. SlotsOf(p, t)' = {}  BY <2>1, <2>3 DEF SlotsOf, Idle, InSlot, Driving
      <3> QED  BY <2>2, <2>3, <3>1, FS_EmptySet
    <2>4. CASE p # c
      <3>1. SlotsOf(p, t)' = SlotsOf(p, t)  BY <2>1, <2>4 DEF SlotsOf
      <3> QED  BY <2>2, <2>4, <3>1 DEF QuotaInv
    <2> QED  BY <2>3, <2>4
  <1> QED  BY <1>1, <1>2, <1>3, <1>4 DEF Environment

LEMMA QuotaStep == TypeInv /\ QuotaInv /\ [Next]_vars => QuotaInv'
  <1> SUFFICES ASSUME TypeInv, QuotaInv, [Next]_vars PROVE QuotaInv'  OBVIOUS
  <1>1. CASE UNCHANGED vars
    <2>1. active' = active /\ leaked' = leaked /\ job' = job  BY <1>1 DEF vars
    <2> QED  BY <2>1, QuotaKeep
  <1>2. CASE Next
    BY <1>2, QuotaStart, QuotaPoll, QuotaWork, QuotaDrive, QuotaEnvironment DEF Next, Handlers
  <1> QED  BY <1>1, <1>2

\* Every path out of a call but a claim that throws in a poll gives its
\* concurrency slot back exactly once, in every deployment: the count a tenant
\* is admitted by is the number of its calls and drives that are under way in
\* the process, and of its polls whose claim threw there.
THEOREM QuotaIsBalanced == Spec => []QuotaBalanced
  <1>1. QuotaInv => QuotaBalanced  BY DEF QuotaInv, QuotaBalanced, SlotsOf
  <1> QED  BY <1>1, TypeInit, TypeStep, QuotaInit, QuotaStep, PTL DEF Spec
-----------------------------------------------------------------------------
(* The human gate, where polls drive the runs (no worker). *)

Starting == {"created", "syncHeld", "persisted", "dispatching"}
Past     == {"admitted", "driven"} \cup Driving

\* Nobody works on, knows, or stores a run id that was not allocated.
Ids ==
    /\ known \subseteq allocated
    /\ \A h \in Handlers : job[h].pc # "idle" => job[h].run \in allocated
    /\ \A r \in Runs : Exists(store[r]) => r \in allocated

\* A run is unknown to clients while it is being started, its record is still
\* the one create stored, and no other start works on it ...
Starts ==
    /\ \A h \in Handlers : job[h].pc \in Starting => job[h].run \notin known
    /\ \A h \in Handlers : job[h].pc \in Starting \ {"persisted"} /\ Exists(store[job[h].run])
                              => store[job[h].run].status = "running"
    /\ \A g, h \in Handlers : job[g].pc \in Starting /\ job[h].pc \in Starting
                                 /\ job[g].run = job[h].run => g = h

\* ... whereas approvals and polls only reach runs that clients know.
Others == \A h \in Handlers : job[h].pc \notin Starting \cup {"idle"} => job[h].run \in known

\* A poll that passed its check is on an approved run, or on one that is gone.
Checked ==
    \A h \in Handlers : job[h].pc \in Past /\ Exists(store[job[h].run])
                           => IsRunApproved(store[job[h].run])

\* The record carries at least the lease of each live drive, and is not held.
Leased ==
    \A h \in Handlers :
        job[h].pc \in Driving /\ job[h].fresh > 0 /\ Exists(store[job[h].run])
        => /\ job[h].fresh <= store[job[h].run].lease
           /\ store[job[h].run].status # "held"

GateInv == Ids /\ Starts /\ Others /\ Checked /\ Leased /\ OneLiveLease

\* What HeldNeedsApproval and TerminalStays say of one step.
HeldStep ==
    \A r \in Runs : store[r].status = "held" /\ store'[r].status \notin {"held", "absent"}
                       => IsRunApproved(store[r])
TerminalStep ==
    \A r \in Runs : store[r].status \in Terminal => store'[r].status \in Terminal \cup {"absent"}

LEMMA GateInit == Init => GateInv
  <1> SUFFICES ASSUME Init PROVE GateInv  OBVIOUS
  <1>1. \A h \in Handlers : job[h].pc = "idle"  BY DEF Init, Idle
  <1>2. \A r \in Runs : ~Exists(store[r])  BY DEF Init, Exists, Fresh
  <1>3. Ids  BY <1>1, <1>2 DEF Init, Ids
  <1>4. Starts /\ Others /\ Checked /\ Leased /\ OneLiveLease
    BY <1>1 DEF Starts, Others, Checked, Leased, OneLiveLease, IsDriving, Starting, Past, Driving
  <1> QED  BY <1>3, <1>4 DEF GateInv

LEMMA JobEffect ==
    ASSUME job \in [Handlers -> Job], NEW h \in Handlers, NEW j, job' = [job EXCEPT ![h] = j]
    PROVE  job'[h] = j /\ \A g \in Handlers : g # h => job'[g] = job[g]
  OBVIOUS

LEMMA UpdateEffect ==
    ASSUME store \in [Runs -> RunState], NEW r \in Runs, NEW rec, Patches(r, rec)
    PROVE  /\ \A q \in Runs : q # r => store'[q] = store[q]
           /\ store'[r] = store[r] \/ (Exists(store[r]) /\ store'[r] = rec)
  BY DEF Patches, Merge

\* The steps a handler takes within one operation, on the run it works on.
Moves == {<<"created", "persisted">>, <<"polled", "admitted">>, <<"driving", "stageRead">>,
          <<"driving", "driving">>, <<"stageRead", "driving">>, <<"driving", "driven">>,
          <<"driving", "failing">>, <<"failing", "driven">>}

\* A handler goes on with its run, or is done with it, and patches its record
\* at most in the ways the operations do.
LEMMA Advance ==
    ASSUME TypeInv, GateInv, NEW h \in Handlers, job[h].pc # "idle",
           NEW r \in Runs, r = job[h].run,
           \A g \in Handlers : g # h => job'[g] = job[g],
           \/ job'[h].pc = "idle"
           \/ /\ job'[h].run = r /\ job'[h].fresh = job[h].fresh
              /\ <<job[h].pc, job'[h].pc>> \in Moves,
           allocated' = allocated,
           known' = known \/ (known' = known \cup {r} /\ job'[h].pc = "idle"),
           \A q \in Runs : q # r => store'[q] = store[q],
           Exists(store'[r]) <=> Exists(store[r]),
           store'[r].lease = store[r].lease,
           IsRunApproved(store[r]) => IsRunApproved(store'[r]),
           \/ store'[r].status = store[r].status
           \/ /\ job[h].pc \in {"created", "syncHeld", "dispatching"}
              /\ job'[h].pc \in {"idle", "persisted"}
           \/ job[h].pc \in {"driving", "failing"} /\ store'[r].status \in Terminal,
           job'[h].pc = "admitted" /\ Exists(store[r]) => IsRunApproved(store[r])
    PROVE  GateInv' /\ HeldStep /\ TerminalStep
  <1> USE DEF Starting, Past, Driving
  <1>w. \A g \in Handlers : job[g].pc # "idle" => job[g].run \in Runs
    BY DEF TypeInv, WellFormed, Sound
  <1>i. known \subseteq allocated /\ r \in allocated  BY DEF GateInv, Ids
  <1>m. job'[h].pc # "idle" =>
           /\ job'[h].run = r /\ job'[h].fresh = job[h].fresh
           /\ job'[h].pc \in Starting => job[h].pc = "created" /\ job'[h].pc = "persisted"
           /\ job'[h].pc \notin Starting => job[h].pc \notin Starting
           /\ job'[h].pc \in Driving => job[h].pc \in Driving
           /\ job'[h].pc \in Past => job[h].pc \in Past \/ job'[h].pc = "admitted"
    BY DEF Moves
  <1>s. \A g \in Handlers :
           g # h /\ job[g].pc \in Starting => job[g].run # r \/ job[h].pc \notin Starting
    BY DEF GateInv, Starts
  <1>1. Ids'
    <2>1. known' \subseteq allocated'  BY <1>i
    <2>2. \A g \in Handlers : job'[g].pc # "idle" => job'[g].run \in allocated'
      BY <1>i, <1>m DEF GateInv, Ids
    <2>3. \A q \in Runs : Exists(store'[q]) => q \in allocated'
      BY <1>i DEF GateInv, Ids
    <2> QED  BY <2>1, <2>2, <2>3 DEF Ids, Exists
  <1>2. Starts'
    <2>1. ASSUME NEW g \in Handlers, job'[g].pc \in Starting PROVE job'[g].run \notin known'
      <3>1. CASE g = h  BY <1>m, <2>1, <3>1 DEF GateInv, Starts
      <3>2. CASE g # h
        <4>1. job[g].run \notin known  BY <2>1, <3>2 DEF GateInv, Starts
        <4>2. job[h].pc \notin Starting => r \in known  BY DEF GateInv, Others
        <4> QED  BY <1>s, <2>1, <3>2, <4>1, <4>2
      <3> QED  BY <3>1, <3>2
    <2>2. ASSUME NEW g \in Handlers, job'[g].pc \in Starting \ {"persisted"},
                 Exists(store'[job'[g].run])
          PROVE  store'[job'[g].run].status = "running"
      <3>1. CASE g = h  BY <1>m, <2>2, <3>1
      <3>2. CASE g # h
        <4>1. job'[g] = job[g] /\ job[g].run \in Runs /\ job[g].run \notin known
          BY <1>w, <2>2, <3>2 DEF GateInv, Starts
        <4>2. job[h].pc \notin Starting => r \in known  BY DEF GateInv, Others
        <4>3. job[g].run # r  BY <1>s, <2>2, <3>2, <4>1, <4>2
        <4> QED  BY <2>2, <4>1, <4>3 DEF GateInv, Starts
      <3> QED  BY <3>1, <3>2
    <2>3. ASSUME NEW g \in Handlers, NEW k \in Handlers, job'[g].pc \in Starting,
                 job'[k].pc \in Starting, job'[g].run = job'[k].run
          PROVE  g = k
      BY <1>m, <2>3 DEF GateInv, Starts
    <2> QED  BY <2>1, <2>2, <2>3 DEF Starts, Exists
  <1>3. Others'  BY <1>m DEF GateInv, Others
  <1>4. Checked'
    <2> SUFFICES ASSUME NEW g \in Handlers, job'[g].pc \in Past, Exists(store'[job'[g].run])
                 PROVE  IsRunApproved(store'[job'[g].run])
      BY DEF Checked, Exists, IsRunApproved
    <2>1. CASE g = h  BY <1>m, <2>1 DEF GateInv, Checked
    <2>2. CASE g # h
      <3>1. job'[g] = job[g] /\ job[g].run \in Runs  BY <1>w, <2>2
      <3> QED  BY <3>1 DEF GateInv, Checked
    <2> QED  BY <2>1, <2>2
  <1>5. Leased'
    <2> SUFFICES ASSUME NEW g \in Handlers, job'[g].pc \in Driving, job'[g].fresh > 0,
                        Exists(store'[job'[g].run])
                 PROVE  /\ job'[g].fresh <= store'[job'[g].run].lease
                        /\ store'[job'[g].run].status # "held"
      BY DEF Leased, Exists
    <2> DEFINE q == job'[g].run
    <2>1. /\ q \in Runs /\ q = job[g].run /\ job[g].pc \in Driving
          /\ job'[g].fresh = job[g].fresh
      BY <1>m, <1>w
    <2>2. Exists(store[q])  BY <2>1
    <2>3. job[g].fresh <= store[q].lease /\ store[q].status # "held"
      BY <2>1, <2>2 DEF GateInv, Leased
    <2>4. store'[q].lease = store[q].lease  BY <2>1
    <2>5. store'[q].status # "held"
      <3>1. q \in known  BY <2>1 DEF GateInv, Others
      <3>2. job[h].pc \in Starting => r \notin known  BY DEF GateInv, Starts
      <3> QED  BY <2>1, <2>3, <3>1, <3>2 DEF Terminal
    <2> QED  BY <2>1, <2>3, <2>4, <2>5
  <1>6. OneLiveLease'  BY <1>m DEF GateInv, OneLiveLease, IsDriving
  <1>o. job[h].pc \in {"created", "syncHeld", "dispatching"} /\ Exists(store[r])
           => store[r].status = "running"
    BY DEF GateInv, Starts
  <1>7. HeldStep
    <2>1. job[h].pc \in {"driving", "failing"} /\ Exists(store[r]) => IsRunApproved(store[r])
      BY DEF GateInv, Checked
    <2> QED  BY <1>o, <2>1 DEF HeldStep, Exists
  <1>8. TerminalStep  BY <1>o DEF TerminalStep, Exists, Terminal
  <1> QED  BY <1>1, <1>2, <1>3, <1>4, <1>5, <1>6, <1>7, <1>8 DEF GateInv

\* A patch that keeps the lease and the approval, as Advance wants to see it.
LEMMA PatchEffect ==
    ASSUME store \in [Runs -> RunState], NEW r \in Runs, NEW rec, Patches(r, rec),
           rec.status # "absent", rec.lease = store[r].lease,
           IsRunApproved(store[r]) => IsRunApproved(rec)
    PROVE  /\ \A q \in Runs : q # r => store'[q] = store[q]
           /\ Exists(store'[r]) <=> Exists(store[r])
           /\ store'[r].lease = store[r].lease
           /\ IsRunApproved(store[r]) => IsRunApproved(store'[r])
           /\ store'[r].status = store[r].status \/ store'[r].status = rec.status
  BY UpdateEffect DEF Exists

\* A handler that is done, its record being patched by the operation or not.
LEMMA FinishAdvance ==
    ASSUME TypeInv, GateInv, NEW h \in Handlers, job[h].pc # "idle", Finish(h),
           allocated' = allocated,
           known' = known \/ known' = known \cup {job[h].run},
           \/ UNCHANGED store
           \/ \E rec : /\ Patches(job[h].run, rec)
                       /\ rec.status # "absent" /\ rec.lease = store[job[h].run].lease
                       /\ IsRunApproved(store[job[h].run]) => IsRunApproved(rec)
                       /\ \/ rec.status = store[job[h].run].status
                          \/ job[h].pc \in {"created", "syncHeld", "dispatching"}
    PROVE  GateInv' /\ HeldStep /\ TerminalStep
  <1> DEFINE r == job[h].run
  <1>1. job \in [Handlers -> Job] /\ store \in [Runs -> RunState] /\ r \in Runs
    BY DEF TypeInv, TypeOK, WellFormed, Sound
  <1>2. job'[h].pc = "idle" /\ \A g \in Handlers : g # h => job'[g] = job[g]
    BY <1>1, JobEffect DEF Finish, Idle
  <1>3. CASE UNCHANGED store
    BY <1>1, <1>2, <1>3, Advance
  <1>4. CASE ~UNCHANGED store
    <2>1. PICK rec : /\ Patches(r, rec)
                     /\ rec.status # "absent" /\ rec.lease = store[r].lease
                     /\ IsRunApproved(store[r]) => IsRunApproved(rec)
                     /\ \/ rec.status = store[r].status
                        \/ job[h].pc \in {"created", "syncHeld", "dispatching"}
      BY <1>4
    <2>2. /\ \A q \in Runs : q # r => store'[q] = store[q]
          /\ Exists(store'[r]) <=> Exists(store[r])
          /\ store'[r].lease = store[r].lease
          /\ IsRunApproved(store[r]) => IsRunApproved(store'[r])
          /\ store'[r].status = store[r].status \/ store'[r].status = rec.status
      BY <1>1, <2>1, PatchEffect
    <2> QED  BY <1>1, <1>2, <2>1, <2>2, Advance
  <1> QED  BY <1>3, <1>4

LEMMA GateStart ==
    ASSUME TypeInv, GateInv, NEW h \in Web, Start(h)
    PROVE  GateInv' /\ HeldStep /\ TerminalStep
  <1> DEFINE r == job[h].run
  <1>h. h \in Handlers  BY DEF Handlers
  <1>t. TypeOK /\ Sound(job[h])  BY <1>h DEF TypeInv, WellFormed
  <1>j. job \in [Handlers -> Job] /\ store \in [Runs -> RunState]  BY <1>t DEF TypeOK
  <1>w. \A g \in Handlers : job[g].pc # "idle" => job[g].run \in Runs
    BY DEF TypeInv, WellFormed, Sound
  <1> USE DEF Starting, Past, Driving
  <1>1. ASSUME NEW t \in Tenants, NEW q \in Runs, NEW req \in Requests, Call(h, t, q, req)
        PROVE  GateInv' /\ HeldStep /\ TerminalStep
    <2>1. /\ job'[h].pc \in {"created", "syncHeld", "dispatching"} /\ job'[h].run = q
          /\ \A g \in Handlers : g # h => job'[g] = job[g]
      BY <1>1, <1>h, <1>j DEF Call, Idle, ToolKind
    <2>2. /\ q \notin allocated /\ known' = known /\ allocated' = allocated \cup {q}
          /\ store'[q].status = "running"
          /\ \A x \in Runs : x # q => store'[x] = store[x]
      BY <1>1, <1>j DEF Call, Fresh
    <2>3. ~Exists(store[q])  BY <2>2 DEF GateInv, Ids
    <2>4. Ids'  BY <2>1, <2>2 DEF GateInv, Ids
    <2>o. \A g \in Handlers : g # h /\ job[g].pc # "idle" =>
             job[g].run # q /\ job[g].run \in Runs /\ store'[job[g].run] = store[job[g].run]
      BY <1>w, <2>2 DEF GateInv, Ids
    <2>5. Starts' /\ Others'
      <3>1. \A g \in Handlers : job'[g].pc \in Starting => job'[g].run \notin known'
        BY <2>1, <2>2 DEF GateInv, Ids, Starts
      <3>2. \A g \in Handlers : job'[g].pc \in Starting \ {"persisted"}
                                 /\ Exists(store'[job'[g].run])
                                 => store'[job'[g].run].status = "running"
        BY <2>1, <2>2, <2>o DEF GateInv, Starts
      <3>3. \A g, k \in Handlers : job'[g].pc \in Starting /\ job'[k].pc \in Starting
                                    /\ job'[g].run = job'[k].run => g = k
        BY <2>1, <2>o DEF GateInv, Starts
      <3>4. Others'  BY <2>1, <2>2 DEF GateInv, Others
      <3> QED  BY <3>1, <3>2, <3>3, <3>4 DEF Starts, Exists
    <2>6. Checked' /\ Leased'
      <3>1. Checked'  BY <2>1, <2>o DEF GateInv, Checked, Exists, IsRunApproved
      <3>2. Leased'   BY <2>1, <2>o DEF GateInv, Leased, Exists
      <3> QED  BY <3>1, <3>2
    <2>7. OneLiveLease'  BY <2>1, <2>2 DEF GateInv, OneLiveLease, IsDriving
    <2>8. HeldStep /\ TerminalStep
      BY <2>2, <2>3 DEF HeldStep, TerminalStep, Exists, Terminal
    <2> QED  BY <2>4, <2>5, <2>6, <2>7, <2>8 DEF GateInv
  <1>2. CASE PersistStart(h)
    <2> DEFINE rec == [store[r] EXCEPT !.status = StartStatus(r)]
    <2>1. /\ job[h].pc = "created" /\ r \in Runs
          /\ Patches(r, rec) /\ UNCHANGED issued
          /\ job' = [job EXCEPT ![h] = [job[h] EXCEPT !.pc = "persisted"]]
      BY <1>2, <1>w, <1>h, UpdatePatches DEF PersistStart, Goto
    <2>2. /\ job'[h].pc = "persisted" /\ job'[h].run = r /\ job'[h].fresh = job[h].fresh
          /\ \A g \in Handlers : g # h => job'[g] = job[g]
      BY <1>h, <1>j, <1>t, <2>1, JobEffect DEF Sound, Job
    <2>3. /\ \A q \in Runs : q # r => store'[q] = store[q]
          /\ Exists(store'[r]) <=> Exists(store[r])
          /\ store'[r].lease = store[r].lease
          /\ store'[r].approvedBy = store[r].approvedBy
      <3>1. /\ Exists(rec) /\ rec.lease = store[r].lease
            /\ rec.approvedBy = store[r].approvedBy
        BY <1>j, <2>1 DEF RunState, Exists, StartStatus
      <3> HIDE DEF rec
      <3> QED  BY <1>j, <2>1, <3>1, UpdateEffect
    <2> QED  BY <1>h, <2>1, <2>2, <2>3, Advance DEF issued, IsRunApproved, Moves
  <1>3. CASE ReturnStart(h)
    <2>1. /\ job[h].pc # "idle" /\ Finish(h) /\ UNCHANGED store /\ allocated' = allocated
          /\ known' = known \cup {r}
      BY <1>3 DEF ReturnStart
    <2> QED  BY <1>h, <2>1, FinishAdvance
  <1>4. CASE PersistSyncHold(h)
    <2> DEFINE rec == [store[r] EXCEPT !.status = "held"]
    <2>1. /\ job[h].pc = "syncHeld" /\ Finish(h) /\ Patches(r, rec) /\ allocated' = allocated
          /\ known' = known \cup {r}
      BY <1>4, UpdatePatches DEF PersistSyncHold
    <2>2. /\ rec.status = "held" /\ rec.lease = store[r].lease
          /\ rec.approvedBy = store[r].approvedBy
      BY <1>j, <1>w, <1>h, <2>1 DEF RunState
    <2> HIDE DEF rec
    <2> QED  BY <1>h, <2>1, <2>2, FinishAdvance DEF IsRunApproved
  <1>5. CASE FinishSync(h)
    <2>1. /\ job[h].pc = "dispatching" /\ Finish(h) /\ allocated' = allocated
          /\ known' = known \/ known' = known \cup {r}
      BY <1>5 DEF FinishSync
    <2>2. store[r] \in RunState  BY <1>j, <1>w, <1>h, <2>1
    <2>3. \E rec : /\ Patches(r, rec) /\ rec.status \in Terminal /\ rec.lease = store[r].lease
                   /\ rec.approvedBy = store[r].approvedBy
      <3> DEFINE done(rec) == /\ Patches(r, rec) /\ rec.status \in Terminal
                              /\ rec.lease = store[r].lease
                              /\ rec.approvedBy = store[r].approvedBy
                 fail   == [store[r] EXCEPT !.status = "failed"]
                 end(a) == [store[r] EXCEPT !.status = "complete",
                                            !.artifact = IF a = 0 THEN @ ELSE 1]
      <3>1. ASSUME NEW a \in 0..1, Patches(r, end(a)) PROVE done(end(a))
        BY <2>2, <3>1 DEF RunState, Terminal
      <3>2. ASSUME Patches(r, fail) PROVE done(fail)
        BY <2>2, <3>2 DEF RunState, Terminal
      <3>3. (\E a \in 0..1 : Patches(r, end(a))) \/ Patches(r, fail)
        BY <1>5, UpdatePatches DEF FinishSync
      <3> HIDE DEF fail, end
      <3>4. \E rec : done(rec)  BY <3>1, <3>2, <3>3
      <3> QED  BY <3>4
    <2> QED  BY <1>h, <2>1, <2>3, FinishAdvance DEF IsRunApproved, Terminal
  <1>6. CASE StartFails(h)
    <2> DEFINE rec == [store[r] EXCEPT !.status = StartStatus(r)]
    <2>1. /\ job[h].pc \in {"created", "syncHeld", "dispatching"} /\ Finish(h)
          /\ UNCHANGED store \/ Patches(r, rec)
          /\ UNCHANGED issued
      BY <1>6 DEF StartFails, Patches
    <2>2. rec.status # "absent" /\ rec.lease = store[r].lease
          /\ rec.approvedBy = store[r].approvedBy
      BY <1>j, <1>w, <1>h, <2>1 DEF RunState, StartStatus
    <2> HIDE DEF rec
    <2> QED  BY <1>h, <2>1, <2>2, FinishAdvance DEF issued, IsRunApproved
  <1> QED  BY <1>1, <1>2, <1>3, <1>4, <1>5, <1>6 DEF Start

\* An approval or a poll begins, on a run that clients know.
LEMMA Enter ==
    ASSUME TypeInv, GateInv, NEW h \in Handlers, NEW r \in known,
           job'[h].pc \in {"approving", "polled"}, job'[h].run = r,
           \A g \in Handlers : g # h => job'[g] = job[g],
           UNCHANGED <<store, allocated, known>>
    PROVE  GateInv' /\ HeldStep /\ TerminalStep
  <1> USE DEF Starting, Past, Driving
  <1>1. Ids'  BY DEF GateInv, Ids, Exists
  <1>2. Starts'  BY DEF GateInv, Starts, Exists
  <1>3. Others'  BY DEF GateInv, Others
  <1>4. Checked'  BY DEF GateInv, Checked, Exists, IsRunApproved
  <1>5. Leased'  BY DEF GateInv, Leased, Exists
  <1>6. OneLiveLease'  BY DEF GateInv, OneLiveLease, IsDriving
  <1>7. HeldStep /\ TerminalStep  BY DEF HeldStep, TerminalStep, Terminal
  <1> QED  BY <1>1, <1>2, <1>3, <1>4, <1>5, <1>6, <1>7 DEF GateInv

LEMMA GateApprove ==
    ASSUME TypeInv, GateInv, NEW h \in Web, Approve(h)
    PROVE  GateInv' /\ HeldStep /\ TerminalStep
  <1> DEFINE r == job[h].run
  <1>h. h \in Handlers  BY DEF Handlers
  <1>t. TypeOK /\ Sound(job[h])  BY <1>h DEF TypeInv, WellFormed
  <1>j. job \in [Handlers -> Job] /\ store \in [Runs -> RunState]  BY <1>t DEF TypeOK
  <1>1. ASSUME NEW op \in Operators, NEW q \in Runs, ApproveRead(h, op, q)
        PROVE  GateInv' /\ HeldStep /\ TerminalStep
    <2>1. /\ q \in known /\ UNCHANGED <<store, allocated, known>>
          /\ job'[h].pc = "approving" /\ job'[h].run = q
          /\ \A g \in Handlers : g # h => job'[g] = job[g]
      BY <1>1, <1>h, <1>j DEF ApproveRead, Idle, issued
    <2> QED  BY <1>h, <2>1, Enter
  <1>2. CASE ApproveWrite(h)
    <2> DEFINE rec == [store[r] EXCEPT !.approvedBy = job[h].op]
    <2>1. job[h].pc = "approving" /\ Finish(h) /\ Patches(r, rec) /\ UNCHANGED issued
      BY <1>2, UpdatePatches DEF ApproveWrite
    <2>2. r \in Runs /\ store[r] \in RunState /\ job[h].op # NoOne
      BY <1>j, <1>t, <2>1 DEF Sound
    <2>3. rec.status = store[r].status /\ rec.lease = store[r].lease /\ IsRunApproved(rec)
      BY <2>2 DEF RunState, IsRunApproved
    <2>4. CASE ~Exists(store[r])
      <3>1. UNCHANGED store
        <4> HIDE DEF rec
        <4> QED  BY <1>j, <2>1, <2>4 DEF Patches, Merge
      <3> QED  BY <1>h, <2>1, <3>1, FinishAdvance DEF issued
    <2>5. CASE Exists(store[r])
      <3> HIDE DEF rec
      <3>1. rec.status # "absent"  BY <2>3, <2>5 DEF Exists
      <3> QED  BY <1>h, <2>1, <2>3, <3>1, FinishAdvance DEF issued
    <2> QED  BY <2>4, <2>5
  <1>3. CASE ApprovalFails(h)
    <2>1. job[h].pc # "idle" /\ Finish(h) /\ UNCHANGED <<store, issued>>
      BY <1>3 DEF ApprovalFails
    <2> QED  BY <1>h, <2>1, FinishAdvance DEF issued
  <1> QED  BY <1>1, <1>2, <1>3 DEF Approve

\* A poll that passed its check takes the lease of its run, and drives it or is
\* never told that it may.
LEMMA GateLease ==
    ASSUME TypeInv, GateInv, NEW h \in Handlers, job[h].pc = "admitted",
           NEW r \in Runs, r = job[h].run, CanClaim(store[r]), TakeLease(h, r),
           UNCHANGED issued,
           \A g \in Handlers : g # h => job'[g] = job[g],
           \/ job'[h].pc = "idle"
           \/ job'[h].pc = "driving" /\ job'[h].run = r /\ job'[h].fresh = Lease
    PROVE  GateInv' /\ HeldStep /\ TerminalStep
  <1>j. job \in [Handlers -> Job] /\ store \in [Runs -> RunState]
    BY DEF TypeInv, TypeOK
  <1>w. \A g \in Handlers : job[g].pc # "idle" => job[g].run \in Runs
    BY DEF TypeInv, WellFormed, Sound
  <1>a. store[r] \in RunState  BY <1>j
  <1>c. CanClaim(store[r]) /\ store' = [store EXCEPT ![r] = Claimed(@)]  BY DEF TakeLease
  <1>m. /\ \/ job'[h].pc = "idle"
           \/ job'[h].pc = "driving" /\ job'[h].run = r /\ job'[h].fresh = Lease
        /\ \A g \in Handlers : g # h => job'[g] = job[g]
    OBVIOUS
  <1> USE DEF Starting, Past, Driving
  <1>3. /\ \A q \in Runs : q # r => store'[q] = store[q]
        /\ store'[r].status = "running" /\ store'[r].lease = Lease
        /\ store'[r].approvedBy = store[r].approvedBy
    BY <1>j, <1>a, <1>c DEF Claimed, RunState
  <1>4. Exists(store[r]) /\ store[r].status \in {"held", "running"}
    BY <1>c DEF CanClaim, Exists
  <1>5. IsRunApproved(store[r]) /\ r \in known
    BY <1>a, <1>4 DEF GateInv, Checked, Others
  <1>6. \A g \in Handlers : job[g].pc \in Driving /\ job[g].run = r => ~(job[g].fresh > 0)
    <2> SUFFICES ASSUME NEW g \in Handlers, job[g].pc \in Driving, job[g].run = r,
                        job[g].fresh > 0
                 PROVE  FALSE
      OBVIOUS
    <2>1. job[g].fresh <= store[r].lease /\ store[r].status # "held"
      BY <1>4 DEF GateInv, Leased
    <2>2. store[r].lease = 0  BY <1>c, <2>1 DEF CanClaim
    <2>3. job[g].fresh \in Nat  BY <1>j DEF Job
    <2> QED  BY <2>1, <2>2, <2>3
  <1>7. Ids'  BY <1>a, <1>m, <1>3, <1>4 DEF GateInv, Ids, issued, Exists
  <1>8. Starts'
    <2>1. \A g \in Handlers : job[g].pc \in Starting => job[g].run # r
      BY <1>5 DEF GateInv, Starts
    <2>2. \A g \in Handlers : job'[g].pc \in Starting =>
             /\ job'[g] = job[g] /\ job[g].run \in Runs
             /\ store'[job[g].run] = store[job[g].run]
      BY <1>w, <1>m, <1>3, <2>1
    <2> QED  BY <1>a, <2>2 DEF GateInv, Starts, issued, Exists
  <1>9. Others'  BY <1>a, <1>m, <1>5 DEF GateInv, Others, issued
  <1>10. Checked'
    <2> SUFFICES ASSUME NEW g \in Handlers, job'[g].pc \in Past, Exists(store'[job'[g].run])
                 PROVE  IsRunApproved(store'[job'[g].run])
      BY DEF Checked, Exists, IsRunApproved
    <2>1. CASE g = h  BY <1>m, <1>3, <1>5, <2>1 DEF IsRunApproved
    <2>2. CASE g # h
      <3>1. job'[g] = job[g] /\ job[g].run \in Runs  BY <1>w, <1>m, <2>2
      <3> QED  BY <1>3, <1>4, <1>5, <3>1 DEF GateInv, Checked, IsRunApproved, Exists
    <2> QED  BY <2>1, <2>2
  <1>11. Leased'
    <2> SUFFICES ASSUME NEW g \in Handlers, job'[g].pc \in Driving, job'[g].fresh > 0,
                        Exists(store'[job'[g].run])
                 PROVE  /\ job'[g].fresh <= store'[job'[g].run].lease
                        /\ store'[job'[g].run].status # "held"
      BY DEF Leased, Exists
    <2>1. CASE g = h  BY <1>m, <1>3, <2>1
    <2>2. CASE g # h
      <3>1. job'[g] = job[g] /\ job[g].run \in Runs /\ job[g].run # r
        BY <1>w, <1>m, <1>6, <2>2
      <3> QED  BY <1>3, <3>1 DEF GateInv, Leased, Exists
    <2> QED  BY <2>1, <2>2
  <1>12. OneLiveLease'
    <2> SUFFICES ASSUME NEW q \in Runs, NEW g \in Handlers, NEW k \in Handlers,
                        job'[g].pc \in Driving, job'[g].run = q, job'[g].fresh > 0,
                        job'[k].pc \in Driving, job'[k].run = q, job'[k].fresh > 0,
                        g # k
                 PROVE  FALSE
      BY DEF OneLiveLease, IsDriving
    <2>1. g # h /\ k # h  BY <1>m, <1>6
    <2> QED  BY <1>m, <2>1 DEF GateInv, OneLiveLease, IsDriving
  <1>13. HeldStep /\ TerminalStep
    BY <1>3, <1>4, <1>5 DEF HeldStep, TerminalStep, Terminal
  <1> QED  BY <1>7, <1>8, <1>9, <1>10, <1>11, <1>12, <1>13 DEF GateInv

LEMMA GatePoll ==
    ASSUME TypeInv, GateInv, Workers = {}, NEW h \in Web, Poll(h)
    PROVE  GateInv' /\ HeldStep /\ TerminalStep
  <1> DEFINE r == job[h].run
  <1>h. h \in Handlers  BY DEF Handlers
  <1>t. TypeOK /\ Sound(job[h])  BY <1>h DEF TypeInv, WellFormed
  <1>j. job \in [Handlers -> Job] /\ store \in [Runs -> RunState]  BY <1>t DEF TypeOK
  <1>w. \A g \in Handlers : job[g].pc # "idle" => job[g].run \in Runs
    BY DEF TypeInv, WellFormed, Sound
  <1>1. ASSUME NEW q \in Runs, PollRead(h, q)
        PROVE  GateInv' /\ HeldStep /\ TerminalStep
    <2>1. /\ q \in known /\ UNCHANGED <<store, allocated, known>>
          /\ job'[h].pc = "polled" /\ job'[h].run = q
          /\ \A g \in Handlers : g # h => job'[g] = job[g]
      BY <1>1, <1>h, <1>j DEF PollRead, Idle, issued
    <2> QED  BY <1>h, <2>1, Enter
  <1>2. CASE PollCheck(h)
    <2>1. job[h].pc = "polled" /\ r \in Runs /\ UNCHANGED <<store, issued>>
      BY <1>2, <1>w, <1>h DEF PollCheck
    <2>2. CASE Finish(h)  BY <1>h, <2>1, <2>2, FinishAdvance DEF issued
    <2>3. CASE ~Finish(h)
      <3>1. IsRunApproved(store[r]) /\ job' = [job EXCEPT ![h] = [job[h] EXCEPT !.pc = "admitted"]]
        BY <1>2, <2>3 DEF PollCheck, Releases, Goto
      <3>2. /\ job'[h].pc = "admitted" /\ job'[h].run = r /\ job'[h].fresh = job[h].fresh
            /\ \A g \in Handlers : g # h => job'[g] = job[g]
        BY <1>h, <1>j, <1>t, <3>1, JobEffect DEF Sound, Job
      <3> QED  BY <1>h, <2>1, <3>1, <3>2, Advance DEF issued, Moves
    <2> QED  BY <2>2, <2>3
  <1>3. CASE PollClaim(h)
    <2> DEFINE j == [job[h] EXCEPT !.pc = "driving", !.fresh = Lease]
    <2>1. job[h].pc = "admitted" /\ r \in Runs /\ UNCHANGED issued
      BY <1>3, <1>w, <1>h DEF PollClaim
    <2>2. CASE Finish(h) /\ UNCHANGED store
      BY <1>h, <2>1, <2>2, FinishAdvance DEF issued
    <2>3. CASE ~(Finish(h) /\ UNCHANGED store)
      <3>1. /\ CanClaim(store[r]) /\ TakeLease(h, r) /\ job' = [job EXCEPT ![h] = j]
        BY <1>3, <2>3 DEF PollClaim, LosesRace
      <3>2. /\ job'[h].pc = "driving" /\ job'[h].run = r /\ job'[h].fresh = Lease
            /\ \A g \in Handlers : g # h => job'[g] = job[g]
        BY <1>h, <1>j, <1>t, <3>1, JobEffect DEF Sound, Job
      <3> QED  BY <1>h, <2>1, <3>1, <3>2, GateLease
    <2> QED  BY <2>2, <2>3
  <1>4. CASE PollClaimThrows(h)
    <2>1. /\ job[h].pc = "admitted" /\ r \in Runs /\ UNCHANGED issued /\ Finish(h)
          /\ UNCHANGED store \/ (CanClaim(store[r]) /\ TakeLease(h, r))
      BY <1>4, <1>w, <1>h DEF PollClaimThrows
    <2>2. CASE UNCHANGED store  BY <1>h, <2>1, <2>2, FinishAdvance DEF issued
    <2>3. CASE CanClaim(store[r]) /\ TakeLease(h, r)
      <3>1. job'[h].pc = "idle" /\ \A g \in Handlers : g # h => job'[g] = job[g]
        BY <1>h, <1>j, <2>1, JobEffect DEF Finish, Idle
      <3> QED  BY <1>h, <2>1, <2>3, <3>1, GateLease
    <2> QED  BY <2>1, <2>2, <2>3
  <1> QED  BY <1>1, <1>2, <1>3, <1>4 DEF Poll

LEMMA GateDrive ==
    ASSUME TypeInv, GateInv, NEW h \in Handlers, Drive(h)
    PROVE  GateInv' /\ HeldStep /\ TerminalStep
  <1> DEFINE r == job[h].run
  <1>t. TypeOK /\ Sound(job[h])  BY DEF TypeInv, WellFormed
  <1>j. job \in [Handlers -> Job] /\ store \in [Runs -> RunState]  BY <1>t DEF TypeOK
  <1>w. job[h].pc # "idle" => r \in Runs /\ store[r] \in RunState
    BY <1>t, <1>j DEF Sound
  <1>1. CASE StageRead(h)
    <2>1. /\ job[h].pc = "driving" /\ UNCHANGED <<store, issued>>
          /\ \/ job' = [job EXCEPT ![h] = [job[h] EXCEPT !.pc = "stageRead",
                                                         !.copy = store[r].stages]]
             \/ job' = [job EXCEPT ![h] = [job[h] EXCEPT !.stage = job[h].stage + 1]]
      BY <1>1 DEF StageRead
    <2>2. /\ job'[h].pc \in {"driving", "stageRead"} /\ job'[h].run = r
          /\ job'[h].fresh = job[h].fresh
          /\ \A g \in Handlers : g # h => job'[g] = job[g]
      <3>1. CASE job' = [job EXCEPT ![h] = [job[h] EXCEPT !.pc = "stageRead",
                                                         !.copy = store[r].stages]]
        BY <1>j, <2>1, <3>1 DEF Job
      <3>2. CASE job' = [job EXCEPT ![h] = [job[h] EXCEPT !.stage = job[h].stage + 1]]
        BY <1>j, <2>1, <3>2 DEF Job
      <3> QED  BY <2>1, <3>1, <3>2
    <2> QED  BY <1>w, <2>1, <2>2, Advance DEF issued, Moves
  <1>2. CASE StageWrite(h)
    <2> DEFINE rec == [store[r] EXCEPT !.stages = Append(job[h].copy, job[h].stage)]
    <2>1. /\ job[h].pc = "stageRead" /\ Patches(r, rec) /\ UNCHANGED issued
          /\ job' = [job EXCEPT ![h] = [job[h] EXCEPT !.pc = "driving", !.copy = <<>>,
                                                      !.stage = job[h].stage + 1]]
      BY <1>2, UpdatePatches DEF StageWrite
    <2>2. /\ job'[h].pc = "driving" /\ job'[h].run = r /\ job'[h].fresh = job[h].fresh
          /\ \A g \in Handlers : g # h => job'[g] = job[g]
      BY <1>j, <2>1 DEF Job
    <2>3. /\ rec.status = store[r].status /\ rec.lease = store[r].lease
          /\ rec.approvedBy = store[r].approvedBy
      BY <1>w, <2>1 DEF RunState
    <2>4. /\ \A q \in Runs : q # r => store'[q] = store[q]
          /\ store'[r].status = store[r].status /\ store'[r].lease = store[r].lease
          /\ store'[r].approvedBy = store[r].approvedBy
      <3> HIDE DEF rec
      <3> QED  BY <1>j, <1>w, <2>1, <2>3, UpdateEffect
    <2> QED  BY <1>w, <2>1, <2>2, <2>4, Advance DEF issued, Moves, IsRunApproved, Exists
  <1>3. CASE DriveComplete(h) \/ CompleteUnanswered(h) \/ DriveFails(h)
    <2>1. /\ job[h].pc \in {"driving", "failing"} /\ UNCHANGED issued
          /\ \E pc \in {"failing", "driven"} :
                /\ <<job[h].pc, pc>> \in Moves
                /\ job' = [job EXCEPT ![h] = [job[h] EXCEPT !.pc = pc]]
      BY <1>3 DEF DriveComplete, CompleteUnanswered, DriveFails, MayComplete, Goto, Moves
    <2>2. /\ job'[h].pc \in {"failing", "driven"} /\ job'[h].run = r
          /\ job'[h].fresh = job[h].fresh /\ <<job[h].pc, job'[h].pc>> \in Moves
          /\ \A g \in Handlers : g # h => job'[g] = job[g]
      BY <1>j, <2>1 DEF Job
    <2>3. PICK s \in Terminal, a \in {store[r].artifact, Sections(h), 1} :
             Patches(r, [store[r] EXCEPT !.status = s, !.artifact = a])
      <3>1. CASE DriveComplete(h)  BY <3>1, UpdatePatches DEF DriveComplete, Compiled, Terminal
      <3>2. CASE CompleteUnanswered(h)
        BY <3>2 DEF CompleteUnanswered, Compiled, Patches, Terminal
      <3>3. CASE DriveFails(h)
        <4>1. [store[r] EXCEPT !.status = "failed"]
                 = [store[r] EXCEPT !.status = "failed", !.artifact = store[r].artifact]
          BY <1>w, <2>1 DEF RunState
        <4> QED  BY <3>3, <4>1, UpdatePatches DEF DriveFails, Terminal
      <3> QED  BY <1>3, <3>1, <3>2, <3>3
    <2> DEFINE rec == [store[r] EXCEPT !.status = s, !.artifact = a]
    <2>4. /\ rec.status = s /\ rec.lease = store[r].lease
          /\ rec.approvedBy = store[r].approvedBy
      BY <1>w, <2>1 DEF RunState
    <2>5. /\ \A q \in Runs : q # r => store'[q] = store[q]
          /\ Exists(store'[r]) <=> Exists(store[r])
          /\ store'[r].lease = store[r].lease
          /\ IsRunApproved(store[r]) => IsRunApproved(store'[r])
          /\ store'[r].status = store[r].status \/ store'[r].status = s
      <3>1. Patches(r, rec)  BY <2>3
      <3> HIDE DEF rec
      <3>2. rec.status # "absent"  BY <2>4 DEF Terminal
      <3> QED  BY <1>j, <1>w, <2>1, <2>4, <3>1, <3>2, PatchEffect DEF IsRunApproved
    <2> QED  BY <1>w, <2>1, <2>2, <2>3, <2>5, Advance DEF issued, Moves
  <1>4. CASE DriveThrows(h) \/ DriveReturn(h)
    <2>1. job[h].pc # "idle" /\ Finish(h) /\ UNCHANGED <<store, issued>>
      BY <1>4 DEF DriveThrows, DriveReturn
    <2> QED  BY <2>1, FinishAdvance DEF issued
  <1> QED  BY <1>1, <1>2, <1>3, <1>4 DEF Drive

LEMMA GateEnvironment ==
    ASSUME TypeInv, GateInv, Environment
    PROVE  GateInv' /\ HeldStep /\ TerminalStep
  <1>t. TypeOK  BY DEF TypeInv
  <1>j. job \in [Handlers -> Job] /\ store \in [Runs -> RunState]  BY <1>t DEF TypeOK
  <1>w. \A g \in Handlers : job[g].pc # "idle" => job[g].run \in Runs
    BY DEF TypeInv, WellFormed, Sound
  <1> USE DEF Starting, Past, Driving
  <1>1. CASE Tick
    <2>1. /\ \A g \in Handlers : /\ job'[g].pc = job[g].pc /\ job'[g].run = job[g].run
                                 /\ job'[g].fresh = Elapse(job[g].fresh)
          /\ UNCHANGED issued
      BY <1>1, <1>j DEF Tick, Job
    <2>2. \A q \in Runs : /\ store'[q].status = store[q].status
                          /\ store'[q].approvedBy = store[q].approvedBy
                          /\ store'[q].lease = Elapse(store[q].lease)
      BY <1>1, <1>j DEF Tick, RunState
    <2>3. Ids'  BY <2>1, <2>2 DEF GateInv, Ids, Exists, issued
    <2>4. Starts' /\ Others'
      BY <1>w, <2>1, <2>2 DEF GateInv, Starts, Others, Exists, issued
    <2>5. Checked'
      BY <1>w, <2>1, <2>2 DEF GateInv, Checked, Exists, IsRunApproved
    <2>6. Leased'
      <3> SUFFICES ASSUME NEW g \in Handlers, job'[g].pc \in Driving, job'[g].fresh > 0,
                          Exists(store'[job'[g].run])
                   PROVE  /\ job'[g].fresh <= store'[job'[g].run].lease
                          /\ store'[job'[g].run].status # "held"
        BY DEF Leased, Exists
      <3> DEFINE q == job[g].run
      <3>1. q \in Runs /\ job[g].fresh \in Nat /\ store[q].lease \in Nat
        BY <1>j, <1>w, <2>1 DEF Job, RunState
      <3>2. job[g].fresh > 0 /\ job'[g].fresh = job[g].fresh - 1
        BY <2>1, <3>1 DEF Elapse
      <3>3. job[g].fresh <= store[q].lease /\ store[q].status # "held"
        BY <2>1, <2>2, <3>1, <3>2 DEF GateInv, Leased, Exists
      <3>4. store'[q].lease = store[q].lease - 1  BY <2>2, <3>1, <3>2, <3>3 DEF Elapse
      <3> QED  BY <2>1, <2>2, <3>1, <3>2, <3>3, <3>4
    <2>7. OneLiveLease'
      <3>1. \A g \in Handlers : job'[g].fresh > 0 => job[g].fresh > 0
        BY <1>j, <2>1 DEF Elapse, Job
      <3> QED  BY <2>1, <3>1 DEF GateInv, OneLiveLease, IsDriving
    <2>8. HeldStep /\ TerminalStep  BY <2>2 DEF HeldStep, TerminalStep, Terminal
    <2> QED  BY <2>3, <2>4, <2>5, <2>6, <2>7, <2>8 DEF GateInv
  <1>2. CASE SpendReachesCeiling \/ NewMonth
    <2>1. UNCHANGED <<store, issued, job>>  BY <1>2 DEF SpendReachesCeiling, NewMonth
    <2> QED  BY <2>1 DEF GateInv, Ids, Starts, Others, Checked, Leased, OneLiveLease,
                         IsDriving, HeldStep, TerminalStep, Terminal, issued
  <1>3. ASSUME NEW p \in Processes, Crash(p) PROVE GateInv' /\ HeldStep /\ TerminalStep
    <2>1. /\ \A g \in Handlers : job'[g] = job[g] \/ job'[g].pc = "idle"
          /\ UNCHANGED <<store, issued>>
      BY <1>3 DEF Crash, Idle
    <2>2. Ids'  BY <2>1 DEF GateInv, Ids, issued
    <2>3. Starts' /\ Others'  BY <2>1 DEF GateInv, Starts, Others, issued
    <2>4. Checked' /\ Leased'  BY <2>1 DEF GateInv, Checked, Leased
    <2>5. OneLiveLease'  BY <2>1 DEF GateInv, OneLiveLease, IsDriving
    <2>6. HeldStep /\ TerminalStep  BY <2>1 DEF HeldStep, TerminalStep, Terminal
    <2> QED  BY <2>2, <2>3, <2>4, <2>5, <2>6 DEF GateInv
  <1>4. ASSUME NEW q \in Runs, Expire(q) PROVE GateInv' /\ HeldStep /\ TerminalStep
    <2>1. /\ UNCHANGED <<issued, job>> /\ ~Exists(store'[q])
          /\ \A x \in Runs : x # q => store'[x] = store[x]
      BY <1>4, <1>j DEF Expire, Exists, Fresh
    <2>2. \A x \in Runs : Exists(store'[x]) => store'[x] = store[x]  BY <2>1
    <2>3. Ids'  BY <2>1, <2>2 DEF GateInv, Ids, issued, Exists
    <2>4. Starts' /\ Others'
      BY <1>w, <2>1, <2>2 DEF GateInv, Starts, Others, issued, Exists
    <2>5. Checked' /\ Leased'
      BY <1>w, <2>1, <2>2 DEF GateInv, Checked, Leased, Exists, IsRunApproved
    <2>6. OneLiveLease'  BY <2>1 DEF GateInv, OneLiveLease, IsDriving
    <2>7. HeldStep /\ TerminalStep  BY <2>1 DEF HeldStep, TerminalStep, Terminal, Exists
    <2> QED  BY <2>3, <2>4, <2>5, <2>6, <2>7 DEF GateInv
  <1> QED  BY <1>1, <1>2, <1>3, <1>4 DEF Environment

LEMMA GateStep ==
    ASSUME Workers = {}, TypeInv, GateInv, [Next]_vars
    PROVE  GateInv' /\ HeldStep /\ TerminalStep
  <1>1. CASE UNCHANGED vars
    BY <1>1 DEF vars, GateInv, Ids, Starts, Others, Checked, Leased, OneLiveLease,
                IsDriving, HeldStep, TerminalStep, Terminal
  <1>2. CASE Next
    BY <1>2, GateStart, GateApprove, GatePoll, GateDrive, GateEnvironment DEF Next
  <1> QED  BY <1>1, <1>2

\* The invariant that carries the gate, and the two facts about each step.
LEMMA GateInductive ==
    ASSUME Workers = {}
    PROVE  Spec => [](TypeInv /\ GateInv) /\ [][HeldStep /\ TerminalStep]_vars
  <1>1. Init => TypeInv /\ GateInv  BY TypeInit, GateInit
  <1>2. TypeInv /\ GateInv /\ [Next]_vars
           => (TypeInv /\ GateInv)' /\ [HeldStep /\ TerminalStep]_vars
    BY TypeStep, GateStep
  <1> QED  BY <1>1, <1>2, PTL DEF Spec

\* Where polls drive the runs, no run the gate decided to hold is driven
\* without an operator's approval on its record: start, approval, poll and
\* takeover interleave, processes die, records expire.
THEOREM GateNeverBypassed == Workers = {} => (Spec => []GateHolds)
  <1> SUFFICES ASSUME Workers = {} PROVE Spec => []GateHolds  OBVIOUS
  <1>1. TypeInv /\ GateInv => GateHolds
    BY DEF TypeInv, GateInv, Checked, GateHolds, IsDriving, Past
  <1> QED  BY <1>1, GateInductive, PTL

\* Where polls drive the runs, a record leaves "held" only when approved.
THEOREM HoldsAreReleasedByApproval == Workers = {} => (Spec => HeldNeedsApproval)
  <1> SUFFICES ASSUME Workers = {} PROVE Spec => HeldNeedsApproval  OBVIOUS
  <1>1. [HeldStep /\ TerminalStep]_vars
           => [\A r \in Runs : store[r].status = "held"
                                  /\ store'[r].status \notin {"held", "absent"}
                               => IsRunApproved(store[r])]_vars
    BY DEF HeldStep
  <1> QED  BY <1>1, GateInductive, PTL DEF HeldNeedsApproval

\* Where polls drive the runs, at most one drive of a run is within the lease
\* it claimed, however many replicas poll.
THEOREM LiveLeaseIsUnique == Workers = {} => (Spec => []OneLiveLease)
  <1> SUFFICES ASSUME Workers = {} PROVE Spec => []OneLiveLease  OBVIOUS
  <1>1. TypeInv /\ GateInv => OneLiveLease  BY DEF GateInv
  <1> QED  BY <1>1, GateInductive, PTL

\* Where polls drive the runs, a finished run is never reopened.
THEOREM FinishedRunsStay == Workers = {} => (Spec => TerminalStays)
  <1> SUFFICES ASSUME Workers = {} PROVE Spec => TerminalStays  OBVIOUS
  <1>1. [HeldStep /\ TerminalStep]_vars
           => [\A r \in Runs : store[r].status \in Terminal
                               => store'[r].status \in Terminal \cup {"absent"}]_vars
    BY DEF TerminalStep
  <1> QED  BY <1>1, GateInductive, PTL DEF TerminalStays
-----------------------------------------------------------------------------
(* Results, where polls drive the runs and a drive fits in its lease. *)

\* The last k stages are the first k of the plan, in its order.
Ends(stages, k) == k <= Len(stages) /\ \A i \in 1..k : stages[Len(stages) - k + i] = i

\* A drive is within its lease and the only writer of its record's stages: the
\* record runs unless the drive missed the answer of its completion, and the
\* stages it read are still there.  Unless the run is contested, the sections
\* the drive persisted are the last ones.  A synchronous call is never on a
\* pipeline's record.
DriveFits(j, rec, free) ==
    /\ j.pc \in {"polled", "admitted"} => j.stage = 1
    /\ j.pc = "dispatching" /\ Exists(rec) => rec.tool = "single"
    /\ j.pc \in Driving => j.fresh > 0
    /\ j.pc \in Driving \ {"failing"} /\ Exists(rec) =>
          rec.status = "running" /\ (free \/ Ends(rec.stages, j.stage - 1))
    /\ j.pc = "stageRead" /\ Exists(rec) => j.copy = rec.stages

ArtifactFits(rec) ==
    rec.status = "complete" /\ rec.tool = "pipeline" =>
        rec.artifact >= 1 /\ Ends(rec.stages, rec.artifact)

\* Only the drive of a contested run may lose a race.
RaceFits(h) == h \in raced /\ job[h].pc \in Driving => job[h].run \in contested

FitInv == /\ \A h \in Handlers :
                DriveFits(job[h], store[job[h].run], job[h].run \in contested) /\ RaceFits(h)
          /\ \A r \in Runs \ contested : ArtifactFits(store[r])

\* What ResultIsFinal says of one step.
ResultKept(r) ==
    store[r].status \in Terminal /\ Exists(store'[r])
        => /\ store'[r].artifact = store[r].artifact
           /\ \/ store'[r].status = store[r].status
              \/ /\ store'[r].status = "failed"
                 /\ \E h \in Handlers : job[h].pc = "failing" /\ job[h].run = r
ResultStep == \A r \in Runs : ResultKept(r)

\* Nobody but h drives run r or answers a synchronous call on it.
AloneOn(h, r) ==
    \A g \in Handlers : g # h /\ job[g].run = r => job[g].pc \notin Driving \cup {"dispatching"}

\* The races a step of h on run r makes somebody lose.
Disturbs(h, r) ==
    \/ Races(h, r) \/ Quiet(h)
    \/ raced' = raced /\ job'[h].pc \notin Driving

LEMMA NoSections == ASSUME NEW rec \in RunState PROVE Ends(rec.stages, 1 - 1)
  BY DEF Ends, RunState

LEMMA FitInit == Init => FitInv
  <1> SUFFICES ASSUME Init PROVE FitInv  OBVIOUS
  <1>1. \A h \in Handlers : job[h].pc = "idle"  BY DEF Init, Idle
  <1>2. \A r \in Runs : store[r].status = "absent"  BY DEF Init, Fresh
  <1>3. \A h \in Handlers : DriveFits(job[h], store[job[h].run], job[h].run \in contested)
    BY <1>1 DEF DriveFits, Driving
  <1>4. \A h \in Handlers : RaceFits(h)  BY <1>1 DEF RaceFits, Driving
  <1> QED  BY <1>2, <1>3, <1>4 DEF FitInv, ArtifactFits

\* FitInv of the next state, by its parts.
LEMMA FitParts ==
    ASSUME \A g \in Handlers : DriveFits(job'[g], store'[job'[g].run], job'[g].run \in contested'),
           \A g \in Handlers : g \in raced' /\ job'[g].pc \in Driving => job'[g].run \in contested',
           \A q \in Runs \ contested' : ArtifactFits(store'[q])
    PROVE  FitInv'
  <1>1. \A g \in Handlers : DriveFits(job[g], store[job[g].run], job[g].run \in contested)'
    OBVIOUS
  <1>2. \A g \in Handlers : RaceFits(g)'  BY DEF RaceFits
  <1>3. \A q \in Runs \ contested' : ArtifactFits(store[q])'  OBVIOUS
  <1> QED  BY <1>1, <1>2, <1>3 DEF FitInv

\* One handler and one record change.
LEMMA FitLocal ==
    ASSUME TypeInv, FitInv, NEW h \in Handlers, NEW r \in Runs,
           \A g \in Handlers : g # h => job'[g] = job[g],
           \A q \in Runs : q # r => store'[q] = store[q],
           DriveFits(job'[h], store'[job'[h].run], job'[h].run \in contested'),
           r \notin contested' => ArtifactFits(store'[r]),
           ResultKept(r), Disturbs(h, r), contested \subseteq contested',
           \/ AloneOn(h, r)
           \/ /\ Exists(store'[r]) => /\ Exists(store[r]) /\ store'[r].status = store[r].status
                                      /\ store'[r].tool = store[r].tool
                                      /\ store'[r].stages = store[r].stages
              /\ \A g \in Handlers : Remote /\ IsDriving(g, r) => r \in contested'
    PROVE  FitInv' /\ ResultStep
  <1>1. ASSUME NEW g \in Handlers, g # h
        PROVE  DriveFits(job'[g], store'[job'[g].run], job'[g].run \in contested')
    <2>1. /\ job'[g] = job[g] /\ DriveFits(job[g], store[job[g].run], job[g].run \in contested)
          /\ job[g].run \in contested => job'[g].run \in contested'
      BY <1>1 DEF FitInv
    <2>2. CASE job[g].pc = "idle"  BY <2>1, <2>2 DEF DriveFits, Driving
    <2>3. CASE job[g].pc # "idle" /\ job[g].run # r
      <3>1. job[g].run \in Runs  BY <2>3 DEF TypeInv, WellFormed, Sound
      <3> QED  BY <2>1, <2>3, <3>1 DEF DriveFits
    <2>4. CASE job[g].run = r
      <3>1. CASE AloneOn(h, r)
        <4>1. job[g].pc \notin Driving \cup {"dispatching"}  BY <1>1, <2>4, <3>1 DEF AloneOn
        <4> QED  BY <2>1, <4>1 DEF DriveFits, Driving
      <3>2. CASE ~AloneOn(h, r)
        <4>1. Exists(store'[r]) => /\ Exists(store[r]) /\ store'[r].status = store[r].status
                                   /\ store'[r].tool = store[r].tool
                                   /\ store'[r].stages = store[r].stages
          BY <3>2
        <4> QED  BY <2>1, <2>4, <4>1 DEF DriveFits
      <3> QED  BY <3>1, <3>2
    <2> QED  BY <2>2, <2>3, <2>4
  <1>2. ASSUME NEW g \in Handlers, g \in raced', job'[g].pc \in Driving
        PROVE  job'[g].run \in contested'
    <2>1. CASE g = h  BY <1>2, <2>1 DEF Disturbs, Races, Quiet
    <2>2. CASE g # h
      <3>1. job'[g] = job[g]  BY <2>2
      <3>2. CASE g \in raced  BY <1>2, <3>1, <3>2 DEF FitInv, RaceFits
      <3>3. CASE g \notin raced
        <4>1. Remote /\ job[g].run = r  BY <1>2, <2>2, <3>3 DEF Disturbs, Races, Quiet
        <4>2. ~AloneOn(h, r) /\ IsDriving(g, r)
          BY <1>2, <2>2, <3>1, <4>1 DEF AloneOn, IsDriving
        <4> QED  BY <3>1, <4>1, <4>2
      <3> QED  BY <3>2, <3>3
    <2> QED  BY <2>1, <2>2
  <1>3. \A g \in Handlers : DriveFits(job'[g], store'[job'[g].run], job'[g].run \in contested')
    BY <1>1
  <1>4. \A q \in Runs \ contested' : ArtifactFits(store'[q])  BY DEF FitInv
  <1>5. FitInv'  BY <1>2, <1>3, <1>4, FitParts
  <1>6. ResultStep  BY DEF ResultStep, ResultKept
  <1> QED  BY <1>5, <1>6

\* The store stays, and one handler goes on.
LEMMA FitQuiet ==
    ASSUME TypeInv, FitInv, NEW h \in Handlers, store' = store, contested' = contested,
           \A g \in Handlers : g # h => job'[g] = job[g],
           DriveFits(job'[h], store[job'[h].run], job'[h].run \in contested),
           Quiet(h) \/ (raced' = raced /\ job'[h].pc \notin Driving)
    PROVE  FitInv' /\ ResultStep
  <1>1. \A g \in Handlers : DriveFits(job'[g], store'[job'[g].run], job'[g].run \in contested')
    BY DEF FitInv
  <1>2. ASSUME NEW g \in Handlers, g \in raced', job'[g].pc \in Driving
        PROVE  job'[g].run \in contested'
    <2>1. g # h /\ g \in raced  BY <1>2 DEF Quiet
    <2> QED  BY <1>2, <2>1 DEF FitInv, RaceFits
  <1>3. \A q \in Runs \ contested' : ArtifactFits(store'[q])  BY DEF FitInv
  <1>4. FitInv'  BY <1>1, <1>2, <1>3, FitParts
  <1> QED  BY <1>4 DEF ResultStep, ResultKept

LEMMA IdleFits == \A rec, free : DriveFits(Idle, rec, free)
  BY DEF DriveFits, Idle, Driving

LEMMA FitFinish ==
    ASSUME TypeInv, FitInv, NEW h \in Handlers, Finish(h), Quiet(h),
           store' = store, contested' = contested
    PROVE  FitInv' /\ ResultStep
  <1>1. job'[h] = Idle /\ \A g \in Handlers : g # h => job'[g] = job[g]
    BY JobEffect DEF Finish, TypeInv, TypeOK
  <1> QED  BY <1>1, IdleFits, FitQuiet

\* A drive has its record to itself, and so has a call that starts a run.
LEMMA DrivesAlone ==
    ASSUME TypeInv, GateInv, FitInv, NEW h \in Handlers, job[h].pc \in Driving \cup Starting
    PROVE  AloneOn(h, job[h].run)
  <1> SUFFICES ASSUME NEW g \in Handlers, g # h, job[g].run = job[h].run,
                      job[g].pc \in Driving \cup {"dispatching"}
               PROVE  FALSE
    BY DEF AloneOn
  <1> USE DEF Starting, Driving
  <1>1. job[h].run \in Runs  BY DEF TypeInv, WellFormed, Sound
  <1>2. \A k \in Handlers : job[k].pc \in Driving => job[k].fresh > 0 /\ job[k].run \in known
    BY DEF FitInv, DriveFits, GateInv, Others
  <1>3. \A k \in Handlers : job[k].pc \in Starting => job[k].run \notin known
    BY DEF GateInv, Starts
  <1>4. CASE job[h].pc \in Driving
    <2>1. job[g].pc \in Driving  BY <1>2, <1>3, <1>4
    <2> QED  BY <1>1, <1>2, <1>4, <2>1 DEF GateInv, OneLiveLease, IsDriving
  <1>5. CASE job[h].pc \in Starting
    <2>1. job[g].pc \in Starting  BY <1>2, <1>3, <1>5
    <2> QED  BY <1>5, <2>1 DEF GateInv, Starts
  <1> QED  BY <1>4, <1>5

LEMMA FitStart ==
    ASSUME TypeInv, GateInv, FitInv, NEW h \in Handlers, Start(h)
    PROVE  FitInv' /\ ResultStep
  <1> DEFINE r == job[h].run
  <1>j. job \in [Handlers -> Job] /\ store \in [Runs -> RunState]  BY DEF TypeInv, TypeOK
  <1>w. \A g \in Handlers : job[g].pc # "idle" => job[g].run \in Runs
    BY DEF TypeInv, WellFormed, Sound
  <1> USE DEF Starting, Driving
  <1>1. ASSUME NEW t \in Tenants, NEW q \in Runs, NEW req \in Requests, Call(h, t, q, req)
        PROVE  FitInv' /\ ResultStep
    <2>1. /\ job'[h].pc \in {"created", "syncHeld", "dispatching"} /\ job'[h].run = q
          /\ job'[h].pc = "dispatching" => req.tool = "single"
          /\ \A g \in Handlers : g # h => job'[g] = job[g]
      BY <1>1, <1>j DEF Call, Idle, ToolKind
    <2>2. /\ q \notin allocated /\ store'[q].status = "running" /\ store'[q].tool = req.tool
          /\ \A x \in Runs : x # q => store'[x] = store[x]
      BY <1>1, <1>j DEF Call, Fresh
    <2>3. ~Exists(store[q])  BY <2>2 DEF GateInv, Ids
    <2>4. AloneOn(h, q)  BY <2>2 DEF GateInv, Ids, AloneOn
    <2>5. DriveFits(job'[h], store'[job'[h].run], job'[h].run \in contested')
      BY <2>1, <2>2 DEF DriveFits
    <2>6. ArtifactFits(store'[q]) /\ ResultKept(q)
      BY <2>2, <2>3 DEF ArtifactFits, ResultKept, Exists, Terminal
    <2>7. Disturbs(h, q) /\ contested' = contested
      BY <1>1, <2>1 DEF Call, Disturbs, history
    <2> QED  BY <2>1, <2>2, <2>4, <2>5, <2>6, <2>7, FitLocal
  <1>2. ASSUME job[h].pc \in {"created", "syncHeld", "dispatching"},
               NEW rec, Patches(r, rec), ArtifactFits(rec),
               job'[h].pc \in {"idle", "persisted"}, Races(h, r) \/ Quiet(h),
               contested' = contested, \A g \in Handlers : g # h => job'[g] = job[g]
        PROVE  FitInv' /\ ResultStep
    <2>1. r \in Runs /\ AloneOn(h, r)  BY <1>2, <1>w, DrivesAlone
    <2>2. Exists(store[r]) => store[r].status = "running"  BY <1>2 DEF GateInv, Starts
    <2>3. /\ \A q \in Runs : q # r => store'[q] = store[q]
          /\ store'[r] = store[r] \/ (Exists(store[r]) /\ store'[r] = rec)
      BY <1>2, <1>j, <2>1, UpdateEffect
    <2>4. r \notin contested' => ArtifactFits(store'[r])  BY <1>2, <2>1, <2>3 DEF FitInv
    <2>5. ResultKept(r)  BY <2>2, <2>3 DEF ResultKept, Exists, Terminal
    <2>6. DriveFits(job'[h], store'[job'[h].run], job'[h].run \in contested')
      BY <1>2 DEF DriveFits
    <2> QED  BY <1>2, <2>1, <2>3, <2>4, <2>5, <2>6, FitLocal DEF Disturbs
  <1>3. CASE PersistStart(h)
    <2> DEFINE rec == [store[r] EXCEPT !.status = StartStatus(r)]
    <2>1. /\ job[h].pc = "created" /\ r \in Runs /\ Patches(r, rec)
          /\ job' = [job EXCEPT ![h] = [job[h] EXCEPT !.pc = "persisted"]]
          /\ Races(h, r) \/ Quiet(h)
          /\ contested' = contested
      BY <1>3, <1>w, UpdatePatches, UpdateRaces DEF PersistStart, Goto, history
    <2>2. job'[h].pc = "persisted" /\ \A g \in Handlers : g # h => job'[g] = job[g]
      BY <1>j, <2>1 DEF Job
    <2>3. ArtifactFits(rec)  BY <1>j, <2>1 DEF ArtifactFits, RunState, StartStatus
    <2> HIDE DEF rec
    <2> QED  BY <1>2, <2>1, <2>2, <2>3
  <1>4. ASSUME Finish(h) PROVE job'[h].pc = "idle" /\ \A g \in Handlers : g # h => job'[g] = job[g]
    BY <1>4, <1>j, JobEffect DEF Finish, Idle
  <1>5. CASE PersistSyncHold(h)
    <2> DEFINE rec == [store[r] EXCEPT !.status = "held"]
    <2>1. /\ job[h].pc = "syncHeld" /\ r \in Runs /\ Patches(r, rec) /\ Finish(h)
          /\ Races(h, r) \/ Quiet(h)
          /\ contested' = contested
      BY <1>5, <1>w, UpdatePatches, UpdateRaces DEF PersistSyncHold, history
    <2>2. ArtifactFits(rec)  BY <1>j, <2>1 DEF ArtifactFits, RunState
    <2> HIDE DEF rec
    <2> QED  BY <1>2, <1>4, <2>1, <2>2
  <1>6. CASE FinishSync(h)
    <2> DEFINE end(a) == [store[r] EXCEPT !.status = "complete",
                                          !.artifact = IF a = 0 THEN @ ELSE 1]
               fail   == [store[r] EXCEPT !.status = "failed"]
    <2>1. /\ job[h].pc = "dispatching" /\ r \in Runs /\ Finish(h)
          /\ (\E a \in 0..1 : Patches(r, end(a))) \/ Patches(r, fail)
          /\ Races(h, r) \/ Quiet(h)
          /\ contested' = contested
      BY <1>6, <1>w, UpdatePatches, UpdateRaces DEF FinishSync, history
    <2>2. Exists(store[r]) => store[r].tool = "single"
      BY <2>1 DEF FitInv, DriveFits
    <2>3. PICK rec : Patches(r, rec) /\ (rec = fail \/ \E a \in 0..1 : rec = end(a))
      BY <2>1
    <2>4. CASE ~Exists(store[r])
      <3>1. Patches(r, store[r])  BY <2>3, <2>4 DEF Patches, Merge
      <3>2. ArtifactFits(store[r])
        BY <2>4 DEF ArtifactFits, Exists
      <3> QED  BY <1>2, <1>4, <2>1, <3>1, <3>2
    <2>5. CASE Exists(store[r])
      <3>1. ASSUME NEW a \in 0..1 PROVE ArtifactFits(end(a))
        BY <1>j, <2>1, <2>2, <2>5 DEF ArtifactFits, RunState
      <3>2. ArtifactFits(fail)  BY <1>j, <2>1 DEF ArtifactFits, RunState
      <3>3. ArtifactFits(rec)
        <4> HIDE DEF end, fail
        <4> QED  BY <2>3, <3>1, <3>2
      <3> QED  BY <1>2, <1>4, <2>1, <2>3, <3>3
    <2> QED  BY <2>4, <2>5
  <1>7. CASE ReturnStart(h)
    <2>1. Finish(h) /\ Quiet(h) /\ store' = store /\ contested' = contested
      BY <1>7 DEF ReturnStart, history
    <2> QED  BY <2>1, FitFinish
  <1>8. CASE StartFails(h)
    <2> DEFINE rec == [store[r] EXCEPT !.status = StartStatus(r)]
    <2>1. /\ job[h].pc \in {"created", "syncHeld", "dispatching"} /\ r \in Runs /\ Finish(h)
          /\ (UNCHANGED store /\ Quiet(h)) \/ (Patches(r, rec) /\ Races(h, r))
          /\ contested' = contested
      BY <1>8, <1>w DEF StartFails, Patches, history
    <2>2. ArtifactFits(rec)  BY <1>j, <2>1 DEF ArtifactFits, RunState, StartStatus
    <2> HIDE DEF rec
    <2>3. CASE UNCHANGED store /\ Quiet(h)  BY <2>1, <2>3, FitFinish
    <2>4. CASE Patches(r, rec) /\ Races(h, r)  BY <1>2, <1>4, <2>1, <2>2, <2>4
    <2> QED  BY <2>1, <2>3, <2>4
  <1> QED  BY <1>1, <1>3, <1>5, <1>6, <1>7, <1>8 DEF Start

LEMMA FitApprove ==
    ASSUME TypeInv, GateInv, FitInv, NEW h \in Handlers, Approve(h)
    PROVE  FitInv' /\ ResultStep
  <1> DEFINE r == job[h].run
  <1>j. job \in [Handlers -> Job] /\ store \in [Runs -> RunState]  BY DEF TypeInv, TypeOK
  <1>1. ASSUME NEW op \in Operators, NEW q \in Runs, ApproveRead(h, op, q)
        PROVE  FitInv' /\ ResultStep
    <2>1. /\ store' = store /\ job'[h].pc = "approving"
          /\ \A g \in Handlers : g # h => job'[g] = job[g]
          /\ raced' = raced /\ contested' = contested
      BY <1>1, <1>j DEF ApproveRead, Idle, history
    <2>2. DriveFits(job'[h], store[job'[h].run], job'[h].run \in contested)
      BY <2>1 DEF DriveFits, Driving
    <2> QED  BY <2>1, <2>2, FitQuiet DEF Driving
  <1>2. CASE ApproveWrite(h)
    <2> DEFINE rec == [store[r] EXCEPT !.approvedBy = job[h].op]
    <2>1. /\ r \in Runs /\ Patches(r, rec) /\ Finish(h)
          /\ Races(h, r) \/ Quiet(h)
      BY <1>2, UpdatePatches, UpdateRaces DEF ApproveWrite, TypeInv, WellFormed, Sound
    <2>2. /\ rec.status = store[r].status /\ rec.tool = store[r].tool
          /\ rec.stages = store[r].stages /\ rec.artifact = store[r].artifact
      BY <1>j, <2>1 DEF RunState
    <2>3. /\ job'[h] = Idle /\ \A g \in Handlers : g # h => job'[g] = job[g]
      BY <1>j, <2>1, JobEffect DEF Finish
    <2> HIDE DEF rec
    <2>4. /\ \A q \in Runs : q # r => store'[q] = store[q]
          /\ store'[r] = store[r] \/ (Exists(store[r]) /\ store'[r] = rec)
      BY <1>j, <2>1, UpdateEffect
    <2>5. /\ store'[r].status = store[r].status /\ store'[r].tool = store[r].tool
          /\ store'[r].stages = store[r].stages /\ store'[r].artifact = store[r].artifact
      BY <2>2, <2>4
    <2>6. /\ contested \subseteq contested'
          /\ \A g \in Handlers : Remote /\ IsDriving(g, r) => r \in contested'
      BY <1>2 DEF ApproveWrite
    <2>7. r \notin contested' => ArtifactFits(store[r])  BY <2>1, <2>6 DEF FitInv
    <2>8. (r \notin contested' => ArtifactFits(store'[r])) /\ ResultKept(r)
      BY <2>5, <2>7 DEF ArtifactFits, ResultKept
    <2>9. DriveFits(job'[h], store'[job'[h].run], job'[h].run \in contested')
      BY <2>3, IdleFits
    <2>10. Exists(store'[r]) => Exists(store[r])  BY <2>5 DEF Exists
    <2> QED  BY <2>1, <2>3, <2>4, <2>5, <2>6, <2>8, <2>9, <2>10, FitLocal DEF Disturbs
  <1>3. CASE ApprovalFails(h)
    <2>1. Finish(h) /\ Quiet(h) /\ store' = store /\ contested' = contested
      BY <1>3 DEF ApprovalFails, history
    <2> QED  BY <2>1, FitFinish
  <1> QED  BY <1>1, <1>2, <1>3 DEF Approve

\* A run that can be claimed is driven by nobody.
LEMMA ClaimAlone ==
    ASSUME TypeInv, GateInv, FitInv, NEW h \in Handlers, job[h].pc = "admitted",
           CanClaim(store[job[h].run])
    PROVE  AloneOn(h, job[h].run)
  <1> DEFINE r == job[h].run
  <1> SUFFICES ASSUME NEW g \in Handlers, job[g].run = r,
                      job[g].pc \in Driving \cup {"dispatching"}
               PROVE  FALSE
    BY DEF AloneOn
  <1>j. job \in [Handlers -> Job] /\ r \in Runs
    BY DEF TypeInv, TypeOK, WellFormed, Sound
  <1>1. store[r].status = "held" \/ (store[r].status = "running" /\ store[r].lease = 0)
    BY DEF CanClaim
  <1>2. r \in known  BY DEF GateInv, Others, Starting
  <1>3. job[g].pc \in Driving  BY <1>2 DEF GateInv, Starts, Starting
  <1>4. job[g].fresh > 0 /\ job[g].fresh \in Nat
    BY <1>j, <1>3 DEF FitInv, DriveFits, Job
  <1>5. job[g].fresh <= store[r].lease /\ store[r].status # "held"
    BY <1>1, <1>3, <1>4 DEF GateInv, Leased, Exists
  <1> QED  BY <1>1, <1>4, <1>5

\* The lease is taken, and the run driven or not.
LEMMA FitLease ==
    ASSUME TypeInv, GateInv, FitInv, NEW h \in Handlers, job[h].pc = "admitted",
           NEW r \in Runs, r = job[h].run, CanClaim(store[r]), TakeLease(h, r),
           contested' = contested,
           \A g \in Handlers : g # h => job'[g] = job[g],
           \/ job'[h] = Idle
           \/ job'[h] = [job[h] EXCEPT !.pc = "driving", !.fresh = Lease]
    PROVE  FitInv' /\ ResultStep
  <1>j. job \in [Handlers -> Job] /\ store \in [Runs -> RunState]  BY DEF TypeInv, TypeOK
  <1>s. job[h].stage = 1  BY DEF FitInv, DriveFits
  <1>1. /\ store'[r].status = "running" /\ store'[r].stages = store[r].stages
        /\ \A q \in Runs : q # r => store'[q] = store[q]
    BY <1>j DEF TakeLease, Claimed, RunState
  <1>2. store[r].status \in {"held", "running"}  BY DEF CanClaim
  <1>3. AloneOn(h, r)  BY ClaimAlone
  <1>4. DriveFits(job'[h], store'[job'[h].run], job'[h].run \in contested')
    <2>1. CASE job'[h] = Idle  BY <2>1, IdleFits
    <2>2. CASE job'[h] = [job[h] EXCEPT !.pc = "driving", !.fresh = Lease]
      <3>1. /\ job'[h].pc = "driving" /\ job'[h].run = r /\ job'[h].fresh = Lease
            /\ job'[h].stage = 1
        BY <1>j, <1>s, <2>2 DEF Job
      <3>2. Ends(store[r].stages, 1 - 1)  BY <1>j, NoSections
      <3> QED  BY <1>1, <3>1, <3>2 DEF DriveFits, Driving
    <2> QED  BY <2>1, <2>2
  <1>5. ArtifactFits(store'[r]) /\ ResultKept(r)
    BY <1>1, <1>2 DEF ArtifactFits, ResultKept, Terminal
  <1>6. Disturbs(h, r)  BY DEF TakeLease, Disturbs
  <1> QED  BY <1>1, <1>3, <1>4, <1>5, <1>6, FitLocal

LEMMA FitPoll ==
    ASSUME TypeInv, GateInv, FitInv, NEW h \in Handlers, Poll(h)
    PROVE  FitInv' /\ ResultStep
  <1> DEFINE r == job[h].run
  <1>j. job \in [Handlers -> Job] /\ store \in [Runs -> RunState]  BY DEF TypeInv, TypeOK
  <1>1. ASSUME NEW q \in Runs, PollRead(h, q) PROVE FitInv' /\ ResultStep
    <2>1. /\ store' = store /\ job'[h].pc = "polled" /\ job'[h].stage = 1
          /\ \A g \in Handlers : g # h => job'[g] = job[g]
          /\ raced' = raced /\ contested' = contested
      BY <1>1, <1>j DEF PollRead, Idle, history
    <2>2. DriveFits(job'[h], store[job'[h].run], job'[h].run \in contested)
      BY <2>1 DEF DriveFits, Driving
    <2> QED  BY <2>1, <2>2, FitQuiet DEF Driving
  <1>2. CASE PollCheck(h)
    <2>1. /\ job[h].pc = "polled" /\ store' = store /\ Quiet(h) /\ contested' = contested
          /\ Finish(h) \/ job' = [job EXCEPT ![h] = [job[h] EXCEPT !.pc = "admitted"]]
      BY <1>2 DEF PollCheck, Goto, history
    <2>2. CASE job' = [job EXCEPT ![h] = [job[h] EXCEPT !.pc = "admitted"]]
      <3>1. /\ job'[h].pc = "admitted" /\ job'[h].stage = job[h].stage
            /\ \A g \in Handlers : g # h => job'[g] = job[g]
        BY <1>j, <2>2 DEF Job
      <3>2. job[h].stage = 1  BY <2>1 DEF FitInv, DriveFits
      <3>3. DriveFits(job'[h], store[job'[h].run], job'[h].run \in contested)
        BY <3>1, <3>2 DEF DriveFits, Driving
      <3> QED  BY <2>1, <3>1, <3>3, FitQuiet
    <2> QED  BY <2>1, <2>2, FitFinish
  <1>3. CASE PollClaim(h) \/ PollClaimThrows(h)
    <2> DEFINE j == [job[h] EXCEPT !.pc = "driving", !.fresh = Lease]
    <2>1. /\ job[h].pc = "admitted" /\ r \in Runs /\ contested' = contested
          /\ \/ Finish(h) /\ Quiet(h) /\ store' = store
             \/ /\ CanClaim(store[r]) /\ TakeLease(h, r)
                /\ Finish(h) \/ job' = [job EXCEPT ![h] = j]
      BY <1>3 DEF PollClaim, PollClaimThrows, LosesRace, TypeInv, WellFormed, Sound, history
    <2>2. CASE /\ CanClaim(store[r]) /\ TakeLease(h, r)
               /\ Finish(h) \/ job' = [job EXCEPT ![h] = j]
      <3>1. /\ job'[h] = Idle \/ job'[h] = j
            /\ \A g \in Handlers : g # h => job'[g] = job[g]
        <4> HIDE DEF j
        <4> QED  BY <1>j, <2>2, JobEffect DEF Finish
      <3> QED  BY <2>1, <2>2, <3>1, FitLease
    <2> QED  BY <2>1, <2>2, FitFinish
  <1> QED  BY <1>1, <1>2, <1>3 DEF Poll

LEMMA FitDrive ==
    ASSUME TypeInv, GateInv, FitInv, NEW h \in Handlers, Drive(h)
    PROVE  FitInv' /\ ResultStep
  <1> DEFINE r == job[h].run
             n == job[h].stage
  <1>j. job \in [Handlers -> Job] /\ store \in [Runs -> RunState] /\ Sound(job[h])
    BY DEF TypeInv, TypeOK, WellFormed
  <1>w. job[h].pc # "idle" => r \in Runs /\ store[r] \in RunState  BY <1>j DEF Sound
  <1>n. n \in 1..(Stages + 1)  BY <1>j DEF Job
  <1>f. job[h].pc \in Driving =>
           /\ job[h].fresh > 0 /\ AloneOn(h, r)
           /\ h \in raced => r \in contested
           /\ Exists(store[r]) /\ job[h].pc # "failing" =>
                 /\ store[r].status = "running"
                 /\ r \notin contested => Ends(store[r].stages, n - 1)
           /\ Exists(store[r]) /\ job[h].pc = "stageRead" => job[h].copy = store[r].stages
    BY DrivesAlone DEF FitInv, DriveFits, RaceFits
  <1>1. CASE StageRead(h)
    <2>1. /\ job[h].pc = "driving" /\ store' = store /\ Quiet(h) /\ contested' = contested
          /\ job' = IF Exists(store[r])
                    THEN [job EXCEPT ![h] = [job[h] EXCEPT !.pc = "stageRead",
                                                           !.copy = store[r].stages]]
                    ELSE [job EXCEPT ![h] = [job[h] EXCEPT !.stage = n + 1]]
      BY <1>1 DEF StageRead, history
    <2>2. CASE Exists(store[r])
      <3>1. /\ job'[h].pc = "stageRead" /\ job'[h].run = r /\ job'[h].fresh = job[h].fresh
            /\ job'[h].copy = store[r].stages /\ job'[h].stage = n
            /\ \A g \in Handlers : g # h => job'[g] = job[g]
        BY <1>j, <2>1, <2>2 DEF Job
      <3>2. DriveFits(job'[h], store[job'[h].run], job'[h].run \in contested)
        BY <1>f, <2>1, <3>1 DEF DriveFits, Driving
      <3> QED  BY <2>1, <3>1, <3>2, FitQuiet
    <2>3. CASE ~Exists(store[r])
      <3>1. /\ job'[h].pc = "driving" /\ job'[h].run = r /\ job'[h].fresh = job[h].fresh
            /\ \A g \in Handlers : g # h => job'[g] = job[g]
        BY <1>j, <2>1, <2>3 DEF Job
      <3>2. DriveFits(job'[h], store[job'[h].run], job'[h].run \in contested)
        BY <1>f, <2>1, <2>3, <3>1 DEF DriveFits, Driving
      <3> QED  BY <2>1, <3>1, <3>2, FitQuiet
    <2> QED  BY <2>2, <2>3
  <1>2. CASE StageWrite(h)
    <2> DEFINE st  == Append(job[h].copy, n)
               rec == [store[r] EXCEPT !.stages = st]
    <2>1. /\ job[h].pc = "stageRead" /\ contested' = contested
          /\ Merge(r, rec) \/ (h \in raced /\ store' = store)
          /\ Races(h, r) \/ Quiet(h)
          /\ job' = [job EXCEPT ![h] = [job[h] EXCEPT !.pc = "driving", !.copy = <<>>,
                                                      !.stage = n + 1]]
      BY <1>2, UpdateRaces DEF StageWrite, Update, LosesRace, history
    <2>2. /\ job'[h].pc = "driving" /\ job'[h].run = r /\ job'[h].fresh = job[h].fresh
          /\ job'[h].stage = n + 1
          /\ \A g \in Handlers : g # h => job'[g] = job[g]
      BY <1>j, <2>1 DEF Job
    <2>3. /\ rec.status = store[r].status /\ rec.tool = store[r].tool
          /\ rec.artifact = store[r].artifact /\ rec.stages = st
      BY <1>w, <2>1 DEF RunState
    <2>4. /\ \A q \in Runs : q # r => store'[q] = store[q]
          /\ \/ store'[r] = IF Exists(store[r]) THEN rec ELSE store[r]
             \/ r \in contested /\ store'[r] = store[r]
      <3>1. h \in raced => r \in contested  BY <1>f, <2>1 DEF Driving
      <3> HIDE DEF rec
      <3> QED  BY <1>j, <1>w, <2>1, <3>1 DEF Merge
    <2>5. Exists(store[r]) /\ r \notin contested => Ends(st, (n + 1) - 1)
      <3> SUFFICES ASSUME Exists(store[r]), r \notin contested PROVE Ends(st, (n + 1) - 1)
        OBVIOUS
      <3>1. /\ job[h].copy = store[r].stages /\ Ends(store[r].stages, n - 1)
        BY <1>f, <2>1 DEF Driving
      <3>2. store[r].stages \in Seq(1..Stages)  BY <1>w, <2>1 DEF RunState
      <3> DEFINE s == store[r].stages
      <3>3. /\ Len(st) = Len(s) + 1 /\ Len(s) \in Nat /\ st[Len(s) + 1] = n
            /\ \A i \in 1..Len(s) : st[i] = s[i]
        BY <3>1, <3>2
      <3>4. n - 1 <= Len(s) /\ \A i \in 1..(n - 1) : s[Len(s) - (n - 1) + i] = i
        BY <3>1 DEF Ends
      <3> HIDE DEF s, st
      <3>5. n \in Nat /\ n <= Len(st) /\ (n + 1) - 1 = n  BY <1>n, <3>3, <3>4
      <3>6. ASSUME NEW i \in 1..n PROVE st[Len(st) - n + i] = i
        <4>1. CASE i = n
          <5>1. Len(st) - n + i = Len(s) + 1  BY <3>3, <3>5, <4>1
          <5> QED  BY <3>3, <4>1, <5>1
        <4>2. CASE i # n
          <5>1. i \in 1..(n - 1)  BY <3>5, <4>2
          <5>2. /\ Len(st) - n + i = Len(s) - (n - 1) + i
                /\ Len(s) - (n - 1) + i \in 1..Len(s)
            <6> DEFINE len == Len(s)
                       end == Len(st)
            <6>1. /\ len \in Nat /\ end = len + 1 /\ n - 1 <= len
                  /\ n \in Nat /\ i \in Nat /\ 1 <= i /\ i <= n - 1
              BY <3>3, <3>4, <3>5, <5>1
            <6> HIDE DEF len, end, n
            <6>2. end - n + i = len - (n - 1) + i /\ len - (n - 1) + i \in 1..len  BY <6>1
            <6> QED  BY <6>2 DEF len, end
          <5> QED  BY <3>3, <3>4, <5>1, <5>2
        <4> QED  BY <4>1, <4>2
      <3> QED  BY <3>5, <3>6 DEF Ends
    <2> HIDE DEF rec, st
    <2>6. DriveFits(job'[h], store'[job'[h].run], job'[h].run \in contested')
      <3>1. CASE Exists(store[r])
        BY <1>f, <2>1, <2>2, <2>3, <2>4, <2>5, <3>1 DEF DriveFits, Driving
      <3>2. CASE ~Exists(store[r])
        BY <1>f, <2>1, <2>2, <2>4, <3>2 DEF DriveFits, Driving
      <3> QED  BY <3>1, <3>2
    <2>7. ArtifactFits(store'[r]) /\ ResultKept(r)
      <3>1. CASE Exists(store[r])
        <4>1. store[r].status = "running"  BY <1>f, <2>1, <3>1 DEF Driving
        <4>2. store'[r].status = store[r].status  BY <2>3, <2>4
        <4> QED  BY <4>1, <4>2 DEF ArtifactFits, ResultKept, Terminal
      <3>2. CASE ~Exists(store[r])
        BY <2>4, <3>2 DEF ArtifactFits, ResultKept, Exists
      <3> QED  BY <3>1, <3>2
    <2> QED  BY <1>f, <1>w, <2>1, <2>2, <2>4, <2>6, <2>7, FitLocal DEF Driving, Disturbs
  <1>3. CASE DriveComplete(h) \/ CompleteUnanswered(h)
    <2> DEFINE a   == IF store[r].tool = "pipeline" THEN n - 1 ELSE 1
               end == [store[r] EXCEPT !.status = "complete", !.artifact = a]
    <2>1. /\ job[h].pc = "driving" /\ contested' = contested
          /\ \E pc \in {"failing", "driven"} : job' = [job EXCEPT ![h] = [job[h] EXCEPT !.pc = pc]]
          /\ Patches(r, end) /\ (store[r].tool = "pipeline" => n > 1)
          /\ Races(h, r) \/ Quiet(h)
      <3>1. Compiled(h) = end  BY DEF Compiled, Sections
      <3> HIDE DEF end
      <3>2. CASE DriveComplete(h)
        BY <3>1, <3>2, UpdatePatches, UpdateRaces DEF DriveComplete, MayComplete, Goto, history
      <3>3. CASE CompleteUnanswered(h)
        BY <3>1, <3>3 DEF CompleteUnanswered, MayComplete, Goto, Patches, history
      <3> QED  BY <1>3, <3>2, <3>3
    <2>2. /\ job'[h].pc \in {"failing", "driven"} /\ job'[h].fresh = job[h].fresh
          /\ \A g \in Handlers : g # h => job'[g] = job[g]
      BY <1>j, <2>1 DEF Job
    <2>3. DriveFits(job'[h], store'[job'[h].run], job'[h].run \in contested')
      BY <1>f, <2>1, <2>2 DEF DriveFits, Driving
    <2>4. Exists(store[r]) /\ r \notin contested => ArtifactFits(end)
      <3> SUFFICES ASSUME Exists(store[r]), r \notin contested PROVE ArtifactFits(end)  OBVIOUS
      <3>1. /\ end.tool = store[r].tool /\ end.artifact = a /\ end.stages = store[r].stages
        BY <1>w, <2>1 DEF RunState
      <3>2. Ends(store[r].stages, n - 1)  BY <1>f, <2>1 DEF Driving
      <3>3. store[r].tool = "pipeline" => a = n - 1 /\ n - 1 >= 1  BY <1>n, <2>1
      <3> HIDE DEF a, end
      <3> QED  BY <3>1, <3>2, <3>3 DEF ArtifactFits
    <2>5. r \notin contested => ArtifactFits(store[r])  BY <1>w, <2>1 DEF FitInv
    <2> HIDE DEF end
    <2>6. /\ \A q \in Runs : q # r => store'[q] = store[q]
          /\ store'[r] = store[r] \/ (Exists(store[r]) /\ store'[r] = end)
      BY <1>j, <1>w, <2>1, UpdateEffect
    <2>7. r \notin contested' => ArtifactFits(store'[r])  BY <2>1, <2>4, <2>5, <2>6
    <2>8. ResultKept(r)
      BY <1>f, <2>1, <2>6 DEF ResultKept, Exists, Terminal, Driving
    <2> QED  BY <1>f, <1>w, <2>1, <2>2, <2>3, <2>6, <2>7, <2>8, FitLocal DEF Driving, Disturbs
  <1>4. CASE DriveFails(h)
    <2> DEFINE fail == [store[r] EXCEPT !.status = "failed"]
    <2>1. /\ job[h].pc \in {"driving", "failing"} /\ contested' = contested
          /\ job' = [job EXCEPT ![h] = [job[h] EXCEPT !.pc = "driven"]]
          /\ Patches(r, fail)
          /\ Races(h, r) \/ Quiet(h)
      BY <1>4, UpdatePatches, UpdateRaces DEF DriveFails, Goto, history
    <2>2. /\ job'[h].pc = "driven" /\ \A g \in Handlers : g # h => job'[g] = job[g]
      BY <1>j, <2>1 DEF Job
    <2>3. DriveFits(job'[h], store'[job'[h].run], job'[h].run \in contested')
      BY <2>2 DEF DriveFits, Driving
    <2>4. fail.status = "failed" /\ fail.artifact = store[r].artifact
      BY <1>w, <2>1 DEF RunState
    <2>5. r \notin contested => ArtifactFits(store[r])  BY <1>w, <2>1 DEF FitInv
    <2> HIDE DEF fail
    <2>6. /\ \A q \in Runs : q # r => store'[q] = store[q]
          /\ store'[r] = store[r] \/ (Exists(store[r]) /\ store'[r] = fail)
      BY <1>j, <1>w, <2>1, UpdateEffect
    <2>7. r \notin contested' => ArtifactFits(store'[r])
      BY <2>1, <2>4, <2>5, <2>6 DEF ArtifactFits
    <2>8. ResultKept(r)
      <3>1. job[h].pc = "driving" /\ Exists(store[r]) => store[r].status = "running"
        BY <1>f DEF Driving
      <3> QED  BY <2>1, <2>4, <2>6, <3>1 DEF ResultKept, Exists, Terminal
    <2> QED  BY <1>f, <1>w, <2>1, <2>2, <2>3, <2>6, <2>7, <2>8, FitLocal DEF Driving, Disturbs
  <1>5. CASE DriveThrows(h) \/ DriveReturn(h)
    <2>1. Finish(h) /\ Quiet(h) /\ store' = store /\ contested' = contested
      BY <1>5 DEF DriveThrows, DriveReturn, history
    <2> QED  BY <2>1, FitFinish
  <1> QED  BY <1>1, <1>2, <1>3, <1>4, <1>5 DEF Drive

LEMMA FitEnvironment ==
    ASSUME TypeInv, FitInv, DrivesFitLease, Environment
    PROVE  FitInv' /\ ResultStep
  <1>j. job \in [Handlers -> Job] /\ store \in [Runs -> RunState]  BY DEF TypeInv, TypeOK
  <1>w. \A g \in Handlers : job[g].pc # "idle" => job[g].run \in Runs
    BY DEF TypeInv, WellFormed, Sound
  <1>1. CASE Tick
    <2>1. ASSUME NEW g \in Handlers
          PROVE  /\ job'[g].pc = job[g].pc /\ job'[g].run = job[g].run
                 /\ job'[g].stage = job[g].stage /\ job'[g].copy = job[g].copy
                 /\ job[g].pc \in Driving /\ job[g].fresh > 0 => job'[g].fresh > 0
      <3>1. /\ job'[g].pc = job[g].pc /\ job'[g].run = job[g].run
            /\ job'[g].stage = job[g].stage /\ job'[g].copy = job[g].copy
            /\ job'[g].fresh = Elapse(job[g].fresh)
        BY <1>1, <1>j DEF Tick, Job
      <3>2. job[g].pc \in Driving => job[g].fresh # 1  BY <1>1 DEF Tick
      <3>3. job[g].fresh \in Nat  BY <1>j DEF Job
      <3> QED  BY <3>1, <3>2, <3>3 DEF Elapse
    <2>2. \A q \in Runs : /\ store'[q].status = store[q].status
                          /\ store'[q].tool = store[q].tool
                          /\ store'[q].stages = store[q].stages
                          /\ store'[q].artifact = store[q].artifact
      BY <1>1, <1>j DEF Tick, RunState
    <2>3. raced' = raced /\ contested' = contested  BY <1>1 DEF Tick, history
    <2>4. ASSUME NEW g \in Handlers
          PROVE  DriveFits(job'[g], store'[job'[g].run], job'[g].run \in contested')
      <3>1. DriveFits(job[g], store[job[g].run], job[g].run \in contested)  BY DEF FitInv
      <3>2. CASE job[g].pc = "idle"  BY <2>1, <3>2 DEF DriveFits, Driving
      <3>3. CASE job[g].pc # "idle"
        <4>1. job[g].run \in Runs  BY <1>w, <3>3
        <4> QED  BY <2>1, <2>2, <2>3, <3>1, <4>1 DEF DriveFits, Exists
      <3> QED  BY <3>2, <3>3
    <2>5. \A q \in Runs \ contested' : ArtifactFits(store'[q])
      BY <2>2, <2>3 DEF FitInv, ArtifactFits
    <2>6. \A g \in Handlers : g \in raced' /\ job'[g].pc \in Driving => job'[g].run \in contested'
      BY <2>1, <2>3 DEF FitInv, RaceFits
    <2>7. FitInv'  BY <2>4, <2>5, <2>6, FitParts
    <2> QED  BY <2>2, <2>7 DEF ResultStep, ResultKept
  <1>2. CASE SpendReachesCeiling \/ NewMonth
    <2>1. UNCHANGED <<store, job, raced, contested>>
      BY <1>2 DEF SpendReachesCeiling, NewMonth, history
    <2> QED  BY <2>1 DEF FitInv, RaceFits, ResultStep, ResultKept
  <1>3. ASSUME NEW p \in Processes, Crash(p) PROVE FitInv' /\ ResultStep
    <2>1. /\ store' = store /\ contested' = contested /\ raced' \subseteq raced
          /\ \A g \in Handlers : job'[g] = job[g] \/ job'[g] = Idle
      BY <1>3 DEF Crash
    <2>2. \A g \in Handlers : DriveFits(job'[g], store'[job'[g].run], job'[g].run \in contested')
      BY <2>1, IdleFits DEF FitInv
    <2>3. \A q \in Runs \ contested' : ArtifactFits(store'[q])  BY <2>1 DEF FitInv
    <2>4. \A g \in Handlers : g \in raced' /\ job'[g].pc \in Driving => job'[g].run \in contested'
      BY <2>1 DEF FitInv, RaceFits, Idle, Driving
    <2>5. FitInv'  BY <2>2, <2>3, <2>4, FitParts
    <2> QED  BY <2>1, <2>5 DEF ResultStep, ResultKept
  <1>4. ASSUME NEW q \in Runs, Expire(q) PROVE FitInv' /\ ResultStep
    <2>1. /\ job' = job /\ ~Exists(store'[q]) /\ store'[q].status = "absent"
          /\ raced' = raced /\ contested' = contested
          /\ \A x \in Runs : x # q => store'[x] = store[x]
      BY <1>4, <1>j DEF Expire, Exists, Fresh, history
    <2>2. ASSUME NEW g \in Handlers
          PROVE  DriveFits(job'[g], store'[job'[g].run], job'[g].run \in contested')
      <3>1. DriveFits(job[g], store[job[g].run], job[g].run \in contested)  BY DEF FitInv
      <3>2. CASE job[g].pc = "idle"  BY <2>1, <3>2 DEF DriveFits, Driving
      <3>3. CASE job[g].pc # "idle"
        <4>1. job[g].run \in Runs  BY <1>w, <3>3
        <4>2. CASE job[g].run = q  BY <2>1, <3>1, <4>2 DEF DriveFits
        <4>3. CASE job[g].run # q  BY <2>1, <3>1, <4>1, <4>3
        <4> QED  BY <4>2, <4>3
      <3> QED  BY <3>2, <3>3
    <2>3. \A x \in Runs \ contested' : ArtifactFits(store'[x])
      BY <2>1 DEF FitInv, ArtifactFits
    <2>4. \A g \in Handlers : g \in raced' /\ job'[g].pc \in Driving => job'[g].run \in contested'
      BY <2>1 DEF FitInv, RaceFits
    <2>5. FitInv'  BY <2>2, <2>3, <2>4, FitParts
    <2> QED  BY <2>1, <2>5 DEF ResultStep, ResultKept
  <1> QED  BY <1>1, <1>2, <1>3, <1>4 DEF Environment

LEMMA FitStep ==
    ASSUME Workers = {}, DrivesFitLease, TypeInv, GateInv, FitInv, [Next]_vars
    PROVE  FitInv' /\ ResultStep
  <1>1. CASE UNCHANGED vars
    <2>1. UNCHANGED <<store, job, raced, contested>>  BY <1>1 DEF vars
    <2> QED  BY <2>1 DEF FitInv, RaceFits, ResultStep, ResultKept
  <1>2. CASE Next
    BY <1>2, FitStart, FitApprove, FitPoll, FitDrive, FitEnvironment DEF Next, Handlers
  <1> QED  BY <1>1, <1>2

LEMMA FitInductive ==
    ASSUME Workers = {}, DrivesFitLease
    PROVE  Spec => [](TypeInv /\ GateInv /\ FitInv) /\ [][ResultStep]_vars
  <1>1. Init => FitInv  BY FitInit
  <1>2. TypeInv /\ GateInv /\ FitInv /\ [Next]_vars => FitInv' /\ [ResultStep]_vars
    BY FitStep
  <1> QED  BY <1>1, <1>2, GateInductive, PTL DEF Spec

\* Where polls drive the runs and a drive that is not killed ends within its
\* lease, no run is driven by two handlers at once, across the replicas.
THEOREM RunsHaveOneDriver == Workers = {} /\ DrivesFitLease => (Spec => []SingleDriver)
  <1> SUFFICES ASSUME Workers = {}, DrivesFitLease PROVE Spec => []SingleDriver  OBVIOUS
  <1>1. TypeInv /\ GateInv /\ FitInv => SingleDriver
    <2> SUFFICES ASSUME GateInv, FitInv PROVE SingleDriver  OBVIOUS
    <2>1. \A h \in Handlers : job[h].pc \in Driving => job[h].fresh > 0
      BY DEF FitInv, DriveFits
    <2> QED  BY <2>1 DEF GateInv, OneLiveLease, SingleDriver, IsDriving
  <1> QED  BY <1>1, FitInductive, PTL

\* There, the artifact of a completed pipeline run is compiled from the last
\* sections persisted, in the order of the plan, whatever drive was killed
\* before the one that completed it and whatever write lost a race or its
\* answer; only runs that were approved again while driven are excepted.
THEOREM ArtifactsMatchStages == Workers = {} /\ DrivesFitLease => (Spec => []ArtifactMatchesStages)
  <1> SUFFICES ASSUME Workers = {}, DrivesFitLease PROVE Spec => []ArtifactMatchesStages
    OBVIOUS
  <1>1. TypeInv /\ GateInv /\ FitInv => ArtifactMatchesStages
    <2> SUFFICES ASSUME TypeInv, FitInv, NEW r \in Runs \ contested,
                        store[r].status = "complete", store[r].tool = "pipeline"
                 PROVE  /\ store[r].artifact \in 1..Len(store[r].stages)
                        /\ \A i \in 1..store[r].artifact :
                              store[r].stages[Len(store[r].stages) - store[r].artifact + i] = i
      BY DEF ArtifactMatchesStages
    <2>1. store[r].artifact >= 1 /\ Ends(store[r].stages, store[r].artifact)
      BY DEF FitInv, ArtifactFits
    <2>2. store[r].artifact \in Nat /\ Len(store[r].stages) \in Nat
      BY DEF TypeInv, TypeOK, RunState
    <2> QED  BY <2>1, <2>2 DEF Ends
  <1> QED  BY <1>1, FitInductive, PTL

\* There, what a poll reported as the end of a run stays so while the record
\* exists: the artifact always, and the verdict unless the drive that completed
\* the run missed the answer and marks it failed.
THEOREM ResultsAreFinal == Workers = {} /\ DrivesFitLease => (Spec => ResultIsFinal)
  <1> SUFFICES ASSUME Workers = {}, DrivesFitLease PROVE Spec => ResultIsFinal  OBVIOUS
  <1>1. [ResultStep]_vars
           => [\A r \in Runs : store[r].status \in Terminal /\ Exists(store'[r])
                   => /\ store'[r].artifact = store[r].artifact
                      /\ \/ store'[r].status = store[r].status
                         \/ /\ store'[r].status = "failed"
                            /\ \E h \in Handlers : job[h].pc = "failing" /\ job[h].run = r]_vars
    BY DEF ResultStep, ResultKept
  <1> QED  BY <1>1, FitInductive, PTL DEF ResultIsFinal
=============================================================================
