# hve-squad-mcp: a verification of the server-side squad

hve-squad-mcp is a Model Context Protocol server. Over stdio it composes text for
a host that runs the squad itself; over HTTP it runs the squad server-side, under
quotas, human gates and tenant isolation, and keeps the runs in a store that
several replicas and a background worker share. This directory models the part of
it where steps of several actors meet: what the model checker and the prover can
say and a unit test hardly can.

All paths below are relative to the repository; `engine/` is `src/engine/`.

## Inventory

| Part (code) | State | Operations | Meets | What makes it correct |
| --- | --- | --- | --- | --- |
| Run-state store (`engine/run-state.ts`; file: `engine/durable-run-state.ts`; Azure table: `engine/backends/azure-table-run-state.ts`) | one record per run: status, approval, lease, sections, artifact | create, get, update, claim, listClaimable, sweepExpired, delete | every replica and worker | claim is a compare-and-swap with one winner; an update is applied or refused as a whole |
| Coordinator (`engine/embedded.ts`) | `heldCounts`, per process | start, poll, approve, drive, the synchronous tools | store, quota, gates, pipeline, memory | a gated run is driven only when approved; one driver; final results stay; approved runs finish |
| Gates and quota (`engine/gates.ts`) | active slots and spend per tenant and process; run cost; approvals | acquire/release, recordCostUsd, approve, classify | coordinator | slots balance on every path; the ceiling refuses; no input turns a hold into a proceed |
| Worker (`engine/run-worker.ts`, `worker-main.ts`) | a snapshot of claimable runs | tickOnce | store, coordinator | takes over only approved or abandoned runs; one failure does not stop the drain |
| Advisory persistence (`engine/advisory-run-store.ts`, `run-params.ts`) | sections, history and verdict on the record | recordStage, recordVerdict | store | no section of the current drive is lost |
| Advisory pipeline (`engine/advisory-pipeline.ts`, `dispatch-loop.ts`) | stage position, sections, run cost | run, resume | backend, persistence, ledger | halts on Stop and Not-Ready, stops at the run's cost ceiling, resumes where it paused |
| Council, routing, profiles (`engine/council.ts`, `routing.ts`, `profiles.ts`) | none | synthesis of a verdict, stage plan | pipeline | most restrictive verdict wins; every touched lens is seated or recorded |
| Auto-memory (`engine/auto-memory.ts`) and memory backends (`engine/backends/*-squad-memory.ts`, `targeted-squad-memory.ts`) | versioned documents, overflow blobs | read, write with ETag, list | coordinator, memory tools | two parallel runs both land their digest; a pointer never dangles |
| Memory resources (`engine/squad-memory-resources.ts`) | subscriptions of a stdio session | list, read, subscribe | memory, transport | a list has every entry of the tenant and nobody else's |
| Artifact store, ledger, history, recorder (`engine/artifact-store.ts`, `squad-ledger.ts`, `squad-history.ts`, `squad-run-recorder.ts`, `consumption.ts`) | files of a project's tracking tree | append, appendOnce, seed, updateState, closeRun | coordinator | concurrent appends both land; seeding happens once; the turn counter counts runs |
| HTTP transport, sessions, auth (`transports/`, `auth/`) | sessions; cached keys | initialize, tools/call, resources/*, DELETE, /admin/approve | coordinator, memory | a session serves only its identity; scopes fail closed |
| Configuration and wiring (`config/operator-config.ts`, `server-http.ts`, `worker-main.ts`) | none | load, build | everything | what is offered is backed by what was built |
| Everything else: stdio server, catalog, personas, federation text, field encryption, model client, deck rendering, logging, generators, bundled cast, site | none that outlives a call | | | text composition, cryptography, I/O and build tooling |

Hard behaviours: handlers of one process interleave at every await; replicas and
workers share the store and nothing else; a process may die between a claim and
the result; leases lapse while the work goes on; records expire; the quota and
the held-run count live in each process; updates are unconditional or lose their
compare-and-swap silently; the tracking tree and the memory of a project are files
that several runs append to, with a compare that a first write does not have;
a read of a drive takes two requests; a council's members answer in any order;
sessions expire and processes restart while requests are in flight; and two dozen
switches decide what there is at all. `PROJECT.json` lists them as hazards, at their lines.

## Modules

| Module | Models |
| --- | --- |
| `RunRecord` | the run record and the predicates every store shares (`isRunApproved`, `isRunClaimable`, what `claim` accepts and writes) |
| `RunLifecycle` | replicas and workers over an atomic store: starts, holds, approvals, polls, claims, drives, crashes, expiry, time |
| `MCRunLifecycle` | instances of `RunLifecycle` for TLC |
| `RunLifecycleProofs` | its invariants, proved for every value of the constants |
| `StoredRun` | the record as a store sees it, with its instants |
| `RunStoreContract` | the abstract store: what `RunStateStore` promises about a call |
| `AzureTableRunStore` | the Azure table store request by request; `Contract == INSTANCE RunStoreContract` is what it implements |
| `MCAzureTableRunStore` | its instances for TLC |
| `AzureTableRunStoreProofs` | that it implements the contract, proved for every value of the constants |
| `AdvisoryRouting` | pure operators: the profile a name selects, the plan of a request, the gate's judgement, the council and its verdict |
| `AdvisoryPipeline` | one advisory run from the gate to the charge, over `AdvisoryRouting` |
| `AdvisoryPipelineProofs` | its invariants, proved for every roster, catalog, cast and price |
| `Filtering` | pure functions: the filters over arrays and the running total, as recursive functions |
| `SquadTracking` | the tracking tree of a project: seeding, queued appends, deliverables, closing, consumption |
| `SquadTrackingProofs` | its invariants and the action property, proved for every set of runs, processes, roles and stages |
| `SquadMemoryContract` | the abstract memory: whole entries, changed one at a time |
| `SquadMemory` | auto-memory and the memory tools over the overflow store; implements `SquadMemoryContract` |
| `SquadMemoryProofs` | its invariants and the refinement, proved for every value of the constants |
| `MemoryBackends` | the directory, the table and the drive request by request, behind named destinations |
| `MemoryBackendsProofs` | its invariants and action properties, proved for every value of the constants |
| `Deployment` | pure operators: which settings are accepted, what is built from them |
| `AccessPolicy` | the abstract boundary: sessions, grants, and what may be done with one |
| `HttpTransport` | the HTTP boundary over `Deployment`; implements `AccessPolicy` |
| `HttpTransportProofs` | its types, what it lists and the refinement, proved for every value of the constants |
| `DataFacts` | lemmas the proofs share: least and greatest elements, induction over sets of naturals, what `Filtering` computes |
| `MCAdvisoryPipeline`, `MCSquadTracking`, `MCSquadMemory`, `MCMemoryBackends`, `MCHttpTransport` | instances for TLC |

`RunLifecycle` takes each store call as one atomic step that compares what it read.
That is exact for the ephemeral store and for the file store in one process, whose
calls do not await, and with `Remote` for a table service whose answers carry ETags:
such a store also refuses an update that lost a race, and may lose its answers. The
table store as it is written does not compare; what its calls do instead is
`AzureTableRunStore`, and `RunStoreContract` without `Compares`. In the same way
`SquadTracking` and `SquadMemory` stand on a store whose reads carry ETags (the
directory, the drive), and `MemoryBackends` says what the table's empty ETags do to a
write. The other state modules stand below and above: `AdvisoryPipeline` is what
happens inside one drive, `SquadTracking` and `SquadMemory` are what a drive writes
beside its record, `MemoryBackends` is what `SquadMemory`'s store calls are made of,
and `HttpTransport` is what reaches the coordinator at all.

### RunLifecycle: state and actions

A *handler* is one request in a web replica or one worker process; it runs without
interruption between two awaits of the store or of the pipeline. `job[h].pc` names
the place it awaits at, and the other fields of `job[h]` are its local variables.

| State | Code |
| --- | --- |
| `store` | the records of the run-state store; `lease` counts down to `leaseExpiresAt` |
| `allocated`, `mustHold`, `known` | history: ids ever allocated, runs whose gate said hold, ids returned to a client |
| `batch` | the rest of the list a worker is draining |
| `active` | `TenantQuotaTracker` active count, per process |
| `heldCounts` | the field of the same name, per process |
| `overCeiling` | the tenant's spend has reached its monthly ceiling |
| `raced` | the calls about to write a run that another has written in the meantime |
| `leaked`, `contested` | history: slots nobody will give back, runs approved while they were driven |
| `faults` | bound on crashes, calls that fail, are refused or lose their answer, exhausted budgets |

| Actions | Code |
| --- | --- |
| `Call`, `PersistStart`, `ReturnStart` | `startHttpRun`: quota, gate and held cap, then `create`, then `update`, then the local count and the return |
| `PersistSyncHold`, `FinishSync`, `StartFails` | `handle`, `handleAdvisory`, `handleBusiness`, and the `catch`/`finally` of all starts |
| `ApproveRead`, `ApproveWrite`, `ApprovalFails` | `approveRun` and `RunStoreApprovalChannel.approve` |
| `PollRead`, `PollCheck`, `PollClaim` | `pollRun`: `get`; the approval and mode checks and the slot; `claim` |
| `PollClaimThrows` | a `claim` that throws after the slot was taken and before the `try` that gives it back (`:919-924`) |
| `WorkerList`, `WorkerClaim`, `WorkerClaimFails` | `tickOnce` and `driveClaimable` |
| `StageRead`, `StageWrite` | `recordStage`: a read and an unconditional write of the sections |
| `DriveComplete`, `CompleteUnanswered`, `DriveFails`, `DriveThrows`, `DriveReturn` | the ends of `executeRunningRun`; a completion whose answer is lost is taken for a failure |
| `Crash` | a replica or a worker stops; a worker also ends this way when its list or sweep throws, which `runForever` does not catch |
| `SpendReachesCeiling`, `NewMonth`, `Expire`, `Tick` | the quota, the time to live, the clock |

Every update goes through `Update`: it merges its patch, or, with `Remote`, it lost a
race against a write to the same run and is dropped without a word (`LosesRace`; the
callers do not look at what `update` returns).

A section is its stage's number and an artifact is how many sections it was
compiled from; text, roles and personas are left out. A request is the kind of its
tool and the decision of the gate. `executePipeline`, `startRun`, `runToCompletion`
and `resumeRun` have no caller outside tests and are not modelled.

### AzureTableRunStore: state and actions

A *caller* is one operation in progress on some replica; `step[c]` says which
request it sends next and holds its local variables (the entity it is about to
put, the ETag it fetched, the expired runs it still has to delete). `call[c]` is
the operation, its arguments, the clock it read first, and its answer.

| Actions | Code |
| --- | --- |
| `Begin` | an operation is called |
| `AskForTable`, `TableIsThere`, `TableRefused`, `TableEnsured` | `ensureTable` and `createTable`: one promise per store object, shared by concurrent creates, dropped when it is rejected |
| `Insert` | the POST of `create` |
| `FetchForUpdate`, `FetchForClaim` | `fetchEntity`, and what `update` and `claim` decide on its answer |
| `Put` | `putWithEtag`: 404 throws, 412 answers false |
| `Get`, `List`, `Sweep`, `Delete`, `Deleted` | `get`, `listClaimable`, `sweepExpired` and the deletes of expired runs |
| `RequestFails`, and the `error` branch of `Served` | a request lost on its way, and an answer lost after the request took effect |

A replica that dies in the middle of an operation is a caller that takes no
further step, which every behaviour allows. `EtagVisible` says whether the answer
of a query carries `odata.etag`. The code asks for `odata=nometadata` (`:129`), so it
does not, and `If-Match` is `*`: every instance sets `EtagVisible` to FALSE, and the
theorems hold for both values. `Overtaken(c)` says that another write took effect on
the run since `c` read it. The service itself is external: it is modelled from the
status codes and headers the code relies on.

`RunStoreContract` is one record per run. A call has its effect at one
instant between its start and its answer, or it has none: it may be refused only
if the run is gone or another call took effect on it since it started, or, for a
claim, if the run is not claimable. What it has its effect on is the current record if
the store `Compares`; if it does not, a record the run had since the call started
(`seen`), so that what other calls did in between may be taken back, but nothing older
returns, and no write brings a run back that is gone.

### AdvisoryRouting and AdvisoryPipeline

`AdvisoryRouting` translates the tables after they were parsed: a roster row, a catalog
row and an intent are records and sets of words, and a request is the words it holds.
`PlanAdvisoryStages` is the plan, `PlanCouncil` the lenses that are seated,
`ResolveProfile` what a name selects, `Gated` and `IsAdvisoryOnly` the gate,
`ParseMemberVerdict` and `SynthesizeVerdict` the council.

| Actions | Code |
| --- | --- |
| `Classify`, `Approve`, `WorkerDrives` | the gate of `startHttpRun`, which holds the run or queues it; the operator, without whom a replica's poll drives neither; the worker, which needs one for a held run only |
| `OtherRunSeeds`, `Open` | another run of the project, `withMemory`; the worker's coordinator has no recorder and keeps the roster it was asked for (`Recorded`) |
| `Check`, `OfferExtension`, `DispatchCouncil` | the head of the stage loop: the ceiling, then the kind of the stage |
| `MemberAnswers`, `Synthesize` | `runCouncil`: the members are dispatched together and answer in any order |
| `PersonaAnswers`, `BackendFails` | one completion |
| `PersistStage`, `PersistVerdict`, `PersistFails` | the calls of `StoreAdvisoryPersistence` |
| `Decide`, `Resume`, `Finish`, `Charge` | halts and pauses, `opts.resume`, the compiled artifact and its hold, the tenant's spend |

A section is the index of its stage. The cost ceiling (`metered`) and the final hold
are options of `runAdvisoryPipeline` that the entry points leave out and the tests set;
the model takes both ways.

### SquadTracking

Every call of the store is a step; a log is the sequence of its blocks under an
ETag. `queue` is `appendQueues`, one per process and path. A deliverable is the file
`<root>/<date>-<runId>.md`, so it is named by its run and its role's root (`RootOf`),
and a later stage of the run whose role has the same root replaces it (`Replaced`).
The date is the same for a whole run: one that passes midnight goes on in a new file.

| Actions | Code |
| --- | --- |
| `Open`, `Seed`, `Index` | `SquadRunRecorder.open`: `SquadLedger.seed` file by file, then the index |
| `CompleteStage`, `FinishPut`, `NothingToFinish` | `recordStage`, `finishDeliverable` |
| `AppendGet`, `AppendPut`, `AppendConflict` | `append` and `appendOnce` |
| `ReadTurn`, `MergeState`, `PutState` | `closeRun` and `updateState`, which reads the file a second time |
| `ListHistory`, `ReadHistory`, `PutConsumption` | `rebuildConsumption` |
| `StoreFails`, `Crash` | a call that throws, where it is swallowed; a process that stops |

`acked`, `clobbered`, `early`, `seeders`, `overlapped` and `due` are history
variables: what resolved, and which races happened. The properties hold unless the
race they name did, so they say exactly what a compare would have to be added for.

### SquadMemory and MemoryBackends

`SquadMemory` has the entries of one project as sequences of lines. An entry over
the threshold is written as a blob (`SpillItem`, `SpillState`, `SpillHistory`) and
then as a pointer (`WriteItem`, `AppendDigest`, `WriteHistory`), two calls between
which everything else runs. `LoadContext`, `ReadState`, `AppendDigest` and
`LoseAppend` are `loadContext` and `appendStateDigest`; `ReadItem` and `WriteItem`
are a caller who reads and then sends a batch, for each entry with the ETag it read or,
`expectedEtag` being optional, without (`Taken`, `Omitted`). A call may fail
(`StoreFails`), and the answer of one that took effect may be lost (`LoseAppend`,
`LoseAnswer`). Under the mapping of `Contract` a
pointer whose blob is missing is an entry of a line that is not a line, which
`SquadMemoryContract` forbids.

`MemoryBackends` has a call of the memory tools as the requests it makes of
whichever store holds its destination: `ReadEntry` or `ReadItem` and `ReadContent`;
`WriteFile`, `EnsureTable` and `PutEntity`, or `PutContent`; `FetchCurrent` or
`ReadBack` after a lost compare; and a listing as its pages. `TableIsThere` and
`TableRefused` settle the promise concurrent writers share. `ByHand` is a person in
the drive. A directory's ETag is a number per entry and a digest of the content, so
it is a pair; the services' are numbers that are never used twice. `AsRead` is what
a caller gets of them: the table is asked for `odata=nometadata`
(`azure-table-squad-memory.ts:103`), so its reads, and the newer entry of its
conflicts, have an empty ETag, and only the answer of a write has the real one
(`Again` is a caller that goes on with that). A write under the empty ETag sends an
empty `If-Match`; what the service makes of that (`EmptyIfMatch`), a refusal, a
conflict or a write that compares nothing, is left open.

### Deployment and HttpTransport

A deployment is the set of switches that are on and the choices made.
`Accepted` is the conjunction of the checks of `loadOperatorConfig`; `WebStarts`
and `WorkerStarts` what the two entry points add; `Destinations`, `Selectable`,
`HasDriver` and the rest what is built.

| Actions | Code |
| --- | --- |
| `Boot`, `Crash`, `Tick` | the process |
| `Arrive` | the socket binding and the head of `handle`, before the token is verified |
| `Refuse`, `Bare`, `Initialize`, `Serve`, `Approve` | from the verified token to the call of the engine or of a store: `EntraAuthenticator`, `SessionStore`, `handleToolCall`, `handleResources`, `handleAdminApprove` |
| `StartRun`, `HoldRun`, `ReleaseRun`, `PollRun`, `WriteMemory`, `Finish`, `WorkerDrives` | that call, reduced to what it may do; a run is created and then held, and the worker takes any that is running without a lease |

A request takes up to three steps, since the verification of a token and the call
are awaited. `AccessPolicy` has sessions that end only for a reason and never come
back, and grants: a session and a scope give one, a run or an entry takes one. A poll
drives a run of its tenant that an operator of the tenant released. In the background a
run is driven when it was released, or while its record does not say that it is held:
before the hold is written, if that write is lost, and for a queued run. The mapping
makes a request past its checks a grant, so a handler that acts on what was no longer,
or never, allowed has no step in the policy. The callers the policy lets in are those of
`Authentic`, the predicate `Serve` uses, so the checks of a token are translated and not
checked.

## What is checked

Runs that pass:

| Run | Question | Bounds |
| --- | --- | --- |
| `PollLapse` | `GateHolds`, `HeldNeedsApproval`, `OneLiveLease`, `QuotaBalanced`, `TerminalStays`, `TypeOK` when polls drive, drives outlive their leases, records expire and one fault happens: a crash, a call that fails, is refused or loses its answer, a budget | two replicas with one handler each, two runs, held pipelines and single tools |
| `PollTimely` | `SingleDriver`, `ArtifactMatchesStages` (but for runs approved again while driven), `ResultIsFinal` (but for a completion whose answer was lost) when no living drive outlives its lease; `ApprovedRunFinishes`: an approved run ends although the replica that drives it dies, unless the slots of a replica were all lost to claims that threw | two replicas, one run, three stages, two faults |
| `WorkerLiveness` | `ApprovedRunFinishes` with read-only polls and workers, one of which may die, lose a completion or find the budget exhausted | one replica, two workers, one run |
| `TableCas` | `AtomicOperations` (the refinement), `ClaimIsCas` and `ApprovalSticks` (both but for a write that was overtaken), `InsertFindsTable`, `TypeOK` over single requests, from before the table exists | two callers share a replica and a third has its own; two runs, three operations, one lost request or answer, two clock steps; no ETags in the answers |
| `Pipeline` | `VerdictMostRestrictive`, `SectionsFollowPlan`, `SpendIsRecorded`, `CallsArePermitted`, `RunEnds`, `TypeOK` of an advisory run, driven by a replica's polls or by the worker | five rosters cut from the shipped ones, five requests, three sets of deployed agents, every project roster, prices 0 and 1, a ceiling of 2 |
| `Tracking` | `AppendsKept`, `ClobberNeedsRace`, `OneRoster`, `TurnCountsClosedRuns`, `ConsumptionCoversRecorded`, `TypeOK` | two runs of one project, in one process or in two, seeded before or not; two roles of a run share a root; one fault |
| `Memory` | `NewestWritesKept`, `DigestHasHistory`, `BatchAnswered`, `ImplementsContract` (the refinement) | two runs and a batch of three items, one entry in it twice, each with its ETag or without; a digest of three lines; one failed call or lost answer |
| `Backends` | `CompareSeesContent`, `ConflictGivesNewer`, `ErrorNeedsTrouble` (all but for the empty ETag of the table's reads), `ListComplete`, `TypeOK` | two callers and a listing, a default destination of any kind and another one; three calls, one failure |
| `Http` | `ListedIsBacked` over every accepted deployment; `ImplementsPolicy` (the refinement), `TypeOK` over requests | 18 000 deployments, two of them served, one by polls and one by a worker; two requests in flight, one session id, one run, one restart, time up to twice the idle limit and over |

Runs that TLC must refute, each a disagreement between the code and what is
written about it (`PROJECT.json`, findings, quotes both):

| Run | Refutes | In short |
| --- | --- | --- |
| `GateWorker` | `GateHolds` | with a worker, a gated run is claimable between its `create` and its hold |
| `TableClaims` | `OneWinner` | two claims of one run, neither of which saw the other, both win: their PUTs say `If-Match: *` |
| `SilentDefault` | `NeverSilentDefault` | with the overflow store over named destinations, the name a call gives is not looked at |

### Bounds

Two actors and two runs are the smallest number with a race on one run and a second run
to compete for the slots; three would add only more of the same pairs, because every
handler works on one run at a time and handlers meet at a record or at a process's
counter. `PollTimely` has one run: its properties are about the handlers of a single
record, and its liveness graph stays small. `Lease = 1` makes a lease live or lapsed,
the only distinction `claim` draws; `Stages` is 3 where the order of sections matters.
The number of faults is bounded because each fault returns a handler to idle. In the
table runs the numbers of operations, clock steps and faults bound the state space:
three operations are a create and two rivals on its run, two clock steps let a lease
lapse and a record expire. Replicas with their handlers and runs are symmetric, so
`PollLapse` uses `SYMMETRY`, and the table runs do for their runs and for the callers of
one replica; the runs with a liveness property do not. `PollLapse` also has a `VIEW`
that leaves out the history `contested`, which no action reads and none of its
properties speaks of. `CHECK_DEADLOCK FALSE` is needed because run ids, operations and
the clock are bounded: when they are used up the system has nothing left to do.

`TableCas` and `TableClaims` run with `EtagVisible = FALSE`, as the code asks. In
`Tracking`, an analyst and a presenter write under the same root; an agent's history,
the decisions and the run's history are the three kinds of log; a `Capacity` of four
blocks is reached and passed; a run that crashed takes no further step, since a drive
that is taken over is another run of the tree. In `Memory`, a digest of three lines is
trimmed by the second new line, an artifact may be over the threshold or not, and three
attempts are the code's. In `Backends` a page holds one entry, so a listing of two
folders has several requests, and a third call meets the outcome of two others. In
`Http`, `Deployments` is a full deployment with any two switches flipped and a bare one
with any one, times the backends, the sets of destinations and the default; only the
requests of `Served` are followed. Clients name the sessions and runs they were told of,
or none. A session id is minted once, so one is enough for its whole life: opened, kept,
expired, ended or lost. Callers are symmetric.

### Fairness

`Fairness` in `RunLifecycle` says that a handler past a store call goes on (the
event loop resumes an awaited promise; a request either answers or throws), that
clients poll a run again and again while it lasts (`PollRead` is strongly fair:
a busy replica may refuse some polls, not all of them), that workers tick forever
(`runForever`), and that time passes and months end. Nothing is assumed of
approvals, crashes, faults or expiry.

These clients exist only while the record is open: nothing asks for a poll of a run
that is over. A claim that throws in a poll keeps its slot for ever, so with as many of
them as slots (`Starved`) a replica refuses every further poll; `ApprovedRunFinishes`
says so.

`FairSpec` in `AdvisoryPipeline` says that the pipeline goes on, by an answer or by a
failure, and nothing else: no operator need approve, and nobody need resume a paused
run, since no entry point passes `opts.resume`. `RunEnds` says accordingly that a run is
over or waits for a person, again and again: a held run, a paused one, and in a
deployment whose polls drive also a queued one, which waits for an approval nobody was
asked for (see the divergences). The other modules check safety only.

## What is proved

TLAPS checks every leaf of these, for any sets of processes, runs, tenants and
operators and any bounds.

`RunLifecycleProofs`:

- `TypeCorrect`. `TypeOK` is not inductive: a step out of `driving` needs the
  handler's run and tenant to be real. `TypeInv` adds `WellFormed`, which says
  which fields of a job are set at which place.
- `GateNeverBypassed`, `HoldsAreReleasedByApproval`, `LiveLeaseIsUnique`,
  `FinishedRunsStay`, for deployments without a worker (`Workers = {}`, the
  `driveOnPoll` deployment). `GateInv` carries them: ids are fresh until returned;
  while a run is being started nobody but its starter knows it; a poll past its
  check is on an approved run; a live drive's lease is covered by the one on the
  record. The condition on `Workers` is needed: `GateWorker` refutes the first
  one without it.
- `QuotaIsBalanced`, in every deployment: the count is that of the handlers in a slot
  and of the claims of polls that threw, whose slot nobody gives back. `QuotaInv` adds
  that the handlers in a slot are a finite set, which makes its cardinality mean
  something.
- `RunsHaveOneDriver`, `ArtifactsMatchStages` and `ResultsAreFinal`, for deployments
  without a worker whose living drives end within their leases (`DrivesFitLease`,
  what `PollTimely` is checked under). `FitInv` carries them on top of `GateInv`: a
  drive is within its lease, so it is the only writer of its record's stages; the record
  runs, unless the drive missed the answer of its completion, its stages end in the
  sections this drive persisted, and what `recordStage` has read is still there. Only an
  approval that comes while the run is driven can make such a write lose its race
  (`RaceFits`), and then the run is `contested`. Without `DrivesFitLease` two drives
  share a record: see the divergences.

`AzureTableRunStoreProofs`:

- `StoreTypeCorrect` and `InsertsFindTheTable`, whatever the service answers.
- `ClaimHasOneWinner`, `ApprovalsStick` and `StoreIsAtomic`, the refinement of
  `RunStoreContract`, for both values of `EtagVisible`: `OneWinner` follows when it is
  TRUE, and when it is FALSE each exception is a write that was overtaken. `StoreInv`
  carries them: while the ETag an operation fetched is the current one, what it is about
  to put is its own result on the current record, and a claim's run is still claimable;
  otherwise it is its result on a record the run had since the operation started
  (`Watched`); what a reader is about to delete has expired and stays so; nobody else
  creates the run a create works on.

`HttpTransportProofs`:

- `BoundaryTypeCorrect`, `ListedToolsAreBacked` and `BoundaryKeepsPolicy`, the
  refinement of `AccessPolicy`: under the mapping each step of a request is a session
  that opens or ends for a reason, a grant that is given or used, or nothing. The
  invariant says that a request in flight passed the checks made before its token was
  verified, and what a call is let do, for which tenant and where.

`MemoryBackendsProofs`:

- `BackendsTypeCorrect`, `CompareIsOfContent`, `ConflictsTellNewer`, `ErrorsHaveCauses`
  and `ListsAreComplete`. `BackendsInv` carries them: a version is never used twice for
  different contents of a directory, a table or a drive; what a caller has read is what
  the version it holds had (`Basis`, also between the two requests of a drive), unless
  it holds the empty ETag of a table's read (`Blind`); a table is there when an entity
  is sent to it (`Progress`); and a listing has found, or has still ahead of it, what
  was there all along (`Walked`).

`SquadMemoryProofs`:

- `NewestLinesKept`, `DigestsHaveHistory`, `BatchesAreAnswered` and
  `MemoryImplementsContract`, the refinement of `SquadMemoryContract`. `MemoryInv`
  carries them: a payload is stored before its pointer (`BlobsFirst`); an entry that was
  read is the same entry under the same ETag (`Fresh`), so a compare that succeeds adds
  to what is there; a run's digest comes after its history (`Histories`); who read an
  entry as absent read it before its first write (`Absent`), so that a blind write takes
  a caller that left its ETag out, two writers or a batch that names the entry twice. Of
  a batch, what was answered ok was written, and what was written was answered ok or,
  its answer being lost, as failed, and never as a conflict (`Answered`). A lemma says
  that trimming keeps the last lines (`Trims`).

`AdvisoryPipelineProofs`:

- `PlansFit`, a lemma about the operator `PlanAdvisoryStages` for every request, profile
  and cast: a plan has at most one council, seated by exactly the deployed members of the
  lenses the request touches, and behind the plan stage if there is a lead. It rests on
  what the filters keep (`KeptFacts` of `DataFacts`).
- `PipelineTypeCorrect`, `VerdictsAreMostRestrictive`, `SectionsAreThePlan`,
  `LedgerIsComplete` and `StopsAreKept`, that every call is permitted. `PipeInv` carries
  them, in six parts: where the run is in its plan (`StepInv`); how many sections are
  produced and persisted there, and which one is handed on (`SectionsInv`); that there
  is no verdict while the council is ahead, that the members that answered are seated
  and answered once, so that as many opinions as seats are all the seats (`JudgedInv`);
  that a run that must stop is not before a call (`StopInv`); that a gated run nobody
  approved is held, or has an advisory roster and is queued or the worker's (`GateInv`);
  and that in a council the backend's bill exceeds the ledger by what the members that
  answered have cost (`MoneyInv`).

`SquadTrackingProofs`:

- `TrackingTypeCorrect`. `TypeInv` adds to `TypeOK` the place of each run in its
  protocol (`PlaceInv`): which stage it is at, which seed files are left to it, that
  only an append holds a log it has read.
- `OneRosterPerProject` and `TurnsAreCounted`. `RosterInv` says that every profile kept
  anywhere (a draft of `state.json`, what a run read) is that of `team.md`; `TurnInv`
  that one closer at a time holds a draft, which is one turn ahead of the file.
- `ReplacedLogsNeedARace`. An append is in its queue, and at its head once it has read
  (`QueueInv`); ETags grow, and a log under the same ETag is the same log (`EtagInv`);
  who opened before the last seed file is known (`EarlyInv`). So a log that was read
  as absent still is, unless one of the two races happened (`RaceInv`).
- `AcknowledgedAppendsAreKept`, since then a put extends what is there, and the file a
  block names is only replaced by a later stage of its run (`KeptInv`), and
  `ConsumptionIsComplete`, since what a rebuild owes is in its totals or in a file it
  still has to read (`RebuildInv`).

They rest on the `ASSUME`s of the modules (disjoint process sets, a null operator that
is not one, natural bounds, a lease that is not zero, names of runs and callers that
are not those of entries; of the tracking tree, that runs and roles are finitely many,
that the council and the intake validator leave no deliverable (`profiles.ts:286-291`),
and that no role has the name of a file a role leaves), which TLC evaluates in each run.

Only model-checked: the liveness properties (`ApprovedRunFinishes`, `RunEnds`), which
are out of the prover's reach. So are theorems of the library that take an operator:
`DataFacts` has induction over a set of naturals instead, which is enough where what is
proved by induction can be written as a set. Every other property of a passing run is
stated by a theorem.

## Divergences not kept as runs

While the code was modelled these were met as well. The ones with a definition were
refuted by TLC on an instance of these modules; they are kept here and not as runs.

Runs and gates:

- `embedded.ts:828`: `startHttpRun` compares `heldCounts` with the cap before two
  awaits and stores the value it read plus one after them, so concurrent starts pass
  the cap together ("MEDIUM-2: cap outstanding held runs per tenant", `:814`).
- `embedded.ts:919-924`: `pollRun` takes a concurrency slot and then awaits `claim`
  outside of the `try` whose `finally` gives it back. A claim that throws keeps the slot
  until the process restarts; with the default concurrency of a tenant used up that way,
  its replica drives none of its runs any more. `QuotaBalanced` counts these slots, and
  `ApprovedRunFinishes` has the exception.
- `embedded.ts:1026`: a completion whose answer is lost is taken for a failure and marked
  as such, and one that lost its race is taken for a success. `ResultIsFinal` has the
  first exception.
- `azure-table-run-state.ts:305-319`: an update that lost its race answers `undefined`,
  and no caller looks: a section is missing on the record when an operator approves the
  run again while it is driven (`contested`).
- `embedded.ts:289`: `decrementHeld` runs where a run is driven. With a background
  worker the count of the replica that started it only grows, until the cap refuses
  the tenant.
- `embedded.ts:891`: a run that proceeded through the gate never gets an approval, and
  without a worker `pollRun` waits for one ("execution driven by the poll", `:838`).
- `embedded.ts:962`: the two-stage pipeline's throw leaves the run running;
  `run-worker.ts:55-56` says the coordinator marks it failed.
- `embedded.ts:1130`: a lease is not renewed, so a drive longer than its lease is
  joined by a second one (`run-worker.ts:15-16`: cannot double-execute a run). This is
  why `SingleDriver` is checked under `DrivesFitLease`.
- `embedded.ts:1178`: an approval that loses its compare-and-swap is answered as if it
  were recorded; and `gates.ts:273` replaces an earlier approval, where
  `embedded.ts:1166` says the original record is kept.
- `gates.ts:297`: the gate judges the roster the client names; a run that was approved,
  or queued as advisory, is planned with the roster of its project
  (`embedded.ts:215`, `withMemory`), which need not be advisory. `AdvisoryPipeline`
  has both rosters, and `CallsArePermitted` says of which run what was permitted.
- `worker-main.ts:59-70`: the worker's coordinator has neither auto-memory nor a
  recorder, so a run it drives leaves no trace in the project.
- `durable-run-state.ts:60` says the file store survives restarts; a process that stops
  in the middle of a write leaves a file that does not parse.

Memory and tracking:

- `advisory-pipeline.ts:345` says that the produced stages "each own a distinct
  artifact". The roles lead, analyst, product-owner, designer and experimenter have the
  root `plans/`, and the file is `<root>/<date>-<runId>.md`
  (`squad-run-recorder.ts:150`), so of two of them in one run the later replaces the
  deliverable of the earlier. `AppendsKept` says which one is there.
- `azure-table-squad-memory.ts:237-240` calls a write "a true compare-and-swap"; the
  table is asked for no metadata (`:103`), so a read's ETag is empty (`:170`) and the
  compare of the write that follows is with an empty `If-Match`.
- `http-core.ts:1023-1027`: a write that took effect and lost its answer is answered as
  failed. `BatchAnswered` says so.
- `advisory-pipeline.ts:484`: a council's result keeps the usage of its last member,
  and `executeAdvisoryRun` charges the tenant by it; `RunCostLedger` does have all.
- `squad-ledger.ts:221`: a run that opens the project while another seeds it may append a
  decision that the seeding run's empty `decisions.md` discards (`:218-220`: every
  later append holds a real token). `ClobberNeedsRace` names the race.
- `auto-memory.ts:238`: the first digest of a project has no ETag to compare and
  replaces one written a moment before (`:188`: "both land their digest").
  `NewestWritesKept` has the exception.
- `azure-table-squad-memory.ts:202`: a listing takes the first answer of the query
  only; `ListComplete` has the exception.

Configuration:

- `operator-config.ts:482` accepts artifacts without auto-memory, while
  `server-http.ts:323` builds the recorder from both: `squad_history` is then listed
  over a tree nobody writes (`http-core.ts:525`: it "would promise an empty answer").
- `operator-config.ts:337`: a table among the memory targets is accepted without a
  storage account (`:292`: a malformed deployment fails at boot); `ListedIsBacked` has
  the exception.
- `session-store.ts:45`: an expired session leaves the map only when it is presented.

## What is not modelled

`PROJECT.json` lists every component. Left out for good: text composition and
parsing (catalog, personas, federation text, stdio), library cryptography, the
model's HTTP call, deck rendering, logging, the generators and the site. The file
run-state store serves one process with synchronous calls: the atomic calls of
`RunLifecycle` stand for it. The subscriptions of stdio sessions are a set of URIs
and a callback. In `RunLifecycle` the amount of the spend is one flag.

## Plan

1. Subscriptions of stdio sessions, with the writes of two clients.
2. The file store's write torn by a crash, against `RunStoreContract`.
