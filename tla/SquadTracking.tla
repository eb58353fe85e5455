---------------------------- MODULE SquadTracking ----------------------------
(***************************************************************************)
(* The tracking tree of one project, and the runs that write it: the squad *)
(* ledger seeds the tree, the run recorder writes what each finished stage *)
(* owes and closes the run, and the artifact store's append serialises the *)
(* writers of one log.                                                     *)
(*                                                                         *)
(* Every call of the store is a step.  A file's ETag counts its writes, 0  *)
(* for an absent file; a log is the sequence of its blocks.  Two runs of   *)
(* one process share the append queues of that process, two runs of        *)
(* different processes share only the store, whose reads carry the ETags   *)
(* its writes are compared with, as the directory's and the drive's do.    *)
(***************************************************************************)
EXTENDS Integers, SequencesExt, FiniteSets, Filtering

CONSTANTS
    Runs,           \* the runs of the project
    Processes,      \* the server processes (replicas)
    Homes,          \* a set of [Runs -> Processes]: where runs may be driven
    SeededAs,       \* the profiles the project may already be seeded under
    Asked,          \* [Runs -> Profiles]: the profile the caller names
    Stages,         \* [Runs -> Seq(Roles)]: the stages a run completes
    Profiles,       \* the profiles a squad can be cast under
    Roles,          \* roles, and "council"
    RootOf,         \* the roles the roster gives a deliverable root, and its
                    \* root, which other roles may have too
    Attempts,       \* APPEND_CAS_ATTEMPTS
    Capacity,       \* ARTIFACT_MAX_CHARS, in blocks of one log
    MaxFaults,      \* bound on failed store calls and crashes
    Unseeded        \* a project without team.md, or without state.json

ASSUME RolesAssumption ==
    /\ Stages \in [Runs -> Seq(Roles)] /\ Asked \in [Runs -> Profiles]
    /\ Homes \subseteq [Runs -> Processes] /\ SeededAs \subseteq Profiles
    /\ DOMAIN RootOf \subseteq Roles /\ Unseeded \notin Profiles
ASSUME BoundsAssumption ==
    /\ Attempts \in Nat \ {0} /\ Capacity \in Nat \ {0} /\ MaxFaults \in Nat
ASSUME FiniteAssumption == IsFiniteSet(Runs) /\ IsFiniteSet(Roles)

VARIABLES
    home,       \* [Runs -> Processes]: where a run is driven
    team,       \* the profile team.md was cast under, Unseeded when absent
    state,      \* state.json: [profile, turn]; profile Unseeded when absent
    log,        \* [LogPaths -> [etag, blocks]]: the append-only files
    artifacts,  \* [file, run, stage]: the deliverables, decks and backlogs
                \* stored, and the stage that wrote them last
    consumption,\* the dispatches consumption.md accounts for
    queue,      \* [Processes -> [LogPaths -> Seq(Runs)]]: appendQueues
    pc,         \* [Runs -> where the run is]
    stage,      \* [Runs -> index of the stage at hand]
    profile,    \* [Runs -> the profile the run goes on under]
    context,    \* [Runs -> the profile its history block names]
    read,       \* [Runs -> the log the append at hand has read, or Unread]
    tries,      \* [Runs -> lost compares of the append at hand]
    todo,       \* [Runs -> the files left to write or to read]
    draft,      \* [Runs -> the state.json the run is about to write]
    totals,     \* [Runs -> the dispatches its rebuild has read]
    faults,     \* faults so far
    seeders,    \* runs that found no team.md
    early,      \* runs that opened, or failed to, before the last seed file
    acked,      \* <<path, block>>: appends that resolved
    clobbered,  \* logs an unconditional write replaced
    closed,     \* runs that wrote a turn
    overlapped, \* runs whose update of state.json met another's
    due         \* [Runs -> acked when its rebuild started]

tree  == <<team, state, log, artifacts, consumption>>
scratch == <<todo, draft, totals>>
append == <<read, tries>>
opened == <<profile, context>>
ghosts == <<seeders, early, acked, clobbered, closed, overlapped, due>>
vars  == <<home, tree, queue, pc, stage, opened, append, scratch, faults, ghosts>>

Decisions == <<"log", "decisions">>
Notifications == <<"log", "notifications">>
AgentHistory(role) == <<"history", role>>
RunHistory(r) == <<"run", r>>
HistoryPaths == {AgentHistory(role) : role \in Roles \ {"council"}}
LogPaths == {Decisions, Notifications} \cup HistoryPaths \cup {RunHistory(r) : r \in Runs}

Absent == [etag |-> 0, blocks |-> <<>>]
Unread == [etag |-> -1, blocks |-> <<>>]
NoState == [profile |-> Unseeded, turn |-> 0]

\* The verdicts of these roles are logged; they hand them to the coordinator,
\* so the roster gives them no root.
Deciding == {"council", "intake-validator"}
DeliverableRoles == DOMAIN RootOf
\* What a role may leave beside its deliverable, under names of their own.
ASSUME NamesAssumption ==
    /\ DOMAIN RootOf \cap Deciding = {}
    /\ \A role \in DOMAIN RootOf : RootOf[role] \notin {"deck yaml", "deck", "backlog"}

SeedFiles == <<"team", "routing", "state", "decisions", "notifications">>
Appending == {"history", "run history", "decision"}
PC == {"open", "seed", "index", "stage", "finish", "close", "update", "put state",
       "list", "rebuild", "done", "dead"} \cup Appending

Init ==
    /\ home \in Homes
    /\ \/ /\ team = Unseeded /\ state = NoState
          /\ log = [p \in LogPaths |-> Absent]
       \/ /\ team \in SeededAs /\ state = [profile |-> team, turn |-> 0]
          /\ log = [p \in LogPaths |-> IF p \in {Decisions, Notifications} \cup HistoryPaths
                                       THEN [Absent EXCEPT !.etag = 1] ELSE Absent]
    /\ artifacts = {} /\ consumption = {}
    /\ queue = [x \in Processes |-> [p \in LogPaths |-> <<>>]]
    /\ pc = [r \in Runs |-> "open"] /\ stage = [r \in Runs |-> 1]
    /\ profile = Asked /\ context = [r \in Runs |-> Unseeded]
    /\ read = [r \in Runs |-> Unread] /\ tries = [r \in Runs |-> 0]
    /\ todo = [r \in Runs |-> <<>>] /\ totals = [r \in Runs |-> {}]
    /\ draft = [r \in Runs |-> NoState]
    /\ faults = 0
    /\ seeders = {} /\ early = {} /\ acked = {} /\ clobbered = {} /\ closed = {} /\ overlapped = {}
    /\ due = [r \in Runs |-> {}]

Role(r) == Stages[r][stage[r]]
Live(r) == pc[r] \notin {"done", "dead"}
Goto(r, where) == pc' = [pc EXCEPT ![r] = where]
\* A run that completes no stage closes at once.
FirstStage(r) == IF Stages[r] = <<>> THEN "close" ELSE "stage"
-----------------------------------------------------------------------------
(* Opening a run: the ledger is seeded once, then the index is read. *)

IfEarly(r) == IF log[Notifications].etag = 0 THEN early \cup {r} ELSE early

\* Mutant: a later run re-casts the squad under the profile it asks for.
Recast(r) == Asked[r]
\* An existing team.md wins over the profile the caller names.
Effective(r) == team

Open(r) ==
    /\ pc[r] = "open"
    /\ early' = IfEarly(r)
    /\ IF team = Unseeded
       THEN /\ seeders' = seeders \cup {r}
            /\ todo' = [todo EXCEPT ![r] = SeedFiles]
            /\ Goto(r, "seed") /\ UNCHANGED profile
       ELSE /\ profile' = [profile EXCEPT ![r] = Effective(r)]
            /\ Goto(r, "index") /\ UNCHANGED <<seeders, todo>>
    /\ UNCHANGED <<home, tree, queue, stage, context, append, draft, totals, faults, acked,
                   clobbered, closed, overlapped, due>>

\* A replaced log is empty again, under a new ETag.
Emptied(p, old) == [etag |-> old.etag + 1, blocks |-> <<>>]

\* SquadLedger.replace, file by file: no ETag, so nothing is compared.
Seed(r) ==
    /\ pc[r] = "seed"
    /\ LET f == Head(todo[r])
           paths == {<<"log", f>>} \cap {Decisions, Notifications}
       IN  /\ team' = IF f = "team" THEN Asked[r] ELSE team
           /\ state' = IF f = "state" THEN [profile |-> Asked[r], turn |-> 0] ELSE state
           /\ log' = [p \in LogPaths |-> IF p \in paths THEN Emptied(p, log[p]) ELSE log[p]]
           /\ clobbered' = clobbered \cup {p \in paths : log[p].etag # 0}
    /\ todo' = [todo EXCEPT ![r] = Tail(@)]
    /\ Goto(r, IF Len(todo[r]) = 1 THEN "index" ELSE "seed")
    /\ UNCHANGED <<home, artifacts, consumption, queue, stage, opened, append, draft,
                   totals, faults, seeders, early, acked, closed, overlapped, due>>

\* The index of the tree becomes a block of the run's context.
Index(r) ==
    /\ pc[r] = "index"
    /\ context' = [context EXCEPT ![r] = state.profile]
    /\ Goto(r, FirstStage(r))
    /\ UNCHANGED <<home, tree, queue, stage, profile, append, scratch, faults, ghosts>>
-----------------------------------------------------------------------------
(* Appends. *)

PathOf(r) == CASE pc[r] = "history"     -> AgentHistory(Role(r))
               [] pc[r] = "run history" -> RunHistory(r)
               [] pc[r] = "decision"    -> Decisions
\* <root>/<day>-<run>.md: a later stage replaces what an earlier one left there
\* under the same root.
Deliverable(r) == RootOf[Role(r)]
Replaced(file, r) ==
    {a \in artifacts : a.file # file \/ a.run # r}
        \cup {[file |-> file, run |-> r, stage |-> stage[r]]}
\* A block names the run, the stage and the deliverable the stage left.
Block(r) == [run |-> r, stage |-> stage[r], role |-> Role(r),
             deliverable |-> Role(r) \in DeliverableRoles]

Finishing(role) == CASE role = "presenter"     -> <<"deck yaml", "deck">>
                     [] role = "product-owner" -> <<"backlog">>
                     [] OTHER -> <<>>

\* Mutant: an append runs as soon as it is called.
Unqueued(r, p) == TRUE
\* An append waits for those called before it in its process.
FirstInQueue(r, p) == Head(queue[home[r]][p]) = r

\* An append that settles, either way, lets the next one of its path start.
LeaveQueue(r) ==
    IF pc[r] \in Appending
    THEN [queue EXCEPT ![home[r]][PathOf(r)] = Kept(@, Runs \ {r})] ELSE queue

CallAppend(r, p, q) == [q EXCEPT ![home[r]][p] = Append(@, r)]

\* After the last stage the run closes.
NextStage(r) ==
    /\ stage' = [stage EXCEPT ![r] = @ + 1]
    /\ Goto(r, IF stage[r] = Len(Stages[r]) THEN "close" ELSE "stage")

\* What follows recordStage in the pipeline: a verdict is logged, or the next
\* stage is dispatched.
AfterRecord(r, q) ==
    IF Role(r) \in Deciding
    THEN Goto(r, "decision") /\ queue' = CallAppend(r, Decisions, q) /\ UNCHANGED stage
    ELSE NextStage(r) /\ queue' = q

AppendGet(r) ==
    /\ pc[r] \in Appending /\ read[r] = Unread
    /\ FirstInQueue(r, PathOf(r))
    /\ read' = [read EXCEPT ![r] = log[PathOf(r)]]
    /\ UNCHANGED <<home, tree, queue, pc, stage, opened, tries, scratch, faults, ghosts>>

\* Mutant: a write is never refused.
AnyEtag(r, p) == TRUE
\* The write is compared only when the file existed when it was read.
Compares(r, p) == read[r].etag \in {0, log[p].etag}

\* put() keeps the leading ARTIFACT_MAX_CHARS characters.
Bounded(blocks) == IF Len(blocks) <= Capacity THEN blocks ELSE SubSeq(blocks, 1, Capacity)

AppendPut(r) ==
    /\ pc[r] \in Appending /\ read[r] # Unread
    /\ LET p == PathOf(r)
       IN  /\ Compares(r, p)
           /\ log' = [log EXCEPT ![p] =
                  [etag |-> @.etag + 1, blocks |-> Bounded(Append(read[r].blocks, Block(r)))]]
           /\ acked' = acked \cup {<<p, Block(r)>>}
           /\ clobbered' = IF read[r].etag = 0 /\ log[p].etag # 0
                           THEN clobbered \cup {p} ELSE clobbered
    /\ read' = [read EXCEPT ![r] = Unread] /\ tries' = [tries EXCEPT ![r] = 0]
    /\ CASE pc[r] = "history" ->
              /\ Goto(r, "run history")
              /\ queue' = CallAppend(r, RunHistory(r), LeaveQueue(r))
              /\ UNCHANGED <<stage, todo>>
         [] pc[r] = "run history" /\ Finishing(Role(r)) # <<>> ->
              /\ Goto(r, "finish") /\ todo' = [todo EXCEPT ![r] = Finishing(Role(r))]
              /\ queue' = LeaveQueue(r) /\ UNCHANGED stage
         [] pc[r] = "run history" /\ Finishing(Role(r)) = <<>> ->
              AfterRecord(r, LeaveQueue(r)) /\ UNCHANGED todo
         [] pc[r] = "decision" ->
              NextStage(r) /\ queue' = LeaveQueue(r) /\ UNCHANGED todo
    /\ UNCHANGED <<home, team, state, artifacts, consumption, opened, draft, totals, faults,
                   seeders, early, closed, overlapped, due>>

\* What a throw leaves behind: recordStage and recordDecision swallow it.
Swallow(r) ==
    /\ read' = [read EXCEPT ![r] = Unread] /\ tries' = [tries EXCEPT ![r] = 0]
    /\ todo' = [todo EXCEPT ![r] = <<>>]
    /\ IF pc[r] = "decision" THEN NextStage(r) /\ queue' = LeaveQueue(r)
       ELSE AfterRecord(r, LeaveQueue(r))

\* A lost compare is retried from the read, and after the last one it throws.
AppendConflict(r) ==
    /\ pc[r] \in Appending /\ read[r] # Unread
    /\ ~Compares(r, PathOf(r))
    /\ IF tries[r] + 1 < Attempts
       THEN /\ tries' = [tries EXCEPT ![r] = @ + 1]
            /\ read' = [read EXCEPT ![r] = Unread]
            /\ UNCHANGED <<queue, pc, stage, todo>>
       ELSE Swallow(r)
    /\ UNCHANGED <<home, tree, opened, draft, totals, faults, ghosts>>
-----------------------------------------------------------------------------
(* Recording a stage. *)

WriteDeliverable(r) ==
    IF Role(r) \in DeliverableRoles THEN Replaced(Deliverable(r), r) ELSE artifacts

\* The stage completes.  A council only leaves its verdict; a role with a root
\* leaves its deliverable there before its history says so.
CompleteStage(r) ==
    /\ pc[r] = "stage"
    /\ artifacts' = WriteDeliverable(r)
    /\ IF Role(r) = "council"
       THEN Goto(r, "decision") /\ queue' = CallAppend(r, Decisions, queue)
       ELSE Goto(r, "history") /\ queue' = CallAppend(r, AgentHistory(Role(r)), queue)
    /\ UNCHANGED <<home, team, state, log, consumption, stage, opened, append, scratch,
                   faults, ghosts>>

\* finishDeliverable: the deck's source and then its pointer, or the backlog.
\* An output that is not a deck or a backlog leaves nothing more.
FinishPut(r) ==
    /\ pc[r] = "finish"
    /\ artifacts' = Replaced(Head(todo[r]), r)
    /\ todo' = [todo EXCEPT ![r] = Tail(@)]
    /\ IF Len(todo[r]) > 1 THEN UNCHANGED <<pc, stage, queue>> ELSE AfterRecord(r, queue)
    /\ UNCHANGED <<home, team, state, log, consumption, opened, append, draft, totals,
                   faults, ghosts>>

NothingToFinish(r) ==
    /\ pc[r] = "finish" /\ todo[r] = Finishing(Role(r))
    /\ todo' = [todo EXCEPT ![r] = <<>>]
    /\ AfterRecord(r, queue)
    /\ UNCHANGED <<home, tree, opened, append, draft, totals, faults, ghosts>>
-----------------------------------------------------------------------------
(* Closing a run: the turn, then the consumption ledger. *)

Closers == {r \in Runs : pc[r] \in {"update", "put state"}}

ReadTurn(r) ==
    /\ pc[r] = "close"
    /\ draft' = [draft EXCEPT ![r] = state]
    /\ overlapped' = overlapped \cup (IF Closers = {} THEN {} ELSE Closers \cup {r})
    /\ Goto(r, "update")
    /\ UNCHANGED <<home, tree, queue, stage, opened, append, todo, totals, faults, seeders,
                   early, acked, clobbered, closed, due>>

\* Mutant: the patch replaces the file.
PatchOnly(r) == [turn |-> draft[r].turn + 1]
\* Mutant: the turn of the request is counted as well as the one of the run.
TwiceAdvanced(r) == [profile |-> state.profile, turn |-> state.turn + 2]
\* updateState reads the file again: the patch holds the turn of the first
\* read plus one, the rest is of the second.
Patched(r) == [profile |-> state.profile, turn |-> draft[r].turn + 1]

MergeState(r) ==
    /\ pc[r] = "update"
    /\ draft' = [draft EXCEPT ![r] = Patched(r)]
    /\ Goto(r, IF state.profile = Unseeded THEN "list" ELSE "put state")
    /\ UNCHANGED <<home, tree, queue, stage, opened, append, todo, totals, faults, ghosts>>

PutState(r) ==
    /\ pc[r] = "put state"
    /\ state' = draft[r]
    /\ closed' = closed \cup {r}
    /\ Goto(r, "list")
    /\ UNCHANGED <<home, team, log, artifacts, consumption, queue, stage, opened, append,
                   scratch, faults, seeders, early, acked, clobbered, overlapped,
                   due>>

\* Mutant: the rebuild reads the history of the last agent only.
LastHistory(r) == {p \in HistoryPaths : p[2] = Last(Stages[r])}
\* Every agent history there is; run summaries are passed over.
HistoryFiles(r) == {p \in HistoryPaths : log[p].etag # 0}

ListHistory(r) ==
    /\ pc[r] = "list"
    /\ todo' = [todo EXCEPT ![r] = SetToSeq(HistoryFiles(r))]
    /\ totals' = [totals EXCEPT ![r] = {}]
    /\ due' = [due EXCEPT ![r] = acked]
    /\ Goto(r, "rebuild")
    /\ UNCHANGED <<home, tree, queue, stage, opened, append, draft, faults, seeders, early,
                   acked, clobbered, closed, overlapped>>

ReadHistory(r) ==
    /\ pc[r] = "rebuild" /\ todo[r] # <<>>
    /\ totals' = [totals EXCEPT ![r] = @ \cup ToSet(log[Head(todo[r])].blocks)]
    /\ todo' = [todo EXCEPT ![r] = Tail(@)]
    /\ UNCHANGED <<home, tree, queue, pc, stage, opened, append, draft, faults, ghosts>>

PutConsumption(r) ==
    /\ pc[r] = "rebuild" /\ todo[r] = <<>>
    /\ consumption' = totals[r]
    /\ Goto(r, "done")
    /\ UNCHANGED <<home, team, state, log, artifacts, queue, stage, opened, append, scratch,
                   faults, ghosts>>
-----------------------------------------------------------------------------
(* Faults. *)

Opening   == {"open", "seed", "index"}
Recording == Appending \cup {"stage", "finish"}

\* The store call at hand throws.  Opening goes on under the profile asked
\* for, recording goes on with what follows, and closing is given up.
StoreFails(r) ==
    /\ Live(r) /\ faults < MaxFaults /\ faults' = faults + 1
    /\ \/ /\ pc[r] \in Opening
          /\ Goto(r, FirstStage(r)) /\ profile' = [profile EXCEPT ![r] = Asked[r]]
          /\ todo' = [todo EXCEPT ![r] = <<>>]
          /\ early' = IfEarly(r)
          /\ UNCHANGED <<queue, stage, append>>
       \/ /\ pc[r] \in Recording
          /\ pc[r] \in Appending => FirstInQueue(r, PathOf(r))
          /\ pc[r] = "stage" => Role(r) \in DeliverableRoles
          /\ Swallow(r) /\ UNCHANGED <<profile, early>>
       \/ /\ pc[r] \notin Opening \cup Recording
          /\ Goto(r, "done") /\ todo' = [todo EXCEPT ![r] = <<>>]
          /\ UNCHANGED <<queue, stage, profile, append, early>>
    /\ UNCHANGED <<home, tree, context, draft, totals, seeders, acked, clobbered, closed,
                   overlapped, due>>

\* A process stops, and its queues with it.
Crash(x) ==
    /\ faults < MaxFaults /\ faults' = faults + 1
    /\ \E r \in Runs : home[r] = x /\ Live(r)
    /\ pc' = [r \in Runs |-> IF home[r] = x /\ Live(r) THEN "dead" ELSE pc[r]]
    /\ queue' = [queue EXCEPT ![x] = [p \in LogPaths |-> <<>>]]
    /\ UNCHANGED <<home, tree, stage, opened, append, scratch, ghosts>>

Step(r) ==
    \/ Open(r) \/ Seed(r) \/ Index(r)
    \/ AppendGet(r) \/ AppendPut(r) \/ AppendConflict(r)
    \/ CompleteStage(r) \/ FinishPut(r) \/ NothingToFinish(r)
    \/ ReadTurn(r) \/ MergeState(r) \/ PutState(r)
    \/ ListHistory(r) \/ ReadHistory(r) \/ PutConsumption(r)

Next == (\E r \in Runs : Step(r) \/ StoreFails(r)) \/ (\E x \in Processes : Crash(x))

Spec == Init /\ [][Next]_vars
-----------------------------------------------------------------------------
\* The types of the variables.
BlockType == [run : Runs, stage : Nat, role : Roles, deliverable : BOOLEAN]
LogType == [etag : Int, blocks : Seq(BlockType)]
StateType == [profile : Profiles \cup {Unseeded}, turn : Nat]
TypeOK ==
    /\ home \in [Runs -> Processes]
    /\ team \in Profiles \cup {Unseeded} /\ state \in StateType
    /\ \A a \in artifacts : a.run \in Runs /\ a.stage \in DOMAIN Stages[a.run]
    /\ log \in [LogPaths -> LogType]
    /\ queue \in [Processes -> [LogPaths -> Seq(Runs)]]
    /\ pc \in [Runs -> PC]
    /\ stage \in [Runs -> Nat] /\ \A r \in Runs : stage[r] \in 1..(Len(Stages[r]) + 1)
    /\ profile \in [Runs -> Profiles] /\ context \in [Runs -> Profiles \cup {Unseeded}]
    /\ read \in [Runs -> LogType] /\ tries \in [Runs -> 0..(Attempts - 1)]
    /\ draft \in [Runs -> StateType]
    /\ faults \in 0..MaxFaults
    /\ seeders \cup closed \cup overlapped \subseteq Runs /\ clobbered \subseteq LogPaths

Blocks(p) == ToSet(log[p].blocks)

\* An append that resolved stays in its log, whatever is appended, failed,
\* retried or crashed after it: unless the log was replaced without a compare,
\* or has reached the size the store keeps.  The file a block names is stored,
\* whichever call failed, and holds what its stage left there, or a later stage
\* of the same run whose role has the same root; and a deck's source is stored.
AppendsKept ==
    /\ \A p \in LogPaths \ clobbered :
          Len(log[p].blocks) < Capacity =>
              \A e \in acked : e[1] = p => e[2] \in Blocks(p)
    /\ \A e \in acked : e[2].deliverable =>
          \E a \in artifacts :
              /\ a.file = RootOf[e[2].role] /\ a.run = e[2].run /\ a.stage >= e[2].stage
              /\ LET role == Stages[a.run][a.stage]
                 IN  role \in DeliverableRoles /\ RootOf[role] = a.file
    /\ \A a \in artifacts : a.file = "deck" =>
          \E y \in artifacts : y.file = "deck yaml" /\ y.run = a.run /\ y.stage >= a.stage

\* A log is replaced only when a run opens the project before another has
\* seeded its last file, or when two processes append the first block of an
\* agent's history: within a process the append queue arbitrates, and once the
\* project is seeded every decision is compared.
ClobberNeedsRace ==
    clobbered # {} /\ Cardinality(early) < 2 =>
        /\ Cardinality({home[r] : r \in Runs}) > 1
        /\ clobbered \subseteq HistoryPaths

\* A project has one roster: unless two runs seeded it, every run that opened
\* it goes on under the profile of team.md, whatever profile it asked for, and
\* is told that profile as the history of the project.
OneRoster ==
    Cardinality(seeders) < 2 =>
        \A r \in Runs : context[r] # Unseeded => profile[r] = team /\ context[r] = team

\* The turn counts the runs that closed, when their updates of state.json did
\* not meet and no second seeding reset it.
TurnCountsClosedRuns ==
    overlapped = {} /\ Cardinality(seeders) < 2 => state.turn = Cardinality(closed)

\* The consumption a run writes accounts for every dispatch that was recorded
\* before it listed the histories: no role of an earlier turn is dropped.
ConsumptionCoversRecorded ==
    [][\A r \in Runs : pc[r] = "rebuild" /\ pc'[r] = "done" /\ faults' = faults =>
          \A e \in due[r] :
              e[1] \in HistoryPaths \ clobbered /\ Len(log[e[1]].blocks) < Capacity =>
                  e[2] \in consumption']_vars
=============================================================================
