------------------------- MODULE SquadTrackingProofs -------------------------
(***************************************************************************)
(* Theorems about SquadTracking, for every set of runs, processes, roles   *)
(* and stages, any number of faults and any size of the logs.              *)
(*                                                                         *)
(* The types say where each run is in its protocol.  On them rest, one by  *)
(* one: the roster, the turn, the append queues and the ETags, the race a  *)
(* replaced log needs, what the logs keep, and what a rebuild accounts     *)
(* for.                                                                    *)
(***************************************************************************)
EXTENDS SquadTracking, DataFacts, FunctionTheorems, SequenceTheorems

(* What holds beside the types: the place of each run in its protocol. *)

Acks  == LogPaths \X BlockType
Files == {"team", "routing", "state", "decisions", "notifications",
          "deck yaml", "deck", "backlog"} \cup HistoryPaths

SeedTails == {<<"team", "routing", "state", "decisions", "notifications">>,
              <<"routing", "state", "decisions", "notifications">>,
              <<"state", "decisions", "notifications">>,
              <<"decisions", "notifications">>, <<"notifications">>}

ShapeInv ==
    /\ TypeOK
    /\ early \subseteq Runs /\ acked \subseteq Acks
    /\ due \in [Runs -> SUBSET Acks] /\ totals \in [Runs -> SUBSET BlockType]
    /\ todo \in [Runs -> Seq(Files)]

\* What the stage at hand leaves in a file.
Written(file, r) == [file |-> file, run |-> r, stage |-> stage[r]]

\* Where a run records, it is at one of its stages; only an append has read.
PlaceAt(r) ==
    /\ pc[r] \in Opening => stage[r] = 1
    /\ pc[r] \in Recording => stage[r] \in 1..Len(Stages[r])
    /\ pc[r] = "history" => Role(r) # "council"
    /\ pc[r] = "decision" => Role(r) \in Deciding
    /\ pc[r] \notin Appending \cup {"dead"} => read[r] = Unread
    /\ pc[r] = "seed" => todo[r] \in SeedTails
    /\ pc[r] = "finish" =>
          \/ todo[r] = Finishing(Role(r)) /\ todo[r] # <<>>
          \/ todo[r] = <<"deck">> /\ Written("deck yaml", r) \in artifacts
    /\ pc[r] = "rebuild" => todo[r] \in Seq(HistoryPaths)
PlaceInv == \A r \in Runs : PlaceAt(r)

TypeInv == ShapeInv /\ PlaceInv

AtMostOne(S) == \A a, b \in S : a = b

\* Who seeds, and what team.md is then.
SeederInv ==
    /\ \A r \in Runs :
          /\ pc[r] = "seed" => r \in seeders
          /\ pc[r] = "seed" /\ Head(todo[r]) # "team" => team # Unseeded
          /\ pc[r] \in Opening => context[r] = Unseeded
          /\ pc[r] \in {"open", "seed"} => profile[r] = Asked[r]

\* One seeder: every profile that is kept anywhere is that of team.md.
RosterInv ==
    AtMostOne(seeders) =>
       /\ state.profile \in {Unseeded, team}
       /\ \A r \in Runs :
             /\ draft[r].profile \in {Unseeded, team} /\ context[r] \in {Unseeded, team}
             /\ context[r] # Unseeded => profile[r] = team
             /\ pc[r] = "index" => team # Unseeded /\ profile[r] = team
             /\ pc[r] = "seed" => team = IF Head(todo[r]) = "team" THEN Unseeded ELSE Asked[r]

\* One closer at a time: its draft is one turn ahead of state.json.
TurnInv ==
    /\ \A r \in Runs : r \in closed => pc[r] \in {"list", "rebuild", "done", "dead"}
    /\ overlapped = {} => AtMostOne(Closers)
    /\ overlapped = {} /\ AtMostOne(seeders) =>
          /\ state.profile = Unseeded => state.turn = 0 /\ closed = {}
          /\ state.turn = Cardinality(closed)
          /\ \A r \in Runs :
                /\ pc[r] = "update" => draft[r].turn = state.turn
                /\ pc[r] = "put state" => /\ draft[r].turn = state.turn + 1
                                          /\ draft[r].profile = state.profile
                                          /\ state.profile # Unseeded
                /\ pc[r] = "seed" /\ Head(todo[r]) \in {"team", "routing", "state"} =>
                      state.profile = Unseeded

Reading(r) == pc[r] \in Appending /\ read[r] # Unread

\* An append is in its queue, and at its head once it has read.
QueueInv ==
    \A r \in Runs :
       /\ pc[r] \in Appending => \E i \in 1..Len(queue[home[r]][PathOf(r)]) :
                                    queue[home[r]][PathOf(r)][i] = r
       /\ Reading(r) => Head(queue[home[r]][PathOf(r)]) = r

\* ETags only grow, and an absent log has acknowledged nothing.
EtagInv ==
    /\ \A p \in LogPaths : log[p].etag \in Nat /\ (log[p].etag = 0 => log[p] = Absent)
    /\ \A e \in acked : log[e[1]].etag # 0
    /\ \A r \in Runs : Reading(r) =>
          /\ read[r].etag \in 0..log[PathOf(r)].etag
          /\ read[r].etag = log[PathOf(r)].etag => read[r] = log[PathOf(r)]

OneHome == \A r, o \in Runs : home[r] = home[o]

\* The run that opened before the last seed file is alone until then.
EarlyInv ==
    /\ \A r \in early : pc[r] # "open"
    /\ log[Notifications].etag = 0 =>
          /\ \A r \in Runs : pc[r] \notin {"open", "dead"} => r \in early
          /\ log[Decisions].etag # 0 => early # {}
    /\ team = Unseeded => log[Notifications].etag = 0
    /\ log[Notifications].etag # 0 => log[Decisions].etag # 0
    /\ \A r \in Runs : pc[r] = "seed" =>
          /\ r \in early
          /\ Head(todo[r]) = "notifications" => log[Decisions].etag # 0

RaceInv ==
    /\ \A r \in Runs : Reading(r) =>
          /\ pc[r] = "run history" => read[r] = log[PathOf(r)]
          /\ pc[r] = "history" /\ OneHome => read[r] = log[PathOf(r)]
          /\ pc[r] = "decision" /\ AtMostOne(early) /\ read[r].etag = 0 => log[Decisions].etag = 0
    /\ AtMostOne(early) =>
          /\ \A r \in Runs : pc[r] = "seed" =>
                /\ log[Notifications].etag = 0
                /\ Head(todo[r]) # "notifications" => log[Decisions].etag = 0
          /\ clobbered \subseteq HistoryPaths
          /\ OneHome => clobbered = {}

\* What an append acknowledged is in the log.
LogsKept ==
    \A p \in LogPaths \ clobbered : Len(log[p].blocks) < Capacity =>
       \A e \in acked : e[1] = p => e[2] \in ToSet(log[p].blocks)

\* The file holds what stage s of the run left there, or a later one.
Stored(file, r, s) == \E a \in artifacts : a.file = file /\ a.run = r /\ a.stage >= s

\* A stored file is of a stage the run has reached, and of the role at hand then.
Beside == {"deck yaml", "deck", "backlog"}
Rooted(file, role) == role \in DeliverableRoles /\ RootOf[role] = file
FilesFit ==
    \A a \in artifacts : /\ a.stage \in Nat /\ a.stage <= stage[a.run]
                         /\ a.file \in Beside \/ Rooted(a.file, Stages[a.run][a.stage])

\* What a block names is stored, from before the append that names it.
NamedStored ==
    \A e \in acked : e[2].deliverable =>
       e[2].role \in DeliverableRoles /\ Stored(RootOf[e[2].role], e[2].run, e[2].stage)
HistoryStored ==
    \A r \in Runs : pc[r] \in {"history", "run history"} /\ Role(r) \in DeliverableRoles =>
       Stored(RootOf[Role(r)], r, stage[r])
DecksStored == \A a \in artifacts : a.file = "deck" => Stored("deck yaml", a.run, a.stage)

KeptInv == LogsKept /\ FilesFit /\ NamedStored /\ HistoryStored /\ DecksStored

\* What a rebuild owes is read, or still to be.
RebuildInv ==
    \A r \in Runs : pc[r] = "rebuild" =>
       /\ due[r] \subseteq acked
       /\ \A e \in due[r] :
             e[1] \in HistoryPaths \ clobbered /\ Len(log[e[1]].blocks) < Capacity =>
                e[2] \in totals[r] \/ e[1] \in ToSet(todo[r])
-----------------------------------------------------------------------------
(* What the types give. *)

LEMMA ShapeFacts ==
    ASSUME ShapeInv
    PROVE  /\ home \in [Runs -> Processes] /\ team \in Profiles \cup {Unseeded}
           /\ state \in StateType /\ log \in [LogPaths -> LogType]
           /\ queue \in [Processes -> [LogPaths -> Seq(Runs)]]
           /\ pc \in [Runs -> PC] /\ stage \in [Runs -> Nat]
           /\ \A r \in Runs : stage[r] \in 1..(Len(Stages[r]) + 1)
           /\ profile \in [Runs -> Profiles] /\ context \in [Runs -> Profiles \cup {Unseeded}]
           /\ read \in [Runs -> LogType] /\ tries \in [Runs -> 0..(Attempts - 1)]
           /\ draft \in [Runs -> StateType] /\ faults \in 0..MaxFaults
           /\ seeders \subseteq Runs /\ closed \subseteq Runs /\ overlapped \subseteq Runs
           /\ clobbered \subseteq LogPaths /\ early \subseteq Runs /\ acked \subseteq Acks
           /\ due \in [Runs -> SUBSET Acks] /\ totals \in [Runs -> SUBSET BlockType]
           /\ todo \in [Runs -> Seq(Files)]
           /\ \A a \in artifacts : a.run \in Runs /\ a.stage \in DOMAIN Stages[a.run]
  BY DEF ShapeInv, TypeOK

\* The shape again, from its parts after a step.
LEMMA ShapeNext ==
    ASSUME /\ home' \in [Runs -> Processes] /\ team' \in Profiles \cup {Unseeded}
           /\ state' \in StateType /\ log' \in [LogPaths -> LogType]
           /\ queue' \in [Processes -> [LogPaths -> Seq(Runs)]]
           /\ pc' \in [Runs -> PC] /\ stage' \in [Runs -> Nat]
           /\ \A r \in Runs : stage'[r] \in 1..(Len(Stages[r]) + 1)
           /\ profile' \in [Runs -> Profiles] /\ context' \in [Runs -> Profiles \cup {Unseeded}]
           /\ read' \in [Runs -> LogType] /\ tries' \in [Runs -> 0..(Attempts - 1)]
           /\ draft' \in [Runs -> StateType] /\ faults' \in 0..MaxFaults
           /\ seeders' \subseteq Runs /\ closed' \subseteq Runs /\ overlapped' \subseteq Runs
           /\ clobbered' \subseteq LogPaths /\ early' \subseteq Runs /\ acked' \subseteq Acks
           /\ due' \in [Runs -> SUBSET Acks] /\ totals' \in [Runs -> SUBSET BlockType]
           /\ todo' \in [Runs -> Seq(Files)]
           /\ \A a \in artifacts' : a.run \in Runs /\ a.stage \in DOMAIN Stages[a.run]
    PROVE  ShapeInv'
  BY DEF ShapeInv, TypeOK

LEMMA PathsAreLogs ==
    /\ Decisions \in LogPaths /\ Notifications \in LogPaths /\ HistoryPaths \subseteq LogPaths
    /\ \A r \in Runs : RunHistory(r) \in LogPaths
    /\ \A role \in Roles : role # "council" => AgentHistory(role) \in HistoryPaths
    /\ Decisions # Notifications
    /\ Decisions \notin HistoryPaths /\ Notifications \notin HistoryPaths
    /\ \A r \in Runs : RunHistory(r) \notin HistoryPaths \cup {Decisions, Notifications}
    /\ \A r, o \in Runs : RunHistory(r) = RunHistory(o) => r = o
  BY DEF LogPaths, HistoryPaths, Decisions, Notifications, AgentHistory, RunHistory

\* The role at hand, while there is one.
LEMMA RoleType ==
    ASSUME ShapeInv, NEW r \in Runs, stage[r] \in 1..Len(Stages[r])
    PROVE  Role(r) \in Roles
  <1>1. Stages[r] \in Seq(Roles)  BY RolesAssumption
  <1> QED  BY <1>1, ElementOfSeq DEF Role

LEMMA PathFacts ==
    ASSUME TypeInv, NEW r \in Runs
    PROVE  /\ pc[r] = "history" => PathOf(r) = AgentHistory(Role(r)) /\ PathOf(r) \in HistoryPaths
           /\ pc[r] = "run history" => PathOf(r) = RunHistory(r)
           /\ pc[r] = "decision" => PathOf(r) = Decisions
           /\ pc[r] \in Appending => PathOf(r) \in LogPaths /\ PathOf(r) # Notifications
  <1>1. pc[r] \in Appending => stage[r] \in 1..Len(Stages[r])
    BY DEF TypeInv, PlaceInv, PlaceAt, Recording
  <1>2. pc[r] \in Appending => Role(r) \in Roles  BY <1>1, RoleType DEF TypeInv
  <1>3. pc[r] = "history" => Role(r) # "council"  BY DEF TypeInv, PlaceInv, PlaceAt
  <1>4. pc[r] = "history" => PathOf(r) = AgentHistory(Role(r))  BY DEF PathOf
  <1>5. pc[r] = "run history" => PathOf(r) = RunHistory(r)  BY DEF PathOf
  <1>6. pc[r] = "decision" => PathOf(r) = Decisions  BY DEF PathOf
  <1>7. pc[r] = "history" => PathOf(r) \in HistoryPaths
    BY <1>2, <1>3, <1>4, PathsAreLogs DEF Appending
  <1> QED  BY <1>4, <1>5, <1>6, <1>7, PathsAreLogs DEF Appending

LEMMA AbsentType == Absent \in LogType /\ Unread \in LogType /\ NoState \in StateType
  BY DEF Absent, Unread, LogType, NoState, StateType

LEMMA BlockIsBlock ==
    ASSUME ShapeInv, NEW r \in Runs, stage[r] \in 1..Len(Stages[r])
    PROVE  Block(r) \in BlockType
  <1>1. Role(r) \in Roles  BY RoleType
  <1>2. stage[r] \in Nat  BY ShapeFacts
  <1> QED  BY <1>1, <1>2 DEF Block, BlockType

\* What a bounded log keeps.
LEMMA BoundedFacts ==
    ASSUME NEW blocks \in Seq(BlockType)
    PROVE  /\ Bounded(blocks) \in Seq(BlockType)
           /\ Len(Bounded(blocks)) < Capacity => Bounded(blocks) = blocks
  <1>1. Capacity \in Nat /\ 1 <= Capacity  BY BoundsAssumption
  <1>2. CASE Len(blocks) <= Capacity  BY <1>2 DEF Bounded
  <1>3. CASE ~(Len(blocks) <= Capacity)
    <2>1. Bounded(blocks) = SubSeq(blocks, 1, Capacity)  BY <1>3 DEF Bounded
    <2>2. Len(blocks) \in Nat  OBVIOUS
    <2>3. Capacity \in 1..Len(blocks)  BY <1>1, <1>3, <2>2
    <2>4. SubSeq(blocks, 1, Capacity) \in Seq(BlockType)  BY <1>1, <1>3, <2>2
    <2>5. Len(SubSeq(blocks, 1, Capacity)) = Capacity  BY <1>1, <1>3, <2>2
    <2> QED  BY <1>1, <2>1, <2>4, <2>5
  <1> QED  BY <1>2, <1>3
-----------------------------------------------------------------------------
(* Queues. *)

QueueType == [Processes -> [LogPaths -> Seq(Runs)]]

LEMMA CallType ==
    ASSUME TypeInv, NEW r \in Runs, NEW p \in LogPaths, NEW q \in QueueType
    PROVE  /\ CallAppend(r, p, q) \in QueueType
           /\ CallAppend(r, p, q)[home[r]][p] = Append(q[home[r]][p], r)
           /\ \A x \in Processes, y \in LogPaths :
                 x # home[r] \/ y # p => CallAppend(r, p, q)[x][y] = q[x][y]
  <1>1. home[r] \in Processes  BY ShapeFacts DEF TypeInv
  <1>2. q[home[r]] \in [LogPaths -> Seq(Runs)]  BY <1>1 DEF QueueType
  <1>3. q[home[r]][p] \in Seq(Runs)  BY <1>2
  <1> DEFINE s == Append(q[home[r]][p], r)
             f == [q[home[r]] EXCEPT ![p] = s]
  <1>4. s \in Seq(Runs)  BY <1>3
  <1>5. CallAppend(r, p, q) = [q EXCEPT ![home[r]] = f]  BY DEF CallAppend
  <1> HIDE DEF s
  <1>6. f \in [LogPaths -> Seq(Runs)]  BY <1>2, <1>4
  <1>7. f[p] = s /\ \A y \in LogPaths : y # p => f[y] = q[home[r]][y]  BY <1>2
  <1> HIDE DEF f
  <1>8. [q EXCEPT ![home[r]] = f] \in QueueType  BY <1>6 DEF QueueType
  <1>9. \A x \in Processes : [q EXCEPT ![home[r]] = f][x] = IF x = home[r] THEN f ELSE q[x]
    BY DEF QueueType
  <1>10. CallAppend(r, p, q)[home[r]][p] = s  BY <1>1, <1>5, <1>7, <1>9
  <1>11. ASSUME NEW x \in Processes, NEW y \in LogPaths, x # home[r] \/ y # p
         PROVE  CallAppend(r, p, q)[x][y] = q[x][y]
    <2>1. CASE x = home[r]  BY <1>5, <1>7, <1>9, <1>11, <2>1
    <2>2. CASE x # home[r]  BY <1>5, <1>9, <2>2
    <2> QED  BY <2>1, <2>2
  <1> QED  BY <1>5, <1>8, <1>10, <1>11 DEF s

LEMMA LeaveType ==
    ASSUME TypeInv, NEW r \in Runs
    PROVE  /\ LeaveQueue(r) \in QueueType
           /\ pc[r] \notin Appending => LeaveQueue(r) = queue
           /\ pc[r] \in Appending =>
                 /\ LeaveQueue(r)[home[r]][PathOf(r)] =
                        Kept(queue[home[r]][PathOf(r)], Runs \ {r})
                 /\ \A x \in Processes, y \in LogPaths :
                       x # home[r] \/ y # PathOf(r) => LeaveQueue(r)[x][y] = queue[x][y]
  <1>0. queue \in QueueType  BY ShapeFacts DEF TypeInv, QueueType
  <1>1. CASE pc[r] \notin Appending  BY <1>0, <1>1 DEF LeaveQueue
  <1>2. CASE pc[r] \in Appending
    <2>1. home[r] \in Processes  BY ShapeFacts DEF TypeInv
    <2>2. PathOf(r) \in LogPaths  BY <1>2, PathFacts
    <2> DEFINE p == PathOf(r)
    <2>3. queue[home[r]] \in [LogPaths -> Seq(Runs)]  BY <1>0, <2>1 DEF QueueType
    <2>4. queue[home[r]][p] \in Seq(Runs)  BY <2>2, <2>3
    <2> DEFINE s == Kept(queue[home[r]][p], Runs \ {r})
               f == [queue[home[r]] EXCEPT ![p] = s]
    <2>5. s \in Seq(Runs)  BY <2>4, KeptFacts
    <2>6. LeaveQueue(r) = [queue EXCEPT ![home[r]] = f]  BY <1>2 DEF LeaveQueue
    <2> HIDE DEF s
    <2>7. f \in [LogPaths -> Seq(Runs)]  BY <2>3, <2>5
    <2>8. f[p] = s /\ \A y \in LogPaths : y # p => f[y] = queue[home[r]][y]
      BY <2>2, <2>3
    <2> HIDE DEF f
    <2>9. [queue EXCEPT ![home[r]] = f] \in QueueType  BY <1>0, <2>7 DEF QueueType
    <2>10. \A x \in Processes :
              [queue EXCEPT ![home[r]] = f][x] = IF x = home[r] THEN f ELSE queue[x]
      BY <1>0 DEF QueueType
    <2>11. LeaveQueue(r)[home[r]][p] = s  BY <2>1, <2>6, <2>8, <2>10
    <2>12. ASSUME NEW x \in Processes, NEW y \in LogPaths, x # home[r] \/ y # p
           PROVE  LeaveQueue(r)[x][y] = queue[x][y]
      <3>1. CASE x = home[r]  BY <2>6, <2>8, <2>10, <2>12, <3>1
      <3>2. CASE x # home[r]  BY <2>6, <2>10, <3>2
      <3> QED  BY <3>1, <3>2
    <2> QED  BY <1>2, <2>6, <2>9, <2>11, <2>12 DEF s
  <1> QED  BY <1>1, <1>2
-----------------------------------------------------------------------------
(* The steps that record a stage have one form. *)

\* The run writes at most one file.
Leaves(r) == artifacts' = artifacts \/ \E file : artifacts' = Replaced(file, r)

\* The run goes from a point of its recording on to w.
Records(r, w) ==
    /\ pc[r] \in Recording /\ w \in Recording \cup {"close"}
    /\ pc' = [pc EXCEPT ![r] = w]
    /\ stage' = [stage EXCEPT ![r] = IF w \in {"stage", "close"} THEN @ + 1 ELSE @]
    /\ w = "stage" => stage[r] # Len(Stages[r])
    /\ w = "history" => Role(r) # "council"
    /\ w = "decision" => Role(r) \in Deciding
    /\ w \notin Appending => read'[r] = Unread
    /\ w = "finish" => \/ todo'[r] = Finishing(Role(r)) /\ todo'[r] # <<>>
                       \/ todo'[r] = <<"deck">> /\ Written("deck yaml", r) \in artifacts'
    /\ read' = [read EXCEPT ![r] = read'[r]] /\ tries' = [tries EXCEPT ![r] = tries'[r]]
    /\ todo' = [todo EXCEPT ![r] = todo'[r]]
    /\ Leaves(r)
    /\ UNCHANGED <<home, team, state, consumption, profile, context, draft, totals, seeders,
                   early, closed, overlapped, due>>

LEMMA AtStage ==
    ASSUME TypeInv, NEW r \in Runs, pc[r] \in Recording
    PROVE  /\ stage[r] \in 1..Len(Stages[r]) /\ stage[r] \in Nat /\ Len(Stages[r]) \in Nat
           /\ Role(r) \in Roles /\ Block(r) \in BlockType
  <1>1. stage[r] \in 1..Len(Stages[r])  BY DEF TypeInv, PlaceInv, PlaceAt
  <1>2. Stages[r] \in Seq(Roles)  BY RolesAssumption
  <1> QED  BY <1>1, <1>2, RoleType, BlockIsBlock, ShapeFacts DEF TypeInv

\* Where a recorded stage leads, and the queue then.
LEMMA AfterRecordFacts ==
    ASSUME TypeInv, NEW r \in Runs, pc[r] \in Recording, NEW q, AfterRecord(r, q)
    PROVE  \E w \in {"decision", "stage", "close"} :
              /\ pc' = [pc EXCEPT ![r] = w]
              /\ stage' = [stage EXCEPT ![r] = IF w \in {"stage", "close"} THEN @ + 1 ELSE @]
              /\ w = "stage" => stage[r] # Len(Stages[r])
              /\ w = "decision" => Role(r) \in Deciding
              /\ queue' = IF w = "decision" THEN CallAppend(r, Decisions, q) ELSE q
  <1>0. stage \in [Runs -> Nat]  BY ShapeFacts DEF TypeInv
  <1>1. CASE Role(r) \in Deciding
    <2>1. /\ pc' = [pc EXCEPT ![r] = "decision"] /\ stage' = stage
          /\ queue' = CallAppend(r, Decisions, q)
      BY <1>1 DEF AfterRecord, Goto
    <2>2. stage' = [stage EXCEPT ![r] = @]  BY <1>0, <2>1
    <2> QED  BY <1>1, <2>1, <2>2
  <1>2. CASE Role(r) \notin Deciding /\ stage[r] = Len(Stages[r])
    <2>1. /\ pc' = [pc EXCEPT ![r] = "close"] /\ stage' = [stage EXCEPT ![r] = @ + 1]
          /\ queue' = q
      BY <1>2 DEF AfterRecord, NextStage, Goto
    <2> QED  BY <2>1
  <1>3. CASE Role(r) \notin Deciding /\ stage[r] # Len(Stages[r])
    <2>1. /\ pc' = [pc EXCEPT ![r] = "stage"] /\ stage' = [stage EXCEPT ![r] = @ + 1]
          /\ queue' = q
      BY <1>3 DEF AfterRecord, NextStage, Goto
    <2> QED  BY <1>3, <2>1
  <1> QED  BY <1>1, <1>2, <1>3

LEMMA NextStageFacts ==
    ASSUME NEW r \in Runs, NextStage(r)
    PROVE  \E w \in {"stage", "close"} :
              /\ pc' = [pc EXCEPT ![r] = w]
              /\ stage' = [stage EXCEPT ![r] = IF w \in {"stage", "close"} THEN @ + 1 ELSE @]
              /\ w = "stage" => stage[r] # Len(Stages[r])
  <1>1. stage' = [stage EXCEPT ![r] = @ + 1]  BY DEF NextStage
  <1>2. CASE stage[r] = Len(Stages[r])  BY <1>1, <1>2 DEF NextStage, Goto
  <1>3. CASE stage[r] # Len(Stages[r])  BY <1>1, <1>3 DEF NextStage, Goto
  <1> QED  BY <1>2, <1>3

\* A throw while recording.
LEMMA SwallowFacts ==
    ASSUME TypeInv, NEW r \in Runs, pc[r] \in Recording, Swallow(r)
    PROVE  /\ read' = [read EXCEPT ![r] = Unread] /\ tries' = [tries EXCEPT ![r] = 0]
           /\ todo' = [todo EXCEPT ![r] = <<>>]
           /\ \E w \in {"decision", "stage", "close"} :
              /\ pc' = [pc EXCEPT ![r] = w]
              /\ stage' = [stage EXCEPT ![r] = IF w \in {"stage", "close"} THEN @ + 1 ELSE @]
              /\ w = "stage" => stage[r] # Len(Stages[r])
              /\ w = "decision" => Role(r) \in Deciding
              /\ queue' = IF w = "decision" THEN CallAppend(r, Decisions, LeaveQueue(r))
                          ELSE LeaveQueue(r)
  <1>1. CASE pc[r] = "decision"
    <2>1. NextStage(r) /\ queue' = LeaveQueue(r)  BY <1>1 DEF Swallow
    <2> QED  BY <2>1, NextStageFacts DEF Swallow
  <1>2. CASE pc[r] # "decision"
    <2>1. AfterRecord(r, LeaveQueue(r))  BY <1>2 DEF Swallow
    <2> QED  BY <2>1, AfterRecordFacts DEF Swallow
  <1> QED  BY <1>1, <1>2

\* The four ways an append that is written goes on.
LEMMA AppendPutFacts ==
    ASSUME TypeInv, NEW r \in Runs, AppendPut(r)
    PROVE  /\ pc[r] \in Appending /\ read[r] # Unread /\ Compares(r, PathOf(r))
           /\ log' = [log EXCEPT ![PathOf(r)] =
                  [etag |-> log[PathOf(r)].etag + 1,
                   blocks |-> Bounded(Append(read[r].blocks, Block(r)))]]
           /\ acked' = acked \cup {<<PathOf(r), Block(r)>>}
           /\ clobbered' = IF read[r].etag = 0 /\ log[PathOf(r)].etag # 0
                           THEN clobbered \cup {PathOf(r)} ELSE clobbered
           /\ read' = [read EXCEPT ![r] = Unread] /\ tries' = [tries EXCEPT ![r] = 0]
           /\ UNCHANGED <<home, team, state, artifacts, consumption, opened, draft, totals,
                          faults, seeders, early, closed, overlapped, due>>
           /\ \E w \in {"run history", "finish", "decision", "stage", "close"} :
              /\ pc' = [pc EXCEPT ![r] = w]
              /\ stage' = [stage EXCEPT ![r] = IF w \in {"stage", "close"} THEN @ + 1 ELSE @]
              /\ w = "stage" => stage[r] # Len(Stages[r])
              /\ w = "decision" => Role(r) \in Deciding
              /\ w = "run history" => pc[r] = "history"
              /\ w = "finish" => Finishing(Role(r)) # <<>>
              /\ todo' = IF w = "finish" THEN [todo EXCEPT ![r] = Finishing(Role(r))] ELSE todo
              /\ queue' = IF w = "decision" THEN CallAppend(r, Decisions, LeaveQueue(r))
                          ELSE IF w = "run history"
                          THEN CallAppend(r, RunHistory(r), LeaveQueue(r)) ELSE LeaveQueue(r)
  <1>0. stage \in [Runs -> Nat]  BY ShapeFacts DEF TypeInv
  <1>1. /\ pc[r] \in Appending /\ read[r] # Unread /\ Compares(r, PathOf(r))
        /\ log' = [log EXCEPT ![PathOf(r)] =
                  [etag |-> log[PathOf(r)].etag + 1,
                   blocks |-> Bounded(Append(read[r].blocks, Block(r)))]]
        /\ acked' = acked \cup {<<PathOf(r), Block(r)>>}
        /\ clobbered' = IF read[r].etag = 0 /\ log[PathOf(r)].etag # 0
                           THEN clobbered \cup {PathOf(r)} ELSE clobbered
        /\ read' = [read EXCEPT ![r] = Unread] /\ tries' = [tries EXCEPT ![r] = 0]
        /\ UNCHANGED <<home, team, state, artifacts, consumption, opened, draft, totals,
                       faults, seeders, early, closed, overlapped, due>>
    BY DEF AppendPut
  <1>2. pc[r] \in Recording  BY <1>1 DEF Recording
  <1>3. CASE pc[r] = "history"
    <2>1. /\ Goto(r, "run history") /\ queue' = CallAppend(r, RunHistory(r), LeaveQueue(r))
          /\ UNCHANGED <<stage, todo>>
      BY <1>3 DEF AppendPut
    <2>2. stage' = [stage EXCEPT ![r] = @]  BY <1>0, <2>1
    <2> QED  BY <1>1, <1>3, <2>1, <2>2 DEF Goto
  <1>4. CASE pc[r] = "run history" /\ Finishing(Role(r)) # <<>>
    <2>1. /\ Goto(r, "finish") /\ todo' = [todo EXCEPT ![r] = Finishing(Role(r))]
          /\ queue' = LeaveQueue(r) /\ UNCHANGED stage
      BY <1>4 DEF AppendPut
    <2>2. stage' = [stage EXCEPT ![r] = @]  BY <1>0, <2>1
    <2> QED  BY <1>1, <1>4, <2>1, <2>2 DEF Goto
  <1>5. CASE pc[r] = "run history" /\ Finishing(Role(r)) = <<>>
    <2>1. AfterRecord(r, LeaveQueue(r)) /\ UNCHANGED todo  BY <1>5 DEF AppendPut
    <2> DEFINE q == LeaveQueue(r)
    <2>2. AfterRecord(r, q)  BY <2>1
    <2> HIDE DEF q
    <2>3. PICK w \in {"decision", "stage", "close"} :
              /\ pc' = [pc EXCEPT ![r] = w]
              /\ stage' = [stage EXCEPT ![r] = IF w \in {"stage", "close"} THEN @ + 1 ELSE @]
              /\ w = "stage" => stage[r] # Len(Stages[r])
              /\ w = "decision" => Role(r) \in Deciding
              /\ queue' = IF w = "decision" THEN CallAppend(r, Decisions, q) ELSE q
      BY <1>2, <2>2, AfterRecordFacts
    <2> QED  BY <1>1, <2>1, <2>3 DEF q
  <1>6. CASE pc[r] = "decision"
    <2>1. NextStage(r) /\ queue' = LeaveQueue(r) /\ UNCHANGED todo  BY <1>6 DEF AppendPut
    <2> QED  BY <1>1, <2>1, NextStageFacts
  <1> QED  BY <1>1, <1>3, <1>4, <1>5, <1>6 DEF Appending

LEMMA ShortSeqs ==
    ASSUME NEW S, NEW a \in S, NEW b \in S
    PROVE  <<>> \in Seq(S) /\ <<a>> \in Seq(S) /\ <<a, b>> \in Seq(S)
  OBVIOUS

LEMMA ShortTails ==
    /\ \A a, b : Head(<<a, b>>) = a /\ Tail(<<a, b>>) = <<b>> /\ Len(<<a, b>>) = 2
    /\ \A a : Head(<<a>>) = a /\ Tail(<<a>>) = <<>> /\ Len(<<a>>) = 1
  OBVIOUS

LEMMA FinishingFacts ==
    ASSUME NEW role
    PROVE  /\ Finishing(role) \in Seq(Files)
           /\ Finishing(role) \in {<<>>, <<"deck yaml", "deck">>, <<"backlog">>}
  <1>1. Finishing(role) \in {<<>>, <<"deck yaml", "deck">>, <<"backlog">>}
    <2>1. CASE role = "presenter"  BY <2>1 DEF Finishing
    <2>2. CASE role = "product-owner"  BY <2>2 DEF Finishing
    <2>3. CASE role # "presenter" /\ role # "product-owner"  BY <2>3 DEF Finishing
    <2> QED  BY <2>1, <2>2, <2>3
  <1>2. "deck yaml" \in Files /\ "deck" \in Files /\ "backlog" \in Files  BY DEF Files
  <1>3. <<>> \in Seq(Files) /\ <<"deck yaml", "deck">> \in Seq(Files)  BY <1>2, ShortSeqs
  <1>4. <<"backlog">> \in Seq(Files)  BY <1>2, ShortSeqs
  <1> QED  BY <1>1, <1>3, <1>4
-----------------------------------------------------------------------------
(* Each step that records, in that form. *)

\* The types of what such a step changes beside.
RecordTypes(r) ==
    /\ read'[r] \in LogType /\ tries'[r] \in 0..(Attempts - 1) /\ todo'[r] \in Seq(Files)
    /\ queue' \in QueueType /\ log' \in [LogPaths -> LogType]
    /\ acked' \subseteq Acks /\ clobbered' \subseteq LogPaths /\ faults' \in 0..MaxFaults

\* A store call that fails in each of the three parts of a run.
OpeningFails(r)   == StoreFails(r) /\ pc[r] \in Opening
RecordingFails(r) == StoreFails(r) /\ pc[r] \in Recording
ClosingFails(r)   == StoreFails(r) /\ pc[r] \notin Opening \cup Recording

LEMMA RecordingFailsFacts ==
    ASSUME NEW r \in Runs, RecordingFails(r)
    PROVE  /\ pc[r] \in Recording /\ faults < MaxFaults /\ faults' = faults + 1
           /\ pc[r] \in Appending => FirstInQueue(r, PathOf(r))
           /\ Swallow(r)
           /\ UNCHANGED <<home, tree, profile, context, draft, totals, seeders, early, acked,
                          clobbered, closed, overlapped, due>>
  BY DEF RecordingFails, StoreFails, Recording, Opening, Appending

LEMMA NoTries == 0 \in 0..(Attempts - 1)
  BY BoundsAssumption

LEMMA AppendGetRecords ==
    ASSUME TypeInv, NEW r \in Runs, AppendGet(r)
    PROVE  RecordTypes(r) /\ \E w : Records(r, w)
  <1>1. /\ pc[r] \in Appending /\ read[r] = Unread /\ read' = [read EXCEPT ![r] = log[PathOf(r)]]
        /\ UNCHANGED <<home, tree, queue, pc, stage, opened, tries, scratch, faults, ghosts>>
    BY DEF AppendGet
  <1>2. PathOf(r) \in LogPaths  BY <1>1, PathFacts
  <1>3. ShapeInv  BY DEF TypeInv
  <1>4. /\ pc[r] \in Recording /\ (pc[r] = "history" => Role(r) # "council")
        /\ (pc[r] = "decision" => Role(r) \in Deciding)
    BY <1>1 DEF TypeInv, PlaceInv, PlaceAt, Recording
  <1>5. pc[r] \notin {"stage", "close", "finish"}  BY <1>1 DEF Appending
  <1>6. /\ pc' = [pc EXCEPT ![r] = pc[r]] /\ stage' = [stage EXCEPT ![r] = @]
        /\ tries' = [tries EXCEPT ![r] = tries'[r]] /\ todo' = [todo EXCEPT ![r] = todo'[r]]
    BY <1>1, <1>3, ShapeFacts DEF scratch
  <1>7. read' = [read EXCEPT ![r] = read'[r]] /\ read'[r] \in LogType
    BY <1>1, <1>2, <1>3, ShapeFacts
  <1>8. Records(r, pc[r])
    BY <1>1, <1>4, <1>5, <1>6, <1>7 DEF Records, Leaves, tree, opened, scratch, ghosts
  <1>9. RecordTypes(r)
    BY <1>1, <1>3, <1>7, ShapeFacts DEF RecordTypes, QueueType, tree, scratch, ghosts
  <1> QED  BY <1>8, <1>9

LEMMA AppendPutRecords ==
    ASSUME TypeInv, NEW r \in Runs, AppendPut(r)
    PROVE  RecordTypes(r) /\ \E w : Records(r, w)
  <1>0. ShapeInv  BY DEF TypeInv
  <1>1. /\ pc[r] \in Appending /\ PathOf(r) \in LogPaths /\ pc[r] \in Recording
    BY PathFacts DEF AppendPut, Recording
  <1> DEFINE p == PathOf(r)
             v == [etag |-> log[p].etag + 1, blocks |-> Bounded(Append(read[r].blocks, Block(r)))]
  <1>2. log[p] \in LogType /\ read[r] \in LogType  BY <1>0, <1>1, ShapeFacts
  <1>3. Block(r) \in BlockType  BY <1>1, AtStage
  <1>4. v \in LogType
    <2>1. Append(read[r].blocks, Block(r)) \in Seq(BlockType)  BY <1>2, <1>3 DEF LogType
    <2>2. Bounded(Append(read[r].blocks, Block(r))) \in Seq(BlockType)  BY <2>1, BoundedFacts
    <2>3. log[p].etag + 1 \in Int  BY <1>2 DEF LogType
    <2> QED  BY <2>2, <2>3 DEF LogType
  <1>5. log' = [log EXCEPT ![p] = v]  BY AppendPutFacts
  <1> HIDE DEF v
  <1>6. log' \in [LogPaths -> LogType]  BY <1>0, <1>1, <1>4, <1>5, ShapeFacts
  <1>7. acked' \subseteq Acks
    <2>1. acked' = acked \cup {<<p, Block(r)>>}  BY AppendPutFacts
    <2> QED  BY <1>0, <1>1, <1>3, <2>1, ShapeFacts DEF Acks
  <1>8. clobbered' \subseteq LogPaths /\ faults' \in 0..MaxFaults
    <2>1. clobbered' \subseteq clobbered \cup {p} /\ faults' = faults  BY AppendPutFacts
    <2> QED  BY <1>0, <1>1, <2>1, ShapeFacts
  <1>9. /\ read' = [read EXCEPT ![r] = read'[r]] /\ read'[r] = Unread
        /\ tries' = [tries EXCEPT ![r] = tries'[r]] /\ tries'[r] = 0
    <2>1. read' = [read EXCEPT ![r] = Unread] /\ tries' = [tries EXCEPT ![r] = 0]
      BY AppendPutFacts
    <2> QED  BY <1>0, <2>1, ShapeFacts
  <1>10. PICK w \in {"run history", "finish", "decision", "stage", "close"} :
              /\ pc' = [pc EXCEPT ![r] = w]
              /\ stage' = [stage EXCEPT ![r] = IF w \in {"stage", "close"} THEN @ + 1 ELSE @]
              /\ w = "stage" => stage[r] # Len(Stages[r])
              /\ w = "decision" => Role(r) \in Deciding
              /\ w = "run history" => pc[r] = "history"
              /\ w = "finish" => Finishing(Role(r)) # <<>>
              /\ todo' = IF w = "finish" THEN [todo EXCEPT ![r] = Finishing(Role(r))] ELSE todo
              /\ queue' = IF w = "decision" THEN CallAppend(r, Decisions, LeaveQueue(r))
                          ELSE IF w = "run history"
                          THEN CallAppend(r, RunHistory(r), LeaveQueue(r)) ELSE LeaveQueue(r)
    BY AppendPutFacts
  <1>11. queue' \in QueueType  BY <1>10, LeaveType, CallType, PathsAreLogs
  <1>12. /\ todo' = [todo EXCEPT ![r] = todo'[r]] /\ todo'[r] \in Seq(Files)
         /\ w = "finish" => todo'[r] = Finishing(Role(r)) /\ todo'[r] # <<>>
    <2>1. CASE w = "finish"  BY <1>0, <1>10, <2>1, ShapeFacts, FinishingFacts
    <2>2. CASE w # "finish"  BY <1>0, <1>10, <2>2, ShapeFacts
    <2> QED  BY <2>1, <2>2
  <1>13. Records(r, w)
    <2>1. UNCHANGED <<home, team, state, consumption, profile, context, draft, totals, seeders,
                      early, closed, overlapped, due>> /\ Leaves(r)
      BY AppendPutFacts DEF opened, Leaves
    <2>2. w \in Recording \cup {"close"} /\ w # "history"  BY DEF Recording, Appending
    <2> QED  BY <1>1, <1>9, <1>10, <1>12, <2>1, <2>2 DEF Records
  <1>14. RecordTypes(r)
    BY <1>6, <1>7, <1>8, <1>9, <1>11, <1>12, AbsentType, NoTries DEF RecordTypes
  <1> QED  BY <1>13, <1>14

\* A throw, in that form.
LEMMA SwallowRecords ==
    ASSUME TypeInv, NEW r \in Runs, pc[r] \in Recording, Swallow(r),
           faults' \in 0..MaxFaults,
           UNCHANGED <<home, tree, profile, context, draft, totals, seeders, early, acked,
                       clobbered, closed, overlapped, due>>
    PROVE  RecordTypes(r) /\ \E w : Records(r, w)
  <1>0. ShapeInv  BY DEF TypeInv
  <1>1. PICK w \in {"decision", "stage", "close"} :
              /\ pc' = [pc EXCEPT ![r] = w]
              /\ stage' = [stage EXCEPT ![r] = IF w \in {"stage", "close"} THEN @ + 1 ELSE @]
              /\ w = "stage" => stage[r] # Len(Stages[r])
              /\ w = "decision" => Role(r) \in Deciding
              /\ queue' = IF w = "decision" THEN CallAppend(r, Decisions, LeaveQueue(r))
                          ELSE LeaveQueue(r)
    BY SwallowFacts
  <1>2. /\ read' = [read EXCEPT ![r] = read'[r]] /\ read'[r] = Unread
        /\ tries' = [tries EXCEPT ![r] = tries'[r]] /\ tries'[r] = 0
        /\ todo' = [todo EXCEPT ![r] = todo'[r]] /\ todo'[r] = <<>>
    BY <1>0, ShapeFacts, SwallowFacts
  <1>3. queue' \in QueueType  BY <1>1, LeaveType, CallType, PathsAreLogs
  <1>4. w \in Recording \cup {"close"} /\ w # "history" /\ w # "finish"
    BY DEF Recording, Appending
  <1>5. Records(r, w)  BY <1>1, <1>2, <1>4 DEF Records, Leaves, tree
  <1>6. <<>> \in Seq(Files)  OBVIOUS
  <1>7. RecordTypes(r)
    BY <1>0, <1>2, <1>3, <1>6, AbsentType, NoTries, ShapeFacts DEF RecordTypes, tree
  <1> QED  BY <1>5, <1>7

LEMMA AppendConflictRecords ==
    ASSUME TypeInv, NEW r \in Runs, AppendConflict(r)
    PROVE  RecordTypes(r) /\ \E w : Records(r, w)
  <1>0. ShapeInv  BY DEF TypeInv
  <1>1. /\ pc[r] \in Appending /\ pc[r] \in Recording
        /\ UNCHANGED <<home, tree, opened, draft, totals, faults, ghosts>>
    BY DEF AppendConflict, Recording
  <1>2. CASE tries[r] + 1 < Attempts
    <2>1. /\ tries' = [tries EXCEPT ![r] = @ + 1] /\ read' = [read EXCEPT ![r] = Unread]
          /\ UNCHANGED <<queue, pc, stage, todo>>
      BY <1>2 DEF AppendConflict
    <2>2. tries[r] \in 0..(Attempts - 1) /\ Attempts \in Nat  BY <1>0, ShapeFacts, BoundsAssumption
    <2>3. tries[r] + 1 \in 0..(Attempts - 1)  BY <1>2, <2>2
    <2>4. /\ tries' = [tries EXCEPT ![r] = tries'[r]] /\ tries'[r] \in 0..(Attempts - 1)
          /\ read' = [read EXCEPT ![r] = read'[r]] /\ read'[r] = Unread
          /\ pc' = [pc EXCEPT ![r] = pc[r]] /\ stage' = [stage EXCEPT ![r] = @]
          /\ todo' = [todo EXCEPT ![r] = todo'[r]]
      BY <1>0, <2>1, <2>3, ShapeFacts
    <2>5. /\ (pc[r] = "history" => Role(r) # "council")
          /\ (pc[r] = "decision" => Role(r) \in Deciding)
      BY DEF TypeInv, PlaceInv, PlaceAt
    <2>6. pc[r] \notin {"stage", "close", "finish"}  BY <1>1 DEF Appending
    <2>7. Records(r, pc[r])
      BY <1>1, <2>1, <2>4, <2>5, <2>6 DEF Records, Leaves, tree, opened, ghosts
    <2>8. RecordTypes(r)
      BY <1>0, <1>1, <2>1, <2>4, AbsentType, ShapeFacts
         DEF RecordTypes, QueueType, tree, ghosts
    <2> QED  BY <2>7, <2>8
  <1>3. CASE ~(tries[r] + 1 < Attempts)
    <2>1. Swallow(r)  BY <1>3 DEF AppendConflict
    <2>2. UNCHANGED <<home, tree, profile, context, draft, totals, seeders, early, acked,
                      clobbered, closed, overlapped, due>> /\ faults' \in 0..MaxFaults
      BY <1>0, <1>1, ShapeFacts DEF opened, ghosts
    <2> QED  BY <1>1, <2>1, <2>2, SwallowRecords
  <1> QED  BY <1>2, <1>3

LEMMA RecordingFailsRecords ==
    ASSUME TypeInv, NEW r \in Runs, RecordingFails(r)
    PROVE  RecordTypes(r) /\ \E w : Records(r, w)
  <1>1. faults \in 0..MaxFaults  BY ShapeFacts DEF TypeInv
  <1>2. faults < MaxFaults /\ faults' = faults + 1  BY RecordingFailsFacts
  <1>3. MaxFaults \in Nat  BY BoundsAssumption
  <1>4. faults' \in 0..MaxFaults  BY <1>1, <1>2, <1>3
  <1> QED  BY <1>4, RecordingFailsFacts, SwallowRecords

LEMMA CompleteStageRecords ==
    ASSUME TypeInv, NEW r \in Runs, CompleteStage(r)
    PROVE  RecordTypes(r) /\ \E w : Records(r, w)
  <1>0. ShapeInv  BY DEF TypeInv
  <1>1. /\ pc[r] = "stage" /\ pc[r] \in Recording /\ artifacts' = WriteDeliverable(r)
        /\ UNCHANGED <<home, team, state, log, consumption, stage, opened, append, scratch,
                       faults, ghosts>>
    BY DEF CompleteStage, Recording
  <1>2. Role(r) \in Roles  BY <1>1, AtStage
  <1>3. /\ read' = [read EXCEPT ![r] = read'[r]] /\ read'[r] \in LogType
        /\ tries' = [tries EXCEPT ![r] = tries'[r]] /\ tries'[r] \in 0..(Attempts - 1)
        /\ todo' = [todo EXCEPT ![r] = todo'[r]] /\ todo'[r] \in Seq(Files)
        /\ stage' = [stage EXCEPT ![r] = @]
    BY <1>0, <1>1, ShapeFacts DEF append, scratch
  <1>4. Leaves(r)  BY <1>1 DEF WriteDeliverable, Leaves
  <1>5. queue \in QueueType  BY <1>0, ShapeFacts DEF QueueType
  <1> DEFINE w == IF Role(r) = "council" THEN "decision" ELSE "history"
             p == IF Role(r) = "council" THEN Decisions ELSE AgentHistory(Role(r))
  <1>6. pc' = [pc EXCEPT ![r] = w] /\ queue' = CallAppend(r, p, queue)
    BY DEF CompleteStage, Goto
  <1>7. p \in LogPaths  BY <1>2, PathsAreLogs
  <1>8. queue' \in QueueType  BY <1>5, <1>6, <1>7, CallType
  <1>9. /\ w \in Appending /\ w \in Recording /\ w \notin {"stage", "close", "finish"}
        /\ w = "history" => Role(r) # "council"
        /\ w = "decision" => Role(r) \in Deciding
    BY DEF Appending, Recording, Deciding
  <1> HIDE DEF w, p
  <1>10. Records(r, w)
    BY <1>1, <1>3, <1>4, <1>6, <1>9 DEF Records, opened, scratch, ghosts
  <1>11. RecordTypes(r)
    BY <1>0, <1>1, <1>3, <1>8, ShapeFacts DEF RecordTypes, ghosts
  <1> QED  BY <1>10, <1>11

LEMMA FinishPutRecords ==
    ASSUME TypeInv, NEW r \in Runs, FinishPut(r)
    PROVE  RecordTypes(r) /\ \E w : Records(r, w)
  <1>0. ShapeInv  BY DEF TypeInv
  <1>1. /\ pc[r] = "finish" /\ pc[r] \in Recording
        /\ artifacts' = Replaced(Head(todo[r]), r) /\ Leaves(r)
        /\ todo' = [todo EXCEPT ![r] = Tail(@)]
        /\ UNCHANGED <<home, team, state, log, consumption, opened, append, draft, totals,
                       faults, ghosts>>
    BY DEF FinishPut, Recording, Leaves
  <1>2. /\ todo[r] \in {<<"deck yaml", "deck">>, <<"backlog">>, <<"deck">>}
        /\ read[r] = Unread
    <2>1. \/ todo[r] = Finishing(Role(r)) /\ todo[r] # <<>>
          \/ todo[r] = <<"deck">>
      BY <1>1 DEF TypeInv, PlaceInv, PlaceAt
    <2>2. read[r] = Unread  BY <1>1 DEF TypeInv, PlaceInv, PlaceAt, Appending
    <2> QED  BY <2>1, <2>2, FinishingFacts
  <1>3. /\ read' = [read EXCEPT ![r] = read'[r]] /\ read'[r] = Unread
        /\ tries' = [tries EXCEPT ![r] = tries'[r]] /\ tries'[r] \in 0..(Attempts - 1)
        /\ todo' = [todo EXCEPT ![r] = todo'[r]] /\ todo'[r] = Tail(todo[r])
    BY <1>0, <1>1, <1>2, ShapeFacts DEF append
  <1>4. todo'[r] \in Seq(Files)
    <2>1. "deck" \in Files  BY DEF Files
    <2>2. Tail(todo[r]) = <<"deck">> \/ Tail(todo[r]) = <<>>  BY <1>2, ShortTails
    <2>3. <<"deck">> \in Seq(Files) /\ <<>> \in Seq(Files)  BY <2>1, ShortSeqs
    <2> QED  BY <1>3, <2>2, <2>3
  <1>5. queue \in QueueType  BY <1>0, ShapeFacts DEF QueueType
  <1>6. CASE Len(todo[r]) > 1
    <2>1. UNCHANGED <<pc, stage, queue>>  BY <1>6 DEF FinishPut
    <2>2. todo[r] = <<"deck yaml", "deck">>
      <3>1. Len(<<"backlog">>) = 1 /\ Len(<<"deck">>) = 1  BY ShortTails
      <3>2. ~(1 > 1)  OBVIOUS
      <3> QED  BY <1>2, <1>6, <3>1, <3>2
    <2>3. todo'[r] = <<"deck">> /\ Written("deck yaml", r) \in artifacts'
      <3>1. /\ Head(<<"deck yaml", "deck">>) = "deck yaml"
            /\ Tail(<<"deck yaml", "deck">>) = <<"deck">>
        BY ShortTails
      <3>2. Head(todo[r]) = "deck yaml" /\ Tail(todo[r]) = <<"deck">>  BY <2>2, <3>1
      <3> QED  BY <1>1, <1>3, <3>2 DEF Replaced, Written
    <2>4. pc' = [pc EXCEPT ![r] = "finish"] /\ stage' = [stage EXCEPT ![r] = @]
      BY <1>0, <1>1, <2>1, ShapeFacts
    <2>5. Records(r, "finish")
      <3>1. "finish" \in Recording /\ "finish" \notin Appending  BY DEF Recording, Appending
      <3> QED  BY <1>1, <1>3, <2>3, <2>4, <3>1 DEF Records, opened, ghosts
    <2>6. RecordTypes(r)
      BY <1>0, <1>1, <1>3, <1>4, <1>5, <2>1, AbsentType, ShapeFacts DEF RecordTypes, ghosts
    <2> QED  BY <2>5, <2>6
  <1>7. CASE ~(Len(todo[r]) > 1)
    <2>1. AfterRecord(r, queue)  BY <1>7 DEF FinishPut
    <2>2. PICK w \in {"decision", "stage", "close"} :
              /\ pc' = [pc EXCEPT ![r] = w]
              /\ stage' = [stage EXCEPT ![r] = IF w \in {"stage", "close"} THEN @ + 1 ELSE @]
              /\ w = "stage" => stage[r] # Len(Stages[r])
              /\ w = "decision" => Role(r) \in Deciding
              /\ queue' = IF w = "decision" THEN CallAppend(r, Decisions, queue) ELSE queue
      BY <1>1, <2>1, AfterRecordFacts
    <2>3. queue' \in QueueType  BY <1>5, <2>2, CallType, PathsAreLogs
    <2>4. w \in Recording \cup {"close"} /\ w # "history" /\ w # "finish"
      BY DEF Recording, Appending
    <2>5. Records(r, w)  BY <1>1, <1>3, <2>2, <2>4 DEF Records, opened, ghosts
    <2>6. RecordTypes(r)
      BY <1>0, <1>1, <1>3, <1>4, <2>3, AbsentType, ShapeFacts DEF RecordTypes, ghosts
    <2> QED  BY <2>5, <2>6
  <1> QED  BY <1>6, <1>7

LEMMA NothingToFinishRecords ==
    ASSUME TypeInv, NEW r \in Runs, NothingToFinish(r)
    PROVE  RecordTypes(r) /\ \E w : Records(r, w)
  <1>0. ShapeInv  BY DEF TypeInv
  <1>1. /\ pc[r] = "finish" /\ pc[r] \in Recording
        /\ todo' = [todo EXCEPT ![r] = <<>>]
        /\ AfterRecord(r, queue)
        /\ UNCHANGED <<home, tree, opened, append, draft, totals, faults, ghosts>>
    BY DEF NothingToFinish, Recording
  <1>2. read[r] = Unread  BY <1>1 DEF TypeInv, PlaceInv, PlaceAt, Appending
  <1>3. /\ read' = [read EXCEPT ![r] = read'[r]] /\ read'[r] = Unread
        /\ tries' = [tries EXCEPT ![r] = tries'[r]] /\ tries'[r] \in 0..(Attempts - 1)
        /\ todo' = [todo EXCEPT ![r] = todo'[r]] /\ todo'[r] = <<>>
    BY <1>0, <1>1, <1>2, ShapeFacts DEF append
  <1>4. queue \in QueueType /\ <<>> \in Seq(Files)  BY <1>0, ShapeFacts DEF QueueType
  <1>5. PICK w \in {"decision", "stage", "close"} :
              /\ pc' = [pc EXCEPT ![r] = w]
              /\ stage' = [stage EXCEPT ![r] = IF w \in {"stage", "close"} THEN @ + 1 ELSE @]
              /\ w = "stage" => stage[r] # Len(Stages[r])
              /\ w = "decision" => Role(r) \in Deciding
              /\ queue' = IF w = "decision" THEN CallAppend(r, Decisions, queue) ELSE queue
    BY <1>1, AfterRecordFacts
  <1>6. queue' \in QueueType  BY <1>4, <1>5, CallType, PathsAreLogs
  <1>7. w \in Recording \cup {"close"} /\ w # "history" /\ w # "finish"
    BY DEF Recording, Appending
  <1>8. Records(r, w)  BY <1>1, <1>3, <1>5, <1>7 DEF Records, Leaves, tree, opened, ghosts
  <1>9. RecordTypes(r)
    BY <1>0, <1>1, <1>3, <1>4, <1>6, AbsentType, ShapeFacts DEF RecordTypes, tree, ghosts
  <1> QED  BY <1>8, <1>9

\* The steps that record a stage.
RecordStep(r) ==
    \/ AppendGet(r) \/ AppendPut(r) \/ AppendConflict(r) \/ CompleteStage(r)
    \/ FinishPut(r) \/ NothingToFinish(r) \/ RecordingFails(r)

LEMMA RecordSteps ==
    ASSUME TypeInv, NEW r \in Runs, RecordStep(r)
    PROVE  RecordTypes(r) /\ \E w : Records(r, w)
  <1>1. CASE AppendGet(r)  BY <1>1, AppendGetRecords
  <1>2. CASE AppendPut(r)  BY <1>2, AppendPutRecords
  <1>3. CASE AppendConflict(r)  BY <1>3, AppendConflictRecords
  <1>4. CASE CompleteStage(r)  BY <1>4, CompleteStageRecords
  <1>5. CASE FinishPut(r)  BY <1>5, FinishPutRecords
  <1>6. CASE NothingToFinish(r)  BY <1>6, NothingToFinishRecords
  <1>7. CASE RecordingFails(r)  BY <1>7, RecordingFailsRecords
  <1> QED  BY <1>1, <1>2, <1>3, <1>4, <1>5, <1>6, <1>7 DEF RecordStep
-----------------------------------------------------------------------------
(* The types are kept. *)

\* What the other runs hold is theirs.
Elsewhere(r) ==
    \A o \in Runs \ {r} : /\ pc'[o] = pc[o] /\ stage'[o] = stage[o] /\ read'[o] = read[o]
                          /\ todo'[o] = todo[o]

LEMMA PlaceNext ==
    ASSUME PlaceInv, NEW r \in Runs, Elsewhere(r), PlaceAt(r)',
           \A a \in artifacts : a.run # r => a \in artifacts'
    PROVE  PlaceInv'
  <1> SUFFICES ASSUME NEW o \in Runs, o # r PROVE PlaceAt(o)'
    BY DEF PlaceInv
  <1>1. PlaceAt(o)  BY DEF PlaceInv
  <1>2. pc'[o] = pc[o] /\ stage'[o] = stage[o] /\ read'[o] = read[o] /\ todo'[o] = todo[o]
    BY DEF Elsewhere
  <1>3. Role(o)' = Role(o)  BY <1>2 DEF Role
  <1>4. Written("deck yaml", o) \in artifacts => Written("deck yaml", o)' \in artifacts'
    <2>1. Written("deck yaml", o).run # r  BY DEF Written
    <2>2. Written("deck yaml", o)' = Written("deck yaml", o)  BY <1>2 DEF Written
    <2> QED  BY <2>1, <2>2
  <1> QED  BY <1>1, <1>2, <1>3, <1>4 DEF PlaceAt

LEMMA FailuresAreBounded ==
    ASSUME ShapeInv, faults < MaxFaults
    PROVE  faults + 1 \in 0..MaxFaults
  <1>1. faults \in 0..MaxFaults /\ MaxFaults \in Nat  BY ShapeFacts, BoundsAssumption
  <1> QED  BY <1>1

LEMMA RecordsElsewhere ==
    ASSUME TypeInv, NEW r \in Runs, NEW w, Records(r, w)
    PROVE  Elsewhere(r)
  <1>1. /\ pc \in [Runs -> PC] /\ stage \in [Runs -> Nat] /\ read \in [Runs -> LogType]
        /\ todo \in [Runs -> Seq(Files)]
    BY ShapeFacts DEF TypeInv
  <1>2. \A o \in Runs \ {r} : pc'[o] = pc[o] /\ stage'[o] = stage[o]  BY <1>1 DEF Records
  <1>3. \A o \in Runs \ {r} : read'[o] = read[o]  BY <1>1 DEF Records
  <1>4. \A o \in Runs \ {r} : todo'[o] = todo[o]  BY <1>1 DEF Records
  <1> QED  BY <1>2, <1>3, <1>4 DEF Elsewhere

\* After a recording step: the index of the stage, and the role.
LEMMA RecordsStage ==
    ASSUME TypeInv, NEW r \in Runs, NEW w, Records(r, w)
    PROVE  /\ pc' \in [Runs -> PC] /\ pc'[r] = w /\ stage' \in [Runs -> Nat]
           /\ stage'[r] = IF w \in {"stage", "close"} THEN stage[r] + 1 ELSE stage[r]
           /\ stage'[r] \in 1..(Len(Stages[r]) + 1)
           /\ w # "close" => stage'[r] \in 1..Len(Stages[r])
           /\ w \notin {"stage", "close"} => Role(r)' = Role(r)
  <1>1. pc \in [Runs -> PC] /\ stage \in [Runs -> Nat]  BY ShapeFacts DEF TypeInv
  <1>2. pc[r] \in Recording /\ w \in Recording \cup {"close"}  BY DEF Records
  <1>3. stage[r] \in 1..Len(Stages[r]) /\ stage[r] \in Nat /\ Len(Stages[r]) \in Nat
    BY <1>2, AtStage
  <1>4. w \in PC  BY <1>2 DEF PC, Recording
  <1>5. pc' \in [Runs -> PC] /\ pc'[r] = w  BY <1>1, <1>4 DEF Records
  <1> DEFINE s == IF w \in {"stage", "close"} THEN stage[r] + 1 ELSE stage[r]
  <1>6. stage' = [stage EXCEPT ![r] = s]  BY DEF Records
  <1>7. s \in Nat  BY <1>3
  <1>8. w = "stage" => stage[r] # Len(Stages[r])  BY DEF Records
  <1>9. s \in 1..(Len(Stages[r]) + 1) /\ (w # "close" => s \in 1..Len(Stages[r]))
    BY <1>3, <1>8
  <1> HIDE DEF s
  <1>10. stage' \in [Runs -> Nat] /\ stage'[r] = s  BY <1>1, <1>6, <1>7
  <1>11. w \notin {"stage", "close"} => Role(r)' = Role(r)  BY <1>10 DEF Role, s
  <1> QED  BY <1>5, <1>9, <1>10, <1>11 DEF s

\* The files of the other runs stay as they are.
LEMMA LeavesFacts ==
    ASSUME TypeInv, NEW r \in Runs, pc[r] \in Recording, Leaves(r)
    PROVE  /\ \A a \in artifacts' : a.run \in Runs /\ a.stage \in DOMAIN Stages[a.run]
           /\ \A a \in artifacts : a.run # r => a \in artifacts'
  <1>1. \A a \in artifacts : a.run \in Runs /\ a.stage \in DOMAIN Stages[a.run]
    BY ShapeFacts DEF TypeInv
  <1>2. stage[r] \in DOMAIN Stages[r]
    <2>1. Stages[r] \in Seq(Roles) /\ stage[r] \in 1..Len(Stages[r])  BY AtStage, RolesAssumption
    <2> QED  BY <2>1
  <1>3. CASE artifacts' = artifacts  BY <1>1, <1>3
  <1>4. ASSUME NEW file, artifacts' = Replaced(file, r)
        PROVE  /\ \A a \in artifacts' : a.run \in Runs /\ a.stage \in DOMAIN Stages[a.run]
               /\ \A a \in artifacts : a.run # r => a \in artifacts'
    BY <1>1, <1>2, <1>4 DEF Replaced
  <1> QED  BY <1>3, <1>4 DEF Leaves

LEMMA RecordsType ==
    ASSUME TypeInv, NEW r \in Runs, NEW w, Records(r, w), RecordTypes(r)
    PROVE  TypeInv'
  <1>0. ShapeInv  BY DEF TypeInv
  <1>1. /\ pc' \in [Runs -> PC] /\ pc'[r] = w /\ stage' \in [Runs -> Nat]
        /\ stage'[r] \in 1..(Len(Stages[r]) + 1)
        /\ w # "close" => stage'[r] \in 1..Len(Stages[r])
        /\ w \notin {"stage", "close"} => Role(r)' = Role(r)
    BY RecordsStage
  <1>2. /\ read' \in [Runs -> LogType] /\ tries' \in [Runs -> 0..(Attempts - 1)]
        /\ todo' \in [Runs -> Seq(Files)]
    <2>1. /\ read' = [read EXCEPT ![r] = read'[r]] /\ tries' = [tries EXCEPT ![r] = tries'[r]]
          /\ todo' = [todo EXCEPT ![r] = todo'[r]]
      BY DEF Records
    <2>2. read'[r] \in LogType /\ tries'[r] \in 0..(Attempts - 1) /\ todo'[r] \in Seq(Files)
      BY DEF RecordTypes
    <2>3. /\ read \in [Runs -> LogType] /\ tries \in [Runs -> 0..(Attempts - 1)]
          /\ todo \in [Runs -> Seq(Files)]
      BY <1>0, ShapeFacts
    <2> QED  BY <2>1, <2>2, <2>3
  <1>3. Elsewhere(r)  BY RecordsElsewhere
  <1>4. \A o \in Runs : stage'[o] \in 1..(Len(Stages[o]) + 1)
    BY <1>0, <1>1, <1>3, ShapeFacts DEF Elsewhere
  <1>5. UNCHANGED <<home, team, state, consumption, profile, context, draft, totals, seeders,
                    early, closed, overlapped, due>>
    BY DEF Records
  <1>a. /\ \A a \in artifacts' : a.run \in Runs /\ a.stage \in DOMAIN Stages[a.run]
        /\ \A a \in artifacts : a.run # r => a \in artifacts'
    BY LeavesFacts DEF Records
  <1>6. ShapeInv'
    BY <1>0, <1>1, <1>2, <1>4, <1>5, <1>a, ShapeFacts, ShapeNext DEF RecordTypes, QueueType
  <1>7. PlaceAt(r)'
    <2>1. /\ w = "history" => Role(r) # "council"
          /\ w = "decision" => Role(r) \in Deciding
          /\ w \notin Appending => read'[r] = Unread
          /\ w = "finish" => \/ todo'[r] = Finishing(Role(r)) /\ todo'[r] # <<>>
                             \/ todo'[r] = <<"deck">> /\ Written("deck yaml", r) \in artifacts'
          /\ w \in Recording \cup {"close"}
      BY DEF Records
    <2>2. /\ w # "seed" /\ w # "rebuild" /\ w # "dead" /\ "close" \notin Recording
          /\ w \notin Opening
      BY <2>1 DEF Recording, Appending, Opening
    <2>3. w = "finish" => Written("deck yaml", r)' = Written("deck yaml", r)
      <3>1. w = "finish" => stage'[r] = stage[r]  BY RecordsStage
      <3> QED  BY <3>1 DEF Written
    <2> QED  BY <1>1, <2>1, <2>2, <2>3 DEF PlaceAt
  <1>8. PlaceInv'  BY <1>3, <1>7, <1>a, PlaceNext DEF TypeInv
  <1> QED  BY <1>6, <1>8 DEF TypeInv

LEMMA RecordStepType ==
    ASSUME TypeInv, NEW r \in Runs, RecordStep(r)
    PROVE  TypeInv'
  <1>1. RecordTypes(r) /\ \E w : Records(r, w)  BY RecordSteps
  <1> QED  BY <1>1, RecordsType

\* The files of the seed, in their order.
LEMMA SeedTailFacts ==
    ASSUME NEW t \in SeedTails
    PROVE  /\ Head(t) \in {"team", "routing", "state", "decisions", "notifications"}
           /\ Len(t) = 1 <=> Head(t) = "notifications"
           /\ Len(t) # 1 => Tail(t) \in SeedTails
           /\ Head(t) = "team" => Head(Tail(t)) = "routing"
           /\ Head(t) = "routing" => Head(Tail(t)) = "state"
           /\ Head(t) = "state" => Head(Tail(t)) = "decisions"
           /\ Head(t) = "decisions" => Head(Tail(t)) = "notifications"
           /\ Tail(t) \in Seq(Files)
  <1>0. /\ "team" \in Files /\ "routing" \in Files /\ "state" \in Files
        /\ "decisions" \in Files /\ "notifications" \in Files
    BY DEF Files
  <1> DEFINE t5 == <<"team", "routing", "state", "decisions", "notifications">>
             t4 == <<"routing", "state", "decisions", "notifications">>
             t3 == <<"state", "decisions", "notifications">>
             t2 == <<"decisions", "notifications">>
             t1 == <<"notifications">>
  <1>1. Head(t5) = "team" /\ Tail(t5) = t4 /\ Len(t5) = 5  OBVIOUS
  <1>2. Head(t4) = "routing" /\ Tail(t4) = t3 /\ Len(t4) = 4  OBVIOUS
  <1>3. Head(t3) = "state" /\ Tail(t3) = t2 /\ Len(t3) = 3  OBVIOUS
  <1>4. Head(t2) = "decisions" /\ Tail(t2) = t1 /\ Len(t2) = 2  OBVIOUS
  <1>5. Head(t1) = "notifications" /\ Tail(t1) = <<>> /\ Len(t1) = 1  OBVIOUS
  <1>6. t1 \in Seq(Files) /\ t2 \in Seq(Files) /\ <<>> \in Seq(Files)  BY <1>0, ShortSeqs
  <1>7. t3 \in Seq(Files) /\ t4 \in Seq(Files)
    <2> DEFINE F == Files
    <2>1. /\ "routing" \in F /\ "state" \in F /\ "decisions" \in F /\ "notifications" \in F
      BY <1>0
    <2> HIDE DEF F
    <2>2. t3 \in Seq(F) /\ t4 \in Seq(F)  BY <2>1
    <2> QED  BY <2>2 DEF F
  <1>8. SeedTails = {t5, t4, t3, t2, t1}  BY DEF SeedTails
  <1> HIDE DEF t5, t4, t3, t2, t1
  <1>9. t = t5 \/ t = t4 \/ t = t3 \/ t = t2 \/ t = t1  BY <1>8
  <1>10. 5 # 1 /\ 4 # 1 /\ 3 # 1 /\ 2 # 1  OBVIOUS
  <1>11. CASE t = t5  BY <1>1, <1>2, <1>7, <1>8, <1>10, <1>11
  <1>12. CASE t = t4  BY <1>2, <1>3, <1>7, <1>8, <1>10, <1>12
  <1>13. CASE t = t3  BY <1>3, <1>4, <1>6, <1>8, <1>10, <1>13
  <1>14. CASE t = t2  BY <1>4, <1>5, <1>6, <1>8, <1>10, <1>14
  <1>15. CASE t = t1  BY <1>5, <1>6, <1>8, <1>15
  <1> QED  BY <1>9, <1>11, <1>12, <1>13, <1>14, <1>15
-----------------------------------------------------------------------------
(* The steps that record nothing. *)

LEMMA EmptyFiles == <<>> \in Seq(Files)
  OBVIOUS

LEMMA FirstStageFacts ==
    ASSUME TypeInv, NEW r \in Runs, pc[r] \in Opening
    PROVE  /\ FirstStage(r) \in {"stage", "close"} /\ FirstStage(r) \in PC
           /\ FirstStage(r) = "stage" => stage[r] \in 1..Len(Stages[r])
           /\ read[r] = Unread
  <1>1. FirstStage(r) \in {"stage", "close"}  BY DEF FirstStage
  <1>2. read[r] = Unread /\ stage[r] = 1
    BY DEF TypeInv, PlaceInv, PlaceAt, Opening, Appending
  <1>3. Stages[r] \in Seq(Roles)  BY RolesAssumption
  <1>4. Stages[r] # <<>> => 1 \in 1..Len(Stages[r])  BY <1>3
  <1>5. FirstStage(r) = "stage" => Stages[r] # <<>>  BY DEF FirstStage
  <1> QED  BY <1>1, <1>2, <1>4, <1>5 DEF PC

LEMMA OpenType ==
    ASSUME TypeInv, NEW r \in Runs, Open(r)
    PROVE  TypeInv' /\ Elsewhere(r)
  <1>0. ShapeInv  BY DEF TypeInv
  <1>1. /\ pc[r] = "open" /\ early' = IfEarly(r)
        /\ UNCHANGED <<home, tree, queue, stage, context, append, draft, totals, faults, acked,
                       clobbered, closed, overlapped, due>>
    BY DEF Open
  <1>2. early' \subseteq Runs  BY <1>0, <1>1, ShapeFacts DEF IfEarly
  <1>3. read[r] = Unread /\ stage[r] = 1
    BY <1>1 DEF TypeInv, PlaceInv, PlaceAt, Opening, Appending
  <1>4. CASE team = Unseeded
    <2>1. /\ seeders' = seeders \cup {r} /\ todo' = [todo EXCEPT ![r] = SeedFiles]
          /\ pc' = [pc EXCEPT ![r] = "seed"] /\ UNCHANGED profile
      BY <1>4 DEF Open, Goto
    <2>2. SeedFiles \in SeedTails /\ SeedFiles \in Seq(Files)
      <3>1. SeedFiles \in SeedTails  BY DEF SeedFiles, SeedTails
      <3>2. /\ "team" \in Files /\ "routing" \in Files /\ "state" \in Files
            /\ "decisions" \in Files /\ "notifications" \in Files
        BY DEF Files
      <3> DEFINE F == Files
      <3>3. /\ "team" \in F /\ "routing" \in F /\ "state" \in F /\ "decisions" \in F
            /\ "notifications" \in F
        BY <3>2
      <3> HIDE DEF F
      <3>4. <<"team", "routing", "state", "decisions", "notifications">> \in Seq(F)  BY <3>3
      <3> QED  BY <3>1, <3>4 DEF F, SeedFiles
    <2>3. /\ pc' \in [Runs -> PC] /\ pc'[r] = "seed" /\ todo' \in [Runs -> Seq(Files)]
          /\ todo'[r] = SeedFiles
      BY <1>0, <2>1, <2>2, ShapeFacts DEF PC
    <2>4. ShapeInv'
      BY <1>0, <1>1, <1>2, <2>1, <2>3, ShapeFacts, ShapeNext DEF tree, append
    <2>5. Elsewhere(r)  BY <1>0, <1>1, <2>1, ShapeFacts DEF Elsewhere, append
    <2>6. PlaceAt(r)'
      BY <1>1, <1>3, <2>2, <2>3 DEF PlaceAt, Opening, Recording, Appending, append
    <2> QED  BY <1>1, <2>4, <2>5, <2>6, PlaceNext DEF TypeInv, tree
  <1>5. CASE team # Unseeded
    <2>1. /\ profile' = [profile EXCEPT ![r] = team] /\ pc' = [pc EXCEPT ![r] = "index"]
          /\ UNCHANGED <<seeders, todo>>
      BY <1>5 DEF Open, Goto, Effective
    <2>2. /\ pc' \in [Runs -> PC] /\ pc'[r] = "index" /\ profile' \in [Runs -> Profiles]
      BY <1>0, <1>5, <2>1, ShapeFacts DEF PC
    <2>4. ShapeInv'
      BY <1>0, <1>1, <1>2, <2>1, <2>2, ShapeFacts, ShapeNext DEF tree, append
    <2>5. Elsewhere(r)  BY <1>0, <1>1, <2>1, ShapeFacts DEF Elsewhere, append
    <2>6. PlaceAt(r)'
      BY <1>1, <1>3, <2>2 DEF PlaceAt, Opening, Recording, Appending, append
    <2> QED  BY <1>1, <2>4, <2>5, <2>6, PlaceNext DEF TypeInv, tree
  <1> QED  BY <1>4, <1>5

\* What seeding one file changes.
LEMMA SeedFacts ==
    ASSUME TypeInv, NEW r \in Runs, Seed(r)
    PROVE  /\ pc[r] = "seed" /\ todo[r] \in SeedTails
           /\ team' = IF Head(todo[r]) = "team" THEN Asked[r] ELSE team
           /\ state' = IF Head(todo[r]) = "state" THEN [profile |-> Asked[r], turn |-> 0] ELSE state
           /\ \A p \in LogPaths :
                 log'[p] = IF \/ Head(todo[r]) = "decisions" /\ p = Decisions
                              \/ Head(todo[r]) = "notifications" /\ p = Notifications
                           THEN Emptied(p, log[p]) ELSE log[p]
           /\ \A p : p \in clobbered' <=>
                 \/ p \in clobbered
                 \/ /\ log[p].etag # 0
                    /\ \/ Head(todo[r]) = "decisions" /\ p = Decisions
                       \/ Head(todo[r]) = "notifications" /\ p = Notifications
           /\ log' \in [LogPaths -> LogType] /\ clobbered' \subseteq LogPaths
           /\ todo' = [todo EXCEPT ![r] = Tail(todo[r])] /\ todo'[r] = Tail(todo[r])
           /\ pc' = [pc EXCEPT ![r] = IF Len(todo[r]) = 1 THEN "index" ELSE "seed"]
           /\ UNCHANGED <<home, artifacts, consumption, queue, stage, opened, append, draft,
                          totals, faults, seeders, early, acked, closed, overlapped, due>>
  <1>0. ShapeInv  BY DEF TypeInv
  <1> DEFINE f == Head(todo[r])
             paths == {<<"log", f>>} \cap {Decisions, Notifications}
             at(p) == \/ f = "decisions" /\ p = Decisions
                      \/ f = "notifications" /\ p = Notifications
  <1>1. /\ pc[r] = "seed"
        /\ team' = IF f = "team" THEN Asked[r] ELSE team
        /\ state' = IF f = "state" THEN [profile |-> Asked[r], turn |-> 0] ELSE state
        /\ log' = [p \in LogPaths |-> IF p \in paths THEN Emptied(p, log[p]) ELSE log[p]]
        /\ clobbered' = clobbered \cup {p \in paths : log[p].etag # 0}
        /\ todo' = [todo EXCEPT ![r] = Tail(todo[r])]
        /\ pc' = [pc EXCEPT ![r] = IF Len(todo[r]) = 1 THEN "index" ELSE "seed"]
        /\ UNCHANGED <<home, artifacts, consumption, queue, stage, opened, append, draft,
                       totals, faults, seeders, early, acked, closed, overlapped, due>>
    BY DEF Seed, Goto
  <1>2. \A p : p \in paths <=> at(p)
    <2>1. /\ <<"log", f>> = Decisions <=> f = "decisions"
          /\ <<"log", f>> = Notifications <=> f = "notifications"
      BY DEF Decisions, Notifications
    <2> HIDE DEF f
    <2>2. ASSUME NEW p PROVE p \in paths <=> at(p)
      <3>1. p \in paths <=> p = <<"log", f>> /\ (p = Decisions \/ p = Notifications)  OBVIOUS
      <3> QED  BY <2>1, <3>1
    <2> QED  BY <2>2
  <1>3. todo[r] \in SeedTails  BY <1>1 DEF TypeInv, PlaceInv, PlaceAt
  <1>4. paths \subseteq LogPaths  BY PathsAreLogs
  <1>5. todo'[r] = Tail(todo[r])  BY <1>0, <1>1, ShapeFacts
  <1> HIDE DEF paths, f
  <1>6. \A p \in LogPaths : log'[p] = IF at(p) THEN Emptied(p, log[p]) ELSE log[p]
    BY <1>1, <1>2
  <1>7. \A p : p \in clobbered' <=> p \in clobbered \/ (log[p].etag # 0 /\ at(p))
    BY <1>1, <1>2
  <1>8. ASSUME NEW p \in LogPaths PROVE Emptied(p, log[p]) \in LogType
    <2>1. log[p] \in LogType  BY <1>0, ShapeFacts
    <2>2. log[p].etag + 1 \in Int /\ <<>> \in Seq(BlockType)  BY <2>1 DEF LogType
    <2> QED  BY <2>2 DEF Emptied, LogType
  <1>9. log' \in [LogPaths -> LogType]
    <2>1. \A p \in LogPaths : log[p] \in LogType  BY <1>0, ShapeFacts
    <2> QED  BY <1>1, <1>8, <2>1
  <1>10. clobbered' \subseteq LogPaths  BY <1>0, <1>1, <1>4, ShapeFacts
  <1> QED  BY <1>1, <1>3, <1>5, <1>6, <1>7, <1>9, <1>10 DEF f

LEMMA SeedType ==
    ASSUME TypeInv, NEW r \in Runs, Seed(r)
    PROVE  TypeInv' /\ Elsewhere(r)
  <1>0. ShapeInv  BY DEF TypeInv
  <1>1. /\ pc[r] = "seed" /\ todo[r] \in SeedTails
        /\ team' = IF Head(todo[r]) = "team" THEN Asked[r] ELSE team
        /\ state' = IF Head(todo[r]) = "state" THEN [profile |-> Asked[r], turn |-> 0] ELSE state
        /\ log' \in [LogPaths -> LogType] /\ clobbered' \subseteq LogPaths
        /\ todo' = [todo EXCEPT ![r] = Tail(todo[r])]
        /\ pc' = [pc EXCEPT ![r] = IF Len(todo[r]) = 1 THEN "index" ELSE "seed"]
        /\ UNCHANGED <<home, artifacts, consumption, queue, stage, opened, append, draft,
                       totals, faults, seeders, early, acked, closed, overlapped, due>>
    BY SeedFacts
  <1>2. Asked[r] \in Profiles  BY RolesAssumption
  <1>3. team' \in Profiles \cup {Unseeded} /\ state' \in StateType
    BY <1>0, <1>1, <1>2, ShapeFacts DEF StateType
  <1>4. Tail(todo[r]) \in Seq(Files) /\ (Len(todo[r]) # 1 => Tail(todo[r]) \in SeedTails)
    BY <1>1, SeedTailFacts
  <1> DEFINE w == IF Len(todo[r]) = 1 THEN "index" ELSE "seed"
  <1>5. w \in PC /\ w \notin Recording /\ w \notin Appending /\ w \in {"index", "seed"}
    BY DEF PC, Recording, Appending
  <1>6. w = "seed" => Tail(todo[r]) \in SeedTails  BY <1>4
  <1>7. pc' = [pc EXCEPT ![r] = w]  BY <1>1
  <1> HIDE DEF w
  <1>8. /\ pc' \in [Runs -> PC] /\ pc'[r] = w /\ todo' \in [Runs -> Seq(Files)]
        /\ todo'[r] = Tail(todo[r])
    BY <1>0, <1>1, <1>4, <1>5, <1>7, ShapeFacts
  <1>9. ShapeInv'
    BY <1>0, <1>1, <1>3, <1>8, ShapeFacts, ShapeNext DEF opened, append
  <1>10. Elsewhere(r)  BY <1>0, <1>1, <1>7, ShapeFacts DEF Elsewhere, append
  <1>11. read[r] = Unread  BY <1>1 DEF TypeInv, PlaceInv, PlaceAt, Appending
  <1>12. stage[r] = 1  BY <1>1 DEF TypeInv, PlaceInv, PlaceAt, Opening
  <1>13. PlaceAt(r)'
    BY <1>1, <1>5, <1>6, <1>8, <1>11, <1>12 DEF PlaceAt, Appending, append
  <1> QED  BY <1>1, <1>9, <1>10, <1>13, PlaceNext DEF TypeInv

LEMMA IndexType ==
    ASSUME TypeInv, NEW r \in Runs, Index(r)
    PROVE  TypeInv' /\ Elsewhere(r)
  <1>0. ShapeInv  BY DEF TypeInv
  <1>1. /\ pc[r] = "index" /\ context' = [context EXCEPT ![r] = state.profile]
        /\ pc' = [pc EXCEPT ![r] = FirstStage(r)]
        /\ UNCHANGED <<home, tree, queue, stage, profile, append, scratch, faults, ghosts>>
    BY DEF Index, Goto
  <1>2. /\ FirstStage(r) \in {"stage", "close"} /\ FirstStage(r) \in PC /\ read[r] = Unread
    BY <1>1, FirstStageFacts DEF Opening
  <1>3. state.profile \in Profiles \cup {Unseeded}  BY <1>0, ShapeFacts DEF StateType
  <1>4. /\ pc' \in [Runs -> PC] /\ pc'[r] = FirstStage(r)
        /\ context' \in [Runs -> Profiles \cup {Unseeded}]
    BY <1>0, <1>1, <1>2, <1>3, ShapeFacts
  <1>5. ShapeInv'
    BY <1>0, <1>1, <1>4, ShapeFacts, ShapeNext DEF tree, append, scratch, ghosts
  <1>6. Elsewhere(r)  BY <1>0, <1>1, ShapeFacts DEF Elsewhere, append, scratch
  <1>7. FirstStage(r) = "stage" => stage[r] \in 1..Len(Stages[r])
    BY <1>1, FirstStageFacts DEF Opening
  <1>8. PlaceAt(r)'
    BY <1>1, <1>2, <1>4, <1>7 DEF PlaceAt, Opening, Recording, Appending, append
  <1> QED  BY <1>1, <1>5, <1>6, <1>8, PlaceNext DEF TypeInv, tree

\* The steps of closing change one run, and read nothing.
LEMMA ClosingPlace ==
    ASSUME TypeInv, NEW r \in Runs, NEW w \in {"update", "put state", "list", "done"},
           pc[r] \notin Opening \cup Recording \cup {"dead"},
           pc' = [pc EXCEPT ![r] = w], UNCHANGED <<stage, read>>,
           \A o \in Runs \ {r} : todo'[o] = todo[o], UNCHANGED artifacts
    PROVE  pc' \in [Runs -> PC] /\ pc'[r] = w /\ PlaceInv' /\ Elsewhere(r)
  <1>1. w \in PC /\ w \notin Recording \cup Opening \cup Appending \cup {"dead"}
    BY DEF PC, Recording, Opening, Appending
  <1>2. pc \in [Runs -> PC]  BY ShapeFacts DEF TypeInv
  <1>3. pc' \in [Runs -> PC] /\ pc'[r] = w /\ \A o \in Runs \ {r} : pc'[o] = pc[o]
    BY <1>1, <1>2
  <1>4. read[r] = Unread  BY DEF TypeInv, PlaceInv, PlaceAt, Recording
  <1>5. Elsewhere(r)  BY <1>3 DEF Elsewhere
  <1>6. PlaceAt(r)'  BY <1>1, <1>3, <1>4 DEF PlaceAt, Recording, Opening, Appending
  <1> QED  BY <1>3, <1>5, <1>6, PlaceNext DEF TypeInv

LEMMA ReadTurnType ==
    ASSUME TypeInv, NEW r \in Runs, ReadTurn(r)
    PROVE  TypeInv' /\ Elsewhere(r)
  <1>0. ShapeInv  BY DEF TypeInv
  <1>1. /\ pc[r] = "close" /\ draft' = [draft EXCEPT ![r] = state]
        /\ overlapped' = overlapped \cup (IF Closers = {} THEN {} ELSE Closers \cup {r})
        /\ pc' = [pc EXCEPT ![r] = "update"]
        /\ UNCHANGED <<home, tree, queue, stage, opened, append, todo, totals, faults, seeders,
                       early, acked, clobbered, closed, due>>
    BY DEF ReadTurn, Goto
  <1>2. draft' \in [Runs -> StateType] /\ overlapped' \subseteq Runs
    BY <1>0, <1>1, ShapeFacts DEF Closers
  <1>3. pc[r] \notin Opening \cup Recording \cup {"dead"}
    BY <1>1 DEF Recording, Opening, Appending
  <1>4. pc' \in [Runs -> PC] /\ PlaceInv' /\ Elsewhere(r)
    BY <1>1, <1>3, ClosingPlace DEF append, tree
  <1>5. ShapeInv'
    BY <1>0, <1>1, <1>2, <1>4, ShapeFacts, ShapeNext DEF tree, opened, append
  <1> QED  BY <1>4, <1>5 DEF TypeInv

LEMMA MergeStateType ==
    ASSUME TypeInv, NEW r \in Runs, MergeState(r)
    PROVE  TypeInv' /\ Elsewhere(r)
  <1>0. ShapeInv  BY DEF TypeInv
  <1> DEFINE w == IF state.profile = Unseeded THEN "list" ELSE "put state"
  <1>1. /\ pc[r] = "update" /\ draft' = [draft EXCEPT ![r] = Patched(r)]
        /\ pc' = [pc EXCEPT ![r] = w]
        /\ UNCHANGED <<home, tree, queue, stage, opened, append, todo, totals, faults, ghosts>>
    BY DEF MergeState, Goto
  <1>2. Patched(r) \in StateType
    <2>1. state \in StateType /\ draft[r] \in StateType  BY <1>0, ShapeFacts
    <2>2. draft[r].turn + 1 \in Nat /\ state.profile \in Profiles \cup {Unseeded}
      BY <2>1 DEF StateType
    <2> QED  BY <2>2 DEF Patched, StateType
  <1>3. draft' \in [Runs -> StateType]  BY <1>0, <1>1, <1>2, ShapeFacts
  <1>4. pc[r] \notin Opening \cup Recording \cup {"dead"}
    BY <1>1 DEF Recording, Opening, Appending
  <1>5. w \in {"update", "put state", "list", "done"}  OBVIOUS
  <1> HIDE DEF w
  <1>6. pc' \in [Runs -> PC] /\ PlaceInv' /\ Elsewhere(r)
    BY <1>1, <1>4, <1>5, ClosingPlace DEF append, tree
  <1>7. ShapeInv'
    BY <1>0, <1>1, <1>3, <1>6, ShapeFacts, ShapeNext DEF tree, opened, append, ghosts
  <1> QED  BY <1>6, <1>7 DEF TypeInv

LEMMA PutStateType ==
    ASSUME TypeInv, NEW r \in Runs, PutState(r)
    PROVE  TypeInv' /\ Elsewhere(r)
  <1>0. ShapeInv  BY DEF TypeInv
  <1>1. /\ pc[r] = "put state" /\ state' = draft[r] /\ closed' = closed \cup {r}
        /\ pc' = [pc EXCEPT ![r] = "list"]
        /\ UNCHANGED <<home, team, log, artifacts, consumption, queue, stage, opened, append,
                       scratch, faults, seeders, early, acked, clobbered, overlapped, due>>
    BY DEF PutState, Goto
  <1>2. state' \in StateType /\ closed' \subseteq Runs  BY <1>0, <1>1, ShapeFacts
  <1>3. pc[r] \notin Opening \cup Recording \cup {"dead"}
    BY <1>1 DEF Recording, Opening, Appending
  <1>4. pc' \in [Runs -> PC] /\ PlaceInv' /\ Elsewhere(r)
    BY <1>1, <1>3, ClosingPlace DEF append, scratch
  <1>5. ShapeInv'
    BY <1>0, <1>1, <1>2, <1>4, ShapeFacts, ShapeNext DEF opened, append, scratch
  <1> QED  BY <1>4, <1>5 DEF TypeInv

\* The histories there are, as a sequence that has each of them.
LEMMA HistoriesListed ==
    ASSUME NEW S, S \subseteq HistoryPaths
    PROVE  /\ SetToSeq(S) \in Seq(HistoryPaths)
           /\ ToSet(SetToSeq(S)) = S
  <1>1. IsFiniteSet(HistoryPaths)
    <2> DEFINE R == Roles \ {"council"}
               f == [role \in R |-> AgentHistory(role)]
    <2>1. IsFiniteSet(R)  BY FiniteAssumption, FS_Subset
    <2>2. f \in Surjection(R, HistoryPaths)
      <3>1. f \in [R -> HistoryPaths]  BY DEF HistoryPaths
      <3>2. \A t \in HistoryPaths : \E s \in R : f[s] = t  BY DEF HistoryPaths
      <3> QED  BY <3>1, <3>2, Fun_IsSurj
    <2> HIDE DEF R, f
    <2> QED  BY <2>1, <2>2, FS_Surjection
  <1>2. IsFiniteSet(S)  BY <1>1, FS_Subset
  <1> DEFINE n == Cardinality(S)
             g == SetToSeq(S)
  <1>3. n \in Nat /\ ExistsBijection(1..n, S)  BY <1>2, FS_CardinalityType
  <1>4. PICK b \in Bijection(1..n, S) : TRUE  BY <1>3 DEF ExistsBijection
  <1>5. b \in [1..n -> S] /\ IsInjective(b)
    <2>1. b \in [1..n -> S] /\ \A a, c \in 1..n : b[a] = b[c] => a = c
      BY <1>4, Fun_BijectionProperties
    <2> QED  BY <2>1 DEF IsInjective
  <1>6. g \in [1..n -> S] /\ IsInjective(g)
    <2>1. g = CHOOSE f \in [1..n -> S] : IsInjective(f)  BY DEF SetToSeq
    <2> HIDE DEF g, n
    <2> QED  BY <1>5, <2>1
  <1> HIDE DEF g
  <1>7. g \in Injection(1..n, S)  BY <1>6 DEF Injection
  <1>8. Cardinality(1..n) = n
    <2>1. 1 \in Int /\ n \in Int /\ n >= 0  BY <1>3
    <2>2. Cardinality(1..n) = IF 1 > n THEN 0 ELSE n - 1 + 1
      <3> HIDE DEF n
      <3> QED  BY <2>1, FS_Interval
    <2> QED  BY <1>3, <2>2
  <1>9. g \in Surjection(1..n, S)
    <2>1. Cardinality(1..n) = Cardinality(S) <=> g \in Surjection(1..n, S)
      BY <1>2, <1>7, FS_Injection
    <2> QED  BY <1>8, <2>1
  <1>10. \A t \in S : \E i \in 1..n : g[i] = t
    <2> HIDE DEF n
    <2>1. g \in {f \in [1..n -> S] : \A t \in S : \E i \in 1..n : f[i] = t}
      BY <1>9 DEF Surjection
    <2> QED  BY <2>1
  <1> HIDE DEF n
  <1>11. g \in Seq(HistoryPaths)
    <2>1. g \in [1..n -> HistoryPaths]  BY <1>6
    <2> QED  BY <1>3, <2>1, IsASeq
  <1>12. ToSet(g) = S
    <2>1. DOMAIN g = 1..n  BY <1>6
    <2> QED  BY <1>6, <1>10, <2>1 DEF ToSet
  <1> QED  BY <1>11, <1>12 DEF g

LEMMA HistorySeqs == Seq(HistoryPaths) \subseteq Seq(Files)
  <1>1. HistoryPaths \subseteq Files  BY DEF Files
  <1> QED  BY <1>1, SeqMonotonic

LEMMA ListHistoryType ==
    ASSUME TypeInv, NEW r \in Runs, ListHistory(r)
    PROVE  /\ TypeInv' /\ Elsewhere(r) /\ todo'[r] \in Seq(HistoryPaths)
           /\ ToSet(todo'[r]) = {p \in HistoryPaths : log[p].etag # 0}
  <1>0. ShapeInv  BY DEF TypeInv
  <1> DEFINE t == SetToSeq(HistoryFiles(r))
  <1>1. /\ pc[r] = "list" /\ todo' = [todo EXCEPT ![r] = t]
        /\ totals' = [totals EXCEPT ![r] = {}] /\ due' = [due EXCEPT ![r] = acked]
        /\ pc' = [pc EXCEPT ![r] = "rebuild"]
        /\ UNCHANGED <<home, tree, queue, stage, opened, append, draft, faults, seeders, early,
                       acked, clobbered, closed, overlapped>>
    BY DEF ListHistory, Goto
  <1>2. t \in Seq(HistoryPaths) /\ ToSet(t) = HistoryFiles(r)
    <2>1. HistoryFiles(r) \subseteq HistoryPaths  BY DEF HistoryFiles
    <2> QED  BY <2>1, HistoriesListed
  <1> HIDE DEF t
  <1>3. t \in Seq(Files)  BY <1>2, HistorySeqs
  <1>4. /\ todo' \in [Runs -> Seq(Files)] /\ todo'[r] = t
        /\ totals' \in [Runs -> SUBSET BlockType]
        /\ due' \in [Runs -> SUBSET Acks]
        /\ pc' \in [Runs -> PC] /\ pc'[r] = "rebuild"
    BY <1>0, <1>1, <1>3, ShapeFacts DEF PC
  <1>5. read[r] = Unread  BY <1>1 DEF TypeInv, PlaceInv, PlaceAt, Appending
  <1>6. PlaceAt(r)'
    BY <1>1, <1>2, <1>4, <1>5 DEF PlaceAt, Opening, Recording, Appending, append
  <1>7. Elsewhere(r)  BY <1>0, <1>1, ShapeFacts DEF Elsewhere, append
  <1>8. ShapeInv'
    BY <1>0, <1>1, <1>4, ShapeFacts, ShapeNext DEF tree, opened, append
  <1>9. PlaceInv'  BY <1>1, <1>6, <1>7, PlaceNext DEF TypeInv, tree
  <1> QED  BY <1>2, <1>4, <1>7, <1>8, <1>9 DEF TypeInv, HistoryFiles

LEMMA ReadHistoryType ==
    ASSUME TypeInv, NEW r \in Runs, ReadHistory(r)
    PROVE  /\ TypeInv' /\ Elsewhere(r)
           /\ Head(todo[r]) \in HistoryPaths /\ todo'[r] = Tail(todo[r])
           /\ totals'[r] = totals[r] \cup Blocks(Head(todo[r]))
           /\ \A p \in ToSet(todo[r]) : p = Head(todo[r]) \/ p \in ToSet(todo'[r])
  <1>0. ShapeInv  BY DEF TypeInv
  <1> DEFINE s == todo[r]
             b == Blocks(Head(s))
  <1>1. /\ pc[r] = "rebuild" /\ s # <<>>
        /\ totals' = [totals EXCEPT ![r] = @ \cup b]
        /\ todo' = [todo EXCEPT ![r] = Tail(s)]
        /\ UNCHANGED <<home, tree, queue, pc, stage, opened, append, draft, faults, ghosts>>
    BY DEF ReadHistory, Blocks
  <1>2. s \in Seq(HistoryPaths)  BY <1>1 DEF TypeInv, PlaceInv, PlaceAt
  <1>3. /\ Head(s) \in HistoryPaths /\ Tail(s) \in Seq(HistoryPaths)
        /\ \A p \in ToSet(s) : p = Head(s) \/ p \in ToSet(Tail(s))
    <2> HIDE DEF s
    <2>1. Head(s) \in HistoryPaths /\ Tail(s) \in Seq(HistoryPaths)  BY <1>1, <1>2
    <2>2. ASSUME NEW p \in ToSet(s), p # Head(s) PROVE p \in ToSet(Tail(s))
      <3>1. PICK i \in 1..Len(s) : s[i] = p  BY <1>2 DEF ToSet
      <3>2. i # 1 /\ Len(s) \in Nat  BY <1>2, <2>2, <3>1
      <3>3. i - 1 \in 1..Len(Tail(s)) /\ Tail(s)[i - 1] = s[i]  BY <1>1, <1>2, <3>2
      <3>4. DOMAIN Tail(s) = 1..Len(Tail(s))  BY <2>1
      <3> QED  BY <3>1, <3>3, <3>4 DEF ToSet
    <2> QED  BY <2>1, <2>2
  <1>4. b \subseteq BlockType
    <2>1. log[Head(s)] \in LogType  BY <1>0, <1>3, PathsAreLogs, ShapeFacts
    <2>2. log[Head(s)].blocks \in Seq(BlockType)  BY <2>1 DEF LogType
    <2> QED  BY <2>2 DEF Blocks, ToSet
  <1> HIDE DEF b
  <1>5. Tail(s) \in Seq(Files)  BY <1>3, HistorySeqs
  <1>6. /\ todo' \in [Runs -> Seq(Files)] /\ todo'[r] = Tail(s)
        /\ totals' \in [Runs -> SUBSET BlockType] /\ totals'[r] = totals[r] \cup b
    BY <1>0, <1>1, <1>4, <1>5, ShapeFacts
  <1>7. Elsewhere(r)  BY <1>0, <1>1, ShapeFacts DEF Elsewhere, append
  <1>8. PlaceAt(r)'
    <2>1. PlaceAt(r)  BY DEF TypeInv, PlaceInv
    <2> QED  BY <1>1, <1>3, <1>6, <2>1 DEF PlaceAt, Opening, Recording, Appending, append
  <1>9. PlaceInv'  BY <1>1, <1>7, <1>8, PlaceNext DEF TypeInv, tree
  <1>10. ShapeInv'
    BY <1>0, <1>1, <1>6, ShapeFacts, ShapeNext DEF tree, opened, append, ghosts
  <1> QED  BY <1>3, <1>6, <1>7, <1>9, <1>10 DEF TypeInv, b

LEMMA PutConsumptionType ==
    ASSUME TypeInv, NEW r \in Runs, PutConsumption(r)
    PROVE  TypeInv' /\ Elsewhere(r)
  <1>0. ShapeInv  BY DEF TypeInv
  <1>1. /\ pc[r] = "rebuild" /\ pc' = [pc EXCEPT ![r] = "done"]
        /\ UNCHANGED <<home, team, state, log, artifacts, queue, stage, opened, append, scratch,
                       faults, ghosts>>
    BY DEF PutConsumption, Goto
  <1>3. pc[r] \notin Opening \cup Recording \cup {"dead"}
    BY <1>1 DEF Recording, Opening, Appending
  <1>4. pc' \in [Runs -> PC] /\ PlaceInv' /\ Elsewhere(r)
    BY <1>1, <1>3, ClosingPlace DEF append, scratch
  <1>5. ShapeInv'
    BY <1>0, <1>1, <1>4, ShapeFacts, ShapeNext DEF opened, append, scratch, ghosts
  <1> QED  BY <1>4, <1>5 DEF TypeInv

\* What a call that fails leaves, while opening and while closing.
LEMMA OpeningFailsFacts ==
    ASSUME NEW r \in Runs, OpeningFails(r)
    PROVE  /\ pc[r] \in Opening /\ faults < MaxFaults /\ faults' = faults + 1
           /\ pc' = [pc EXCEPT ![r] = FirstStage(r)]
           /\ profile' = [profile EXCEPT ![r] = Asked[r]]
           /\ todo' = [todo EXCEPT ![r] = <<>>] /\ early' = IfEarly(r)
           /\ UNCHANGED <<home, tree, queue, stage, append, context, draft, totals, seeders,
                          acked, clobbered, closed, overlapped, due>>
  BY DEF OpeningFails, StoreFails, Opening, Recording, Appending, Goto

LEMMA ClosingFailsFacts ==
    ASSUME NEW r \in Runs, ClosingFails(r)
    PROVE  /\ pc[r] \notin Opening \cup Recording \cup {"done", "dead"}
           /\ faults < MaxFaults /\ faults' = faults + 1
           /\ pc' = [pc EXCEPT ![r] = "done"] /\ todo' = [todo EXCEPT ![r] = <<>>]
           /\ UNCHANGED <<home, tree, queue, stage, opened, append, draft, totals, seeders,
                          early, acked, clobbered, closed, overlapped, due>>
  BY DEF ClosingFails, StoreFails, Live, Goto, opened

LEMMA OpeningFailsType ==
    ASSUME TypeInv, NEW r \in Runs, OpeningFails(r)
    PROVE  TypeInv' /\ Elsewhere(r)
  <1>0. ShapeInv  BY DEF TypeInv
  <1>1. /\ pc[r] \in Opening /\ faults < MaxFaults /\ faults' = faults + 1
        /\ pc' = [pc EXCEPT ![r] = FirstStage(r)]
        /\ profile' = [profile EXCEPT ![r] = Asked[r]]
        /\ todo' = [todo EXCEPT ![r] = <<>>] /\ early' = IfEarly(r)
        /\ UNCHANGED <<home, tree, queue, stage, append, context, draft, totals, seeders,
                       acked, clobbered, closed, overlapped, due>>
    BY OpeningFailsFacts
  <1>2. /\ FirstStage(r) \in {"stage", "close"} /\ FirstStage(r) \in PC
        /\ FirstStage(r) = "stage" => stage[r] \in 1..Len(Stages[r])
        /\ read[r] = Unread
    BY <1>1, FirstStageFacts
  <1>3. faults' \in 0..MaxFaults  BY <1>0, <1>1, FailuresAreBounded
  <1>4. early' \subseteq Runs  BY <1>0, <1>1, ShapeFacts DEF IfEarly
  <1>5. /\ profile' \in [Runs -> Profiles] /\ todo' \in [Runs -> Seq(Files)]
        /\ pc' \in [Runs -> PC] /\ pc'[r] = FirstStage(r)
    BY <1>0, <1>1, <1>2, EmptyFiles, RolesAssumption, ShapeFacts
  <1>6. ShapeInv'
    BY <1>0, <1>1, <1>3, <1>4, <1>5, ShapeFacts, ShapeNext DEF tree, append
  <1>7. Elsewhere(r)  BY <1>0, <1>1, ShapeFacts DEF Elsewhere, append
  <1>8. PlaceAt(r)'
    BY <1>1, <1>2, <1>5 DEF PlaceAt, Opening, Recording, Appending, append
  <1> QED  BY <1>1, <1>6, <1>7, <1>8, PlaceNext DEF TypeInv, tree

LEMMA ClosingFailsType ==
    ASSUME TypeInv, NEW r \in Runs, ClosingFails(r)
    PROVE  TypeInv' /\ Elsewhere(r)
  <1>0. ShapeInv  BY DEF TypeInv
  <1>1. /\ pc[r] \notin Opening \cup Recording \cup {"done", "dead"}
        /\ faults < MaxFaults /\ faults' = faults + 1
        /\ pc' = [pc EXCEPT ![r] = "done"] /\ todo' = [todo EXCEPT ![r] = <<>>]
        /\ UNCHANGED <<home, tree, queue, stage, opened, append, draft, totals, seeders,
                       early, acked, clobbered, closed, overlapped, due>>
    BY ClosingFailsFacts
  <1>2. faults' \in 0..MaxFaults  BY <1>0, <1>1, FailuresAreBounded
  <1>3. todo' \in [Runs -> Seq(Files)] /\ \A o \in Runs \ {r} : todo'[o] = todo[o]
    BY <1>0, <1>1, EmptyFiles, ShapeFacts
  <1>4. pc' \in [Runs -> PC] /\ PlaceInv' /\ Elsewhere(r)
    BY <1>1, <1>3, ClosingPlace DEF append, tree
  <1>5. ShapeInv'
    BY <1>0, <1>1, <1>2, <1>3, <1>4, ShapeFacts, ShapeNext DEF tree, opened, append
  <1> QED  BY <1>4, <1>5 DEF TypeInv

\* A crash stops the runs of one process.
LEMMA CrashFacts ==
    ASSUME TypeInv, NEW x \in Processes, Crash(x)
    PROVE  /\ faults < MaxFaults /\ faults' = faults + 1
           /\ pc' \in [Runs -> PC] /\ \A r \in Runs : pc'[r] # "dead" => pc'[r] = pc[r]
           /\ \A r \in Runs : home[r] = x => pc'[r] \in {"done", "dead"}
           /\ queue' \in QueueType /\ \A y \in Processes : y # x => queue'[y] = queue[y]
           /\ UNCHANGED <<home, tree, stage, opened, append, scratch, ghosts>>
  <1>1. /\ faults < MaxFaults /\ faults' = faults + 1
        /\ pc' = [r \in Runs |-> IF home[r] = x /\ Live(r) THEN "dead" ELSE pc[r]]
        /\ queue' = [queue EXCEPT ![x] = [p \in LogPaths |-> <<>>]]
        /\ UNCHANGED <<home, tree, stage, opened, append, scratch, ghosts>>
    BY DEF Crash
  <1>2. pc \in [Runs -> PC] /\ queue \in QueueType  BY ShapeFacts DEF TypeInv, QueueType
  <1>3. "dead" \in PC  BY DEF PC
  <1>4. pc' \in [Runs -> PC]  BY <1>1, <1>2, <1>3
  <1>5. \A r \in Runs : pc'[r] # "dead" => pc'[r] = pc[r]  BY <1>1
  <1>6. \A r \in Runs : home[r] = x => pc'[r] \in {"done", "dead"}  BY <1>1 DEF Live
  <1>7. [p \in LogPaths |-> <<>>] \in [LogPaths -> Seq(Runs)]  OBVIOUS
  <1>8. queue' \in QueueType /\ \A y \in Processes : y # x => queue'[y] = queue[y]
    BY <1>1, <1>2, <1>7 DEF QueueType
  <1> QED  BY <1>1, <1>4, <1>5, <1>6, <1>8

LEMMA CrashType ==
    ASSUME TypeInv, NEW x \in Processes, Crash(x)
    PROVE  TypeInv'
  <1>0. ShapeInv  BY DEF TypeInv
  <1>1. /\ faults < MaxFaults /\ faults' = faults + 1
        /\ pc' \in [Runs -> PC] /\ \A r \in Runs : pc'[r] # "dead" => pc'[r] = pc[r]
        /\ queue' \in QueueType
        /\ UNCHANGED <<home, tree, stage, opened, append, scratch, ghosts>>
    BY CrashFacts
  <1>2. faults' \in 0..MaxFaults  BY <1>0, <1>1, FailuresAreBounded
  <1>3. ShapeInv'
    BY <1>0, <1>1, <1>2, ShapeFacts, ShapeNext
       DEF QueueType, tree, opened, append, scratch, ghosts
  <1>4. ASSUME NEW r \in Runs PROVE PlaceAt(r)'
    <2>1. PlaceAt(r)  BY DEF TypeInv, PlaceInv
    <2>2. CASE pc'[r] = "dead"
      BY <2>2 DEF PlaceAt, Opening, Recording, Appending
    <2>3. CASE pc'[r] # "dead"
      <3>1. pc'[r] = pc[r] /\ Role(r)' = Role(r)  BY <1>1, <2>3 DEF Role
      <3> QED  BY <1>1, <2>1, <3>1 DEF PlaceAt, Written, append, scratch, tree
    <2> QED  BY <2>2, <2>3
  <1> QED  BY <1>3, <1>4 DEF TypeInv, PlaceInv
-----------------------------------------------------------------------------
(* The type theorem. *)

\* Every step records, or is one of the others, or a crash.
LEMMA Steps ==
    ASSUME [Next]_vars
    PROVE  \/ \E r \in Runs :
                 \/ RecordStep(r) \/ Open(r) \/ Seed(r) \/ Index(r)
                 \/ ReadTurn(r) \/ MergeState(r) \/ PutState(r)
                 \/ ListHistory(r) \/ ReadHistory(r) \/ PutConsumption(r)
                 \/ OpeningFails(r) \/ ClosingFails(r)
           \/ \E x \in Processes : Crash(x)
           \/ UNCHANGED vars
  <1>1. CASE UNCHANGED vars  BY <1>1
  <1>2. CASE \E x \in Processes : Crash(x)  BY <1>2
  <1>3. ASSUME NEW r \in Runs, Step(r) \/ StoreFails(r)
        PROVE  \/ RecordStep(r) \/ Open(r) \/ Seed(r) \/ Index(r)
               \/ ReadTurn(r) \/ MergeState(r) \/ PutState(r)
               \/ ListHistory(r) \/ ReadHistory(r) \/ PutConsumption(r)
               \/ OpeningFails(r) \/ ClosingFails(r)
    BY <1>3 DEF Step, RecordStep, OpeningFails, RecordingFails, ClosingFails
  <1> QED  BY <1>1, <1>2, <1>3 DEF Next

LEMMA InitType ==
    ASSUME Init
    PROVE  TypeInv
  <1>1. /\ home \in Homes /\ artifacts = {} /\ consumption = {}
        /\ queue = [x \in Processes |-> [p \in LogPaths |-> <<>>]]
        /\ pc = [r \in Runs |-> "open"] /\ stage = [r \in Runs |-> 1]
        /\ profile = Asked /\ context = [r \in Runs |-> Unseeded]
        /\ read = [r \in Runs |-> Unread] /\ tries = [r \in Runs |-> 0]
        /\ todo = [r \in Runs |-> <<>>] /\ totals = [r \in Runs |-> {}]
        /\ draft = [r \in Runs |-> NoState] /\ faults = 0
        /\ seeders = {} /\ early = {} /\ acked = {} /\ clobbered = {} /\ closed = {}
        /\ overlapped = {} /\ due = [r \in Runs |-> {}]
    BY DEF Init
  <1>2. /\ team \in Profiles \cup {Unseeded} /\ state \in StateType
        /\ log \in [LogPaths -> LogType]
    <2> DEFINE e == [Absent EXCEPT !.etag = 1]
    <2>1. Absent \in LogType /\ e \in LogType /\ NoState \in StateType
      <3>1. e = [etag |-> 1, blocks |-> <<>>]  BY DEF Absent
      <3> QED  BY <3>1, AbsentType DEF LogType
    <2> HIDE DEF e
    <2>2. CASE team = Unseeded /\ state = NoState /\ log = [p \in LogPaths |-> Absent]
      BY <2>1, <2>2
    <2>3. CASE /\ team \in SeededAs /\ state = [profile |-> team, turn |-> 0]
               /\ log = [p \in LogPaths |-> IF p \in {Decisions, Notifications} \cup HistoryPaths
                                            THEN e ELSE Absent]
      <3>1. team \in Profiles  BY <2>3, RolesAssumption
      <3> QED  BY <2>1, <2>3, <3>1 DEF StateType
    <2> QED  BY <2>2, <2>3 DEF Init, e
  <1>3. ASSUME NEW r \in Runs PROVE 1 \in 1..(Len(Stages[r]) + 1)
    <2>1. Stages[r] \in Seq(Roles)  BY RolesAssumption
    <2> QED  BY <2>1
  <1>4. MaxFaults \in Nat /\ Asked \in [Runs -> Profiles] /\ Homes \subseteq [Runs -> Processes]
    BY BoundsAssumption, RolesAssumption
  <1>5. ShapeInv
    <2>1. /\ home \in [Runs -> Processes] /\ profile \in [Runs -> Profiles]
          /\ faults \in 0..MaxFaults
      BY <1>1, <1>4
    <2>2. "open" \in PC  BY DEF PC
    <2>3. /\ queue \in [Processes -> [LogPaths -> Seq(Runs)]] /\ pc \in [Runs -> PC]
          /\ stage \in [Runs -> Nat] /\ context \in [Runs -> Profiles \cup {Unseeded}]
          /\ read \in [Runs -> LogType] /\ tries \in [Runs -> 0..(Attempts - 1)]
          /\ todo \in [Runs -> Seq(Files)] /\ totals \in [Runs -> SUBSET BlockType]
          /\ draft \in [Runs -> StateType] /\ due \in [Runs -> SUBSET Acks]
      BY <1>1, <2>2, AbsentType, NoTries
    <2>4. \A r \in Runs : stage[r] \in 1..(Len(Stages[r]) + 1)  BY <1>1, <1>3
    <2> QED  BY <1>1, <1>2, <2>1, <2>3, <2>4 DEF ShapeInv, TypeOK
  <1>6. PlaceInv
    BY <1>1 DEF PlaceInv, PlaceAt, Opening, Recording, Appending
  <1> QED  BY <1>5, <1>6 DEF TypeInv

LEMMA StutterType ==
    ASSUME TypeInv, UNCHANGED vars
    PROVE  TypeInv'
  <1>1. UNCHANGED <<home, team, state, log, artifacts, consumption, queue, pc, stage, profile,
                    context, read, tries, todo, draft, totals, faults, seeders, early, acked,
                    clobbered, closed, overlapped, due>>
    BY DEF vars, tree, opened, append, scratch, ghosts
  <1>2. ShapeInv'  BY <1>1, ShapeFacts, ShapeNext DEF TypeInv
  <1>3. PlaceInv'
    <2>1. ASSUME NEW r \in Runs PROVE PlaceAt(r)'
      <3>1. PlaceAt(r)  BY DEF TypeInv, PlaceInv
      <3>2. Role(r)' = Role(r)  BY <1>1 DEF Role
      <3> QED  BY <1>1, <3>1, <3>2 DEF PlaceAt, Written
    <2> QED  BY <2>1 DEF PlaceInv
  <1> QED  BY <1>2, <1>3 DEF TypeInv

LEMMA NextType ==
    ASSUME TypeInv, [Next]_vars
    PROVE  TypeInv'
  <1>1. ASSUME NEW r \in Runs, RecordStep(r) PROVE TypeInv'  BY <1>1, RecordStepType
  <1>2. ASSUME NEW r \in Runs, Open(r) PROVE TypeInv'  BY <1>2, OpenType
  <1>3. ASSUME NEW r \in Runs, Seed(r) PROVE TypeInv'  BY <1>3, SeedType
  <1>4. ASSUME NEW r \in Runs, Index(r) PROVE TypeInv'  BY <1>4, IndexType
  <1>5. ASSUME NEW r \in Runs, ReadTurn(r) PROVE TypeInv'  BY <1>5, ReadTurnType
  <1>6. ASSUME NEW r \in Runs, MergeState(r) PROVE TypeInv'  BY <1>6, MergeStateType
  <1>7. ASSUME NEW r \in Runs, PutState(r) PROVE TypeInv'  BY <1>7, PutStateType
  <1>8. ASSUME NEW r \in Runs, ListHistory(r) PROVE TypeInv'  BY <1>8, ListHistoryType
  <1>9. ASSUME NEW r \in Runs, ReadHistory(r) PROVE TypeInv'  BY <1>9, ReadHistoryType
  <1>10. ASSUME NEW r \in Runs, PutConsumption(r) PROVE TypeInv'
    BY <1>10, PutConsumptionType
  <1>11. ASSUME NEW r \in Runs, OpeningFails(r) PROVE TypeInv'  BY <1>11, OpeningFailsType
  <1>12. ASSUME NEW r \in Runs, ClosingFails(r) PROVE TypeInv'  BY <1>12, ClosingFailsType
  <1>13. ASSUME NEW x \in Processes, Crash(x) PROVE TypeInv'  BY <1>13, CrashType
  <1>14. CASE UNCHANGED vars  BY <1>14, StutterType
  <1> QED
    BY <1>1, <1>2, <1>3, <1>4, <1>5, <1>6, <1>7, <1>8, <1>9, <1>10, <1>11, <1>12, <1>13, <1>14,
       Steps

\* The types of the tree, the logs, the queues and the runs, whatever is opened,
\* appended, retried, closed, failed or stopped, in any order.
THEOREM TrackingTypeCorrect == Spec => []TypeOK
  <1>1. Init => TypeInv  BY InitType
  <1>2. TypeInv /\ [Next]_vars => TypeInv'  BY NextType
  <1>3. TypeInv => TypeOK  BY DEF TypeInv, ShapeInv
  <1> QED  BY <1>1, <1>2, <1>3, PTL DEF Spec
-----------------------------------------------------------------------------
(* The roster. *)

Ended == {"list", "rebuild", "done", "dead"}

\* A step that neither opens nor closes a run leaves these alone.
Quiet ==
    /\ UNCHANGED <<home, team, state, profile, context, draft, seeders, closed, overlapped>>
    /\ \A o \in Runs : /\ pc'[o] \in Opening => pc'[o] = pc[o] /\ todo'[o] = todo[o]
                       /\ pc'[o] \in {"update", "put state"} => pc'[o] = pc[o]
                       /\ pc[o] \in Ended => pc'[o] \in Ended

LEMMA QuietRecords ==
    ASSUME TypeInv, NEW r \in Runs, RecordStep(r)
    PROVE  Quiet
  <1>1. PICK w : Records(r, w)  BY RecordSteps
  <1>2. /\ pc[r] \in Recording /\ w \in Recording \cup {"close"}
        /\ UNCHANGED <<home, team, state, profile, context, draft, seeders, closed, overlapped>>
    BY <1>1 DEF Records
  <1>3. pc'[r] = w /\ Elsewhere(r)  BY <1>1, RecordsStage, RecordsElsewhere
  <1>4. /\ pc'[r] \notin Opening /\ pc'[r] \notin {"update", "put state"}
        /\ pc[r] \notin Ended
    BY <1>2, <1>3 DEF Recording, Appending, Opening, Ended
  <1> QED  BY <1>2, <1>3, <1>4 DEF Quiet, Elsewhere

LEMMA QuietRest ==
    ASSUME TypeInv, NEW r \in Runs,
           ListHistory(r) \/ ReadHistory(r) \/ PutConsumption(r) \/ ClosingFails(r)
    PROVE  Quiet
  <1>0. pc \in [Runs -> PC]  BY ShapeFacts DEF TypeInv
  <1>1. CASE ListHistory(r)
    <2>1. Elsewhere(r)  BY <1>1, ListHistoryType
    <2>2. pc[r] = "list" /\ pc'[r] = "rebuild"  BY <1>0, <1>1 DEF ListHistory, Goto
    <2>3. UNCHANGED <<home, team, state, profile, context, draft, seeders, closed, overlapped>>
      BY <1>1 DEF ListHistory, tree, opened
    <2> QED  BY <2>1, <2>2, <2>3 DEF Quiet, Elsewhere, Opening, Ended
  <1>2. CASE ReadHistory(r)
    <2>1. Elsewhere(r)  BY <1>2, ReadHistoryType
    <2>2. pc[r] = "rebuild" /\ pc'[r] = "rebuild"  BY <1>2 DEF ReadHistory
    <2>3. UNCHANGED <<home, team, state, profile, context, draft, seeders, closed, overlapped>>
      BY <1>2 DEF ReadHistory, tree, opened, ghosts
    <2> QED  BY <2>1, <2>2, <2>3 DEF Quiet, Elsewhere, Opening, Ended
  <1>3. CASE PutConsumption(r)
    <2>1. Elsewhere(r)  BY <1>3, PutConsumptionType
    <2>2. pc[r] = "rebuild" /\ pc'[r] = "done"  BY <1>0, <1>3 DEF PutConsumption, Goto
    <2>3. UNCHANGED <<home, team, state, profile, context, draft, seeders, closed, overlapped>>
      BY <1>3 DEF PutConsumption, opened, scratch, ghosts
    <2> QED  BY <2>1, <2>2, <2>3 DEF Quiet, Elsewhere, Opening, Ended
  <1>4. CASE ClosingFails(r)
    <2>1. Elsewhere(r)  BY <1>4, ClosingFailsType
    <2>2. pc' = [pc EXCEPT ![r] = "done"]  BY <1>4, ClosingFailsFacts
    <2>3. pc'[r] = "done"  BY <1>0, <2>2
    <2>4. UNCHANGED <<home, team, state, profile, context, draft, seeders, closed, overlapped>>
      BY <1>4, ClosingFailsFacts DEF tree, opened
    <2> QED  BY <2>1, <2>3, <2>4 DEF Quiet, Elsewhere, Opening, Ended
  <1> QED  BY <1>1, <1>2, <1>3, <1>4

LEMMA QuietCrash ==
    ASSUME TypeInv, (\E x \in Processes : Crash(x)) \/ UNCHANGED vars
    PROVE  Quiet
  <1>1. CASE UNCHANGED vars
    BY <1>1 DEF Quiet, vars, tree, opened, append, scratch, ghosts
  <1>2. ASSUME NEW x \in Processes, Crash(x) PROVE Quiet
    <2>1. /\ \A r \in Runs : pc'[r] # "dead" => pc'[r] = pc[r]
          /\ UNCHANGED <<home, tree, stage, opened, append, scratch, ghosts>>
      BY <1>2, CrashFacts
    <2> QED  BY <2>1 DEF Quiet, Opening, Ended, tree, opened, scratch, ghosts
  <1> QED  BY <1>1, <1>2

\* The steps that open or close, and the quiet ones.
LEMMA QuietSteps ==
    ASSUME TypeInv, [Next]_vars
    PROVE  \/ Quiet
           \/ \E r \in Runs : \/ Open(r) \/ Seed(r) \/ Index(r) \/ OpeningFails(r)
                              \/ ReadTurn(r) \/ MergeState(r) \/ PutState(r)
  BY Steps, QuietRecords, QuietRest, QuietCrash

\* What a run that closes leaves alone, one step at a time.
LEMMA CloserFacts ==
    ASSUME TypeInv, NEW r \in Runs, ReadTurn(r) \/ MergeState(r) \/ PutState(r)
    PROVE  /\ UNCHANGED <<home, team, profile, context, seeders>>
           /\ \A o \in Runs : pc'[o] \in Opening => pc'[o] = pc[o] /\ todo'[o] = todo[o]
           /\ Elsewhere(r)
           /\ \A o \in Runs \ {r} : draft'[o] = draft[o]
           /\ ReadTurn(r) => pc[r] = "close" /\ pc'[r] = "update" /\ draft'[r] = state
                             /\ state' = state
           /\ MergeState(r) => pc[r] = "update" /\ draft'[r] = Patched(r) /\ state' = state
                             /\ pc'[r] = IF state.profile = Unseeded THEN "list" ELSE "put state"
           /\ PutState(r) => pc[r] = "put state" /\ pc'[r] = "list" /\ state' = draft[r]
                             /\ draft' = draft
  <1>0. pc \in [Runs -> PC] /\ draft \in [Runs -> StateType]  BY ShapeFacts DEF TypeInv
  <1>1. CASE ReadTurn(r)
    <2>1. Elsewhere(r)  BY <1>1, ReadTurnType
    <2>2. pc[r] = "close" /\ pc'[r] = "update" /\ draft' = [draft EXCEPT ![r] = state]
      BY <1>0, <1>1 DEF ReadTurn, Goto
    <2>3. UNCHANGED <<home, team, profile, context, seeders, state>>
      BY <1>1 DEF ReadTurn, tree, opened
    <2>4. ~MergeState(r) /\ ~PutState(r)  BY <2>2 DEF MergeState, PutState
    <2> QED  BY <1>0, <2>1, <2>2, <2>3, <2>4 DEF Elsewhere, Opening
  <1>2. CASE MergeState(r)
    <2>1. Elsewhere(r)  BY <1>2, MergeStateType
    <2>2. /\ pc[r] = "update" /\ draft' = [draft EXCEPT ![r] = Patched(r)]
          /\ pc'[r] = IF state.profile = Unseeded THEN "list" ELSE "put state"
      BY <1>0, <1>2 DEF MergeState, Goto
    <2>3. UNCHANGED <<home, team, profile, context, seeders, state>>
      BY <1>2 DEF MergeState, tree, opened, ghosts
    <2>4. ~ReadTurn(r) /\ ~PutState(r)  BY <2>2 DEF ReadTurn, PutState
    <2> QED  BY <1>0, <2>1, <2>2, <2>3, <2>4 DEF Elsewhere, Opening
  <1>3. CASE PutState(r)
    <2>1. Elsewhere(r)  BY <1>3, PutStateType
    <2>2. pc[r] = "put state" /\ state' = draft[r] /\ pc'[r] = "list"
      BY <1>0, <1>3 DEF PutState, Goto
    <2>3. UNCHANGED <<home, team, profile, context, seeders, draft>>
      BY <1>3 DEF PutState, scratch, opened
    <2>4. ~ReadTurn(r) /\ ~MergeState(r)  BY <2>2 DEF ReadTurn, MergeState
    <2> QED  BY <1>0, <2>1, <2>2, <2>3, <2>4 DEF Elsewhere, Opening
  <1> QED  BY <1>1, <1>2, <1>3

LEMMA SeederNext ==
    ASSUME TypeInv, SeederInv, [Next]_vars
    PROVE  SeederInv'
  <1>0. /\ pc \in [Runs -> PC] /\ todo \in [Runs -> Seq(Files)]
        /\ context \in [Runs -> Profiles \cup {Unseeded}]
        /\ profile \in [Runs -> Profiles] /\ team \in Profiles \cup {Unseeded}
    BY ShapeFacts DEF TypeInv
  <1>a. Asked \in [Runs -> Profiles] /\ Unseeded \notin Profiles  BY RolesAssumption
  <1>1. CASE Quiet  BY <1>1 DEF Quiet, SeederInv, Opening
  <1>2. ASSUME NEW r \in Runs, Open(r) PROVE SeederInv'
    <2>1. Elsewhere(r)  BY <1>2, OpenType
    <2>2. pc[r] = "open" /\ UNCHANGED <<team, context>>  BY <1>2 DEF Open, tree
    <2>3. CASE team = Unseeded
      <3>1. /\ seeders' = seeders \cup {r} /\ todo' = [todo EXCEPT ![r] = SeedFiles]
            /\ pc' = [pc EXCEPT ![r] = "seed"] /\ UNCHANGED profile
        BY <1>2, <2>3 DEF Open, Goto
      <3>2. pc'[r] = "seed" /\ todo'[r] = SeedFiles  BY <1>0, <3>1
      <3>3. Head(SeedFiles) = "team"  BY DEF SeedFiles
      <3> QED  BY <2>1, <2>2, <3>1, <3>2, <3>3 DEF SeederInv, Elsewhere, Opening
    <2>4. CASE team # Unseeded
      <3>1. /\ profile' = [profile EXCEPT ![r] = team] /\ pc' = [pc EXCEPT ![r] = "index"]
            /\ UNCHANGED <<seeders, todo>>
        BY <1>2, <2>4 DEF Open, Goto, Effective
      <3>2. /\ pc'[r] = "index" /\ \A o \in Runs \ {r} : profile'[o] = profile[o]
        BY <1>0, <3>1
      <3> QED  BY <2>1, <2>2, <3>1, <3>2 DEF SeederInv, Elsewhere, Opening
    <2> QED  BY <2>3, <2>4
  <1>3. ASSUME NEW r \in Runs, Seed(r) PROVE SeederInv'
    <2>1. Elsewhere(r)  BY <1>3, SeedType
    <2>2. /\ pc[r] = "seed" /\ team' = IF Head(todo[r]) = "team" THEN Asked[r] ELSE team
          /\ pc' = [pc EXCEPT ![r] = IF Len(todo[r]) = 1 THEN "index" ELSE "seed"]
          /\ UNCHANGED <<opened, seeders>>
      BY <1>3, SeedFacts
    <2>3. pc'[r] = IF Len(todo[r]) = 1 THEN "index" ELSE "seed"  BY <1>0, <2>2
    <2>4. team' # Unseeded
      BY <1>a, <2>2 DEF SeederInv
    <2> QED  BY <2>1, <2>2, <2>3, <2>4 DEF SeederInv, Elsewhere, Opening, opened
  <1>4. ASSUME NEW r \in Runs, Index(r) PROVE SeederInv'
    <2>1. Elsewhere(r)  BY <1>4, IndexType
    <2>2. /\ pc[r] = "index" /\ context' = [context EXCEPT ![r] = state.profile]
          /\ pc' = [pc EXCEPT ![r] = FirstStage(r)]
          /\ UNCHANGED <<team, profile, seeders>>
      BY <1>4 DEF Index, Goto, tree, ghosts
    <2>3. FirstStage(r) \notin Opening  BY DEF FirstStage, Opening
    <2>4. /\ pc'[r] = FirstStage(r) /\ \A o \in Runs \ {r} : context'[o] = context[o]
      BY <1>0, <2>2
    <2> QED  BY <2>1, <2>2, <2>3, <2>4 DEF SeederInv, Elsewhere, Opening
  <1>5. ASSUME NEW r \in Runs, OpeningFails(r) PROVE SeederInv'
    <2>1. Elsewhere(r)  BY <1>5, OpeningFailsType
    <2>2. /\ pc' = [pc EXCEPT ![r] = FirstStage(r)]
          /\ profile' = [profile EXCEPT ![r] = Asked[r]]
          /\ UNCHANGED <<team, context, seeders>>
      BY <1>5, OpeningFailsFacts DEF tree
    <2>3. FirstStage(r) \notin Opening  BY DEF FirstStage, Opening
    <2>4. /\ pc'[r] = FirstStage(r) /\ \A o \in Runs \ {r} : profile'[o] = profile[o]
      BY <1>0, <2>2
    <2> QED  BY <2>1, <2>2, <2>3, <2>4 DEF SeederInv, Elsewhere, Opening
  <1>6. ASSUME NEW r \in Runs, ReadTurn(r) \/ MergeState(r) \/ PutState(r) PROVE SeederInv'
    BY <1>6, CloserFacts DEF SeederInv, Opening
  <1> QED  BY <1>1, <1>2, <1>3, <1>4, <1>5, <1>6, QuietSteps

\* Seeders are never forgotten.
LEMMA SeedersGrow ==
    ASSUME TypeInv, [Next]_vars
    PROVE  seeders \subseteq seeders'
  <1>1. CASE Quiet  BY <1>1 DEF Quiet
  <1>2. ASSUME NEW r \in Runs, Open(r) PROVE seeders \subseteq seeders'
    BY <1>2 DEF Open
  <1>3. ASSUME NEW r \in Runs, Seed(r) PROVE seeders \subseteq seeders'
    BY <1>3, SeedFacts
  <1>4. ASSUME NEW r \in Runs, Index(r) \/ OpeningFails(r) PROVE seeders \subseteq seeders'
    BY <1>4, OpeningFailsFacts DEF Index, ghosts
  <1>5. ASSUME NEW r \in Runs, ReadTurn(r) \/ MergeState(r) \/ PutState(r)
        PROVE  seeders \subseteq seeders'
    BY <1>5, CloserFacts
  <1> QED  BY <1>1, <1>2, <1>3, <1>4, <1>5, QuietSteps

LEMMA AtMostOneSubset ==
    ASSUME NEW S, NEW T, S \subseteq T, AtMostOne(T)
    PROVE  AtMostOne(S)
  BY DEF AtMostOne

LEMMA FewerThanTwo ==
    ASSUME NEW S, IsFiniteSet(S), Cardinality(S) < 2
    PROVE  AtMostOne(S)
  <1> SUFFICES ASSUME NEW a \in S, NEW b \in S, a # b PROVE FALSE
    BY DEF AtMostOne
  <1>2. Cardinality({a}) = 1 /\ IsFiniteSet({a})  BY FS_Singleton
  <1>3. Cardinality({a} \cup {b}) = 2 /\ IsFiniteSet({a} \cup {b})
    <2>1. b \notin {a}  OBVIOUS
    <2>2. Cardinality({a} \cup {b}) = Cardinality({a}) + 1 /\ IsFiniteSet({a} \cup {b})
      BY <1>2, <2>1, FS_AddElement
    <2> QED  BY <1>2, <2>2
  <1>4. Cardinality({a} \cup {b}) <= Cardinality(S)
    <2>1. {a} \cup {b} \subseteq S  OBVIOUS
    <2> QED  BY <2>1, FS_Subset
  <1>5. Cardinality(S) \in Nat  BY FS_CardinalityType
  <1> QED  BY <1>3, <1>4, <1>5

LEMMA RosterNext ==
    ASSUME TypeInv, SeederInv, RosterInv, [Next]_vars
    PROVE  RosterInv'
  <1> SUFFICES ASSUME AtMostOne(seeders')
               PROVE  /\ state'.profile \in {Unseeded, team'}
                      /\ \A r \in Runs :
                            /\ draft'[r].profile \in {Unseeded, team'}
                            /\ context'[r] \in {Unseeded, team'}
                            /\ context'[r] # Unseeded => profile'[r] = team'
                            /\ pc'[r] = "index" => team' # Unseeded /\ profile'[r] = team'
                            /\ pc'[r] = "seed" =>
                                  team' = IF Head(todo'[r]) = "team" THEN Unseeded ELSE Asked[r]
    BY DEF RosterInv, AtMostOne
  <1>0. /\ pc \in [Runs -> PC] /\ todo \in [Runs -> Seq(Files)]
        /\ context \in [Runs -> Profiles \cup {Unseeded}]
        /\ profile \in [Runs -> Profiles] /\ team \in Profiles \cup {Unseeded}
    BY ShapeFacts DEF TypeInv
  <1>a. Asked \in [Runs -> Profiles] /\ Unseeded \notin Profiles  BY RolesAssumption
  <1>b. AtMostOne(seeders)  BY SeedersGrow, AtMostOneSubset
  <1>c. /\ state.profile \in {Unseeded, team}
        /\ \A r \in Runs :
              /\ draft[r].profile \in {Unseeded, team} /\ context[r] \in {Unseeded, team}
              /\ context[r] # Unseeded => profile[r] = team
              /\ pc[r] = "index" => team # Unseeded /\ profile[r] = team
              /\ pc[r] = "seed" => team = IF Head(todo[r]) = "team" THEN Unseeded ELSE Asked[r]
    BY <1>b DEF RosterInv
  <1>1. CASE Quiet  BY <1>1, <1>c DEF Quiet, Opening
  <1>2. ASSUME NEW r \in Runs, Open(r) PROVE RosterInv'
    <2>1. Elsewhere(r)  BY <1>2, OpenType
    <2>2. pc[r] = "open" /\ UNCHANGED <<team, state, draft, context>>  BY <1>2 DEF Open, tree
    <2>0. context[r] = Unseeded  BY <2>2 DEF SeederInv, Opening
    <2>3. CASE team = Unseeded
      <3>1. /\ todo' = [todo EXCEPT ![r] = SeedFiles]
            /\ pc' = [pc EXCEPT ![r] = "seed"] /\ UNCHANGED profile
        BY <1>2, <2>3 DEF Open, Goto
      <3>2. pc'[r] = "seed" /\ todo'[r] = SeedFiles  BY <1>0, <3>1
      <3>3. Head(SeedFiles) = "team"  BY DEF SeedFiles
      <3> QED  BY <1>c, <2>1, <2>2, <2>3, <3>1, <3>2, <3>3 DEF RosterInv, Elsewhere
    <2>4. CASE team # Unseeded
      <3>1. /\ profile' = [profile EXCEPT ![r] = team] /\ pc' = [pc EXCEPT ![r] = "index"]
            /\ UNCHANGED todo
        BY <1>2, <2>4 DEF Open, Goto, Effective
      <3>2. /\ pc'[r] = "index" /\ profile'[r] = team
            /\ \A o \in Runs \ {r} : profile'[o] = profile[o]
        BY <1>0, <3>1
      <3> QED  BY <1>c, <2>0, <2>1, <2>2, <2>4, <3>1, <3>2 DEF RosterInv, Elsewhere
    <2> QED  BY <2>3, <2>4
  <1>3. ASSUME NEW r \in Runs, Seed(r) PROVE RosterInv'
    <2>1. Elsewhere(r)  BY <1>3, SeedType
    <2>2. /\ pc[r] = "seed" /\ todo[r] \in SeedTails
          /\ team' = IF Head(todo[r]) = "team" THEN Asked[r] ELSE team
          /\ state' = IF Head(todo[r]) = "state" THEN [profile |-> Asked[r], turn |-> 0] ELSE state
          /\ todo'[r] = Tail(todo[r])
          /\ pc' = [pc EXCEPT ![r] = IF Len(todo[r]) = 1 THEN "index" ELSE "seed"]
          /\ UNCHANGED <<profile, context, seeders, draft>>
      BY <1>3, SeedFacts DEF opened
    <2>3. pc'[r] = IF Len(todo[r]) = 1 THEN "index" ELSE "seed"  BY <1>0, <2>2
    <2>4. r \in seeders /\ profile[r] = Asked[r]  BY <2>2 DEF SeederInv
    <2>5. \A o \in Runs \ {r} : pc'[o] # "seed"
      BY <1>b, <2>1, <2>4 DEF SeederInv, AtMostOne, Elsewhere
    <2>6. /\ Len(todo[r]) = 1 <=> Head(todo[r]) = "notifications"
          /\ Head(todo[r]) = "team" => Head(Tail(todo[r])) = "routing"
          /\ Head(todo[r]) = "routing" => Head(Tail(todo[r])) = "state"
          /\ Head(todo[r]) = "state" => Head(Tail(todo[r])) = "decisions"
          /\ Head(todo[r]) = "decisions" => Head(Tail(todo[r])) = "notifications"
          /\ Head(todo[r]) \in {"team", "routing", "state", "decisions", "notifications"}
      BY <2>2, SeedTailFacts
    <2>7. team' = Asked[r] /\ Asked[r] # Unseeded /\ (team = Unseeded \/ team = Asked[r])
      BY <1>a, <1>c, <2>2
    <2>8. Head(todo[r]) = "team" => team = Unseeded  BY <1>c, <2>2
    <2>9. \A o \in Runs : pc[o] = "index" => team = Asked[r]  BY <1>c, <2>7
    <2>10. state'.profile \in {Unseeded, team'}  BY <1>c, <2>2, <2>7
    <2>11. ASSUME NEW o \in Runs
           PROVE  /\ draft'[o].profile \in {Unseeded, team'}
                  /\ context'[o] \in {Unseeded, team'}
                  /\ context'[o] # Unseeded => profile'[o] = team'
      BY <1>c, <2>2, <2>7
    <2>12. ASSUME NEW o \in Runs
           PROVE  /\ pc'[o] = "index" => team' # Unseeded /\ profile'[o] = team'
                  /\ pc'[o] = "seed" =>
                        team' = IF Head(todo'[o]) = "team" THEN Unseeded ELSE Asked[o]
      <3>1. CASE o = r
        <4>1. Head(todo[r]) # "notifications" => Head(Tail(todo[r])) # "team"  BY <2>6
        <4>2. pc'[r] = "index" => team' # Unseeded /\ profile'[r] = team'
          BY <2>2, <2>4, <2>7
        <4>3. pc'[r] = "seed" => Head(todo'[r]) # "team"
          <5>1. pc'[r] = "seed" => Len(todo[r]) # 1  BY <2>3
          <5> QED  BY <2>2, <2>6, <4>1, <5>1
        <4> QED  BY <2>7, <3>1, <4>2, <4>3
      <3>2. CASE o # r
        <4>1. pc'[o] = pc[o]  BY <2>1, <3>2 DEF Elsewhere
        <4> QED  BY <1>c, <2>2, <2>5, <2>7, <2>9, <3>2, <4>1
      <3> QED  BY <3>1, <3>2
    <2> QED  BY <2>10, <2>11, <2>12 DEF RosterInv
  <1>4. ASSUME NEW r \in Runs, Index(r) PROVE RosterInv'
    <2>1. Elsewhere(r)  BY <1>4, IndexType
    <2>2. /\ pc[r] = "index" /\ context' = [context EXCEPT ![r] = state.profile]
          /\ pc' = [pc EXCEPT ![r] = FirstStage(r)]
          /\ UNCHANGED <<team, state, profile, draft>>
      BY <1>4 DEF Index, Goto, tree, scratch
    <2>3. FirstStage(r) \notin {"index", "seed"}  BY DEF FirstStage
    <2>4. /\ pc'[r] = FirstStage(r) /\ context'[r] = state.profile
          /\ \A o \in Runs \ {r} : context'[o] = context[o]
      BY <1>0, <2>2
    <2> QED  BY <1>c, <2>1, <2>2, <2>3, <2>4 DEF RosterInv, Elsewhere
  <1>5. ASSUME NEW r \in Runs, OpeningFails(r) PROVE RosterInv'
    <2>1. Elsewhere(r)  BY <1>5, OpeningFailsType
    <2>2. /\ pc[r] \in Opening /\ pc' = [pc EXCEPT ![r] = FirstStage(r)]
          /\ profile' = [profile EXCEPT ![r] = Asked[r]]
          /\ UNCHANGED <<team, state, draft, context>>
      BY <1>5, OpeningFailsFacts DEF tree
    <2>3. FirstStage(r) \notin {"index", "seed"} /\ context[r] = Unseeded
      BY <2>2 DEF FirstStage, SeederInv
    <2>4. /\ pc'[r] = FirstStage(r) /\ \A o \in Runs \ {r} : profile'[o] = profile[o]
      BY <1>0, <2>2
    <2> QED  BY <1>c, <2>1, <2>2, <2>3, <2>4 DEF RosterInv, Elsewhere
  <1>6. ASSUME NEW r \in Runs, ReadTurn(r) \/ MergeState(r) \/ PutState(r) PROVE RosterInv'
    <2>1. /\ UNCHANGED <<home, team, profile, context, seeders>>
          /\ \A o \in Runs : pc'[o] \in Opening => pc'[o] = pc[o] /\ todo'[o] = todo[o]
          /\ \A o \in Runs \ {r} : draft'[o] = draft[o]
      BY <1>6, CloserFacts
    <2>2. state'.profile \in {Unseeded, team} /\ draft'[r].profile \in {Unseeded, team}
      <3>1. CASE ReadTurn(r)
        <4>1. draft'[r] = state /\ state' = state  BY <3>1, CloserFacts
        <4> QED  BY <1>c, <4>1
      <3>2. CASE MergeState(r)
        <4>1. draft'[r] = Patched(r) /\ state' = state  BY <3>2, CloserFacts
        <4>2. Patched(r).profile = state.profile  BY DEF Patched
        <4> QED  BY <1>c, <4>1, <4>2
      <3>3. CASE PutState(r)
        <4>1. state' = draft[r] /\ draft' = draft  BY <3>3, CloserFacts
        <4> QED  BY <1>c, <4>1
      <3> QED  BY <1>6, <3>1, <3>2, <3>3
    <2>3. \A o \in Runs : draft'[o].profile \in {Unseeded, team}  BY <1>c, <2>1, <2>2
    <2>4. \A o \in Runs : pc'[o] \in {"index", "seed"} => pc'[o] = pc[o] /\ todo'[o] = todo[o]
      BY <2>1 DEF Opening
    <2> QED  BY <1>c, <2>1, <2>2, <2>3, <2>4 DEF RosterInv
  <1>7. RosterInv' \/ Quiet  BY <1>2, <1>3, <1>4, <1>5, <1>6, QuietSteps
  <1> QED  BY <1>1, <1>7 DEF RosterInv, AtMostOne

LEMMA InitRoster ==
    ASSUME Init
    PROVE  SeederInv /\ RosterInv
  <1>1. /\ pc = [r \in Runs |-> "open"] /\ profile = Asked
        /\ context = [r \in Runs |-> Unseeded] /\ draft = [r \in Runs |-> NoState]
    BY DEF Init
  <1>2. state.profile \in {Unseeded, team}
    <2>1. CASE team = Unseeded /\ state = NoState  BY <2>1 DEF NoState
    <2>2. CASE state = [profile |-> team, turn |-> 0]  BY <2>2
    <2> QED  BY <2>1, <2>2 DEF Init
  <1>3. NoState.profile = Unseeded  BY DEF NoState
  <1> QED  BY <1>1, <1>2, <1>3 DEF SeederInv, RosterInv, Opening

\* A project has one roster: as long as one run seeded it, every run that read
\* its history goes on under the profile of team.md, whichever it asked for.
THEOREM OneRosterPerProject == Spec => []OneRoster
  <1> DEFINE Inv == TypeInv /\ SeederInv /\ RosterInv
  <1>1. Init => Inv  BY InitType, InitRoster
  <1>2. Inv /\ [Next]_vars => Inv'  BY NextType, SeederNext, RosterNext
  <1>3. Inv => OneRoster
    <2> SUFFICES ASSUME Inv, Cardinality(seeders) < 2, NEW r \in Runs, context[r] # Unseeded
                 PROVE  profile[r] = team /\ context[r] = team
      BY DEF OneRoster
    <2>0. IsFiniteSet(seeders)  BY ShapeFacts, FiniteAssumption, FS_Subset DEF TypeInv
    <2>1. AtMostOne(seeders)  BY <2>0, FewerThanTwo
    <2> QED  BY <2>1 DEF RosterInv
  <1> QED  BY <1>1, <1>2, <1>3, PTL DEF Spec
-----------------------------------------------------------------------------
(* The turn. *)

\* Updates that met are never forgotten.
LEMMA OverlapsGrow ==
    ASSUME TypeInv, [Next]_vars
    PROVE  overlapped \subseteq overlapped'
  <1>1. CASE Quiet  BY <1>1 DEF Quiet
  <1>2. ASSUME NEW r \in Runs, Open(r) \/ Index(r) \/ OpeningFails(r)
        PROVE  overlapped \subseteq overlapped'
    BY <1>2, OpeningFailsFacts DEF Open, Index, ghosts
  <1>3. ASSUME NEW r \in Runs, Seed(r) PROVE overlapped \subseteq overlapped'
    BY <1>3, SeedFacts
  <1>4. ASSUME NEW r \in Runs, ReadTurn(r) \/ MergeState(r) \/ PutState(r)
        PROVE  overlapped \subseteq overlapped'
    BY <1>4 DEF ReadTurn, MergeState, PutState, ghosts
  <1> QED  BY <1>1, <1>2, <1>3, <1>4, QuietSteps

LEMMA CountOneMore ==
    ASSUME NEW r \in Runs, r \notin closed, closed \subseteq Runs
    PROVE  Cardinality(closed \cup {r}) = Cardinality(closed) + 1
  <1>1. IsFiniteSet(closed)  BY FiniteAssumption, FS_Subset
  <1> QED  BY <1>1, FS_AddElement

\* The parts of the turn's invariant.
EndedInv == \A r \in Runs : r \in closed => pc[r] \in Ended
OneCloser == overlapped = {} => AtMostOne(Closers)
CountInv ==
    /\ state.profile = Unseeded => state.turn = 0 /\ closed = {}
    /\ state.turn = Cardinality(closed)
    /\ \A r \in Runs :
          /\ pc[r] = "update" => draft[r].turn = state.turn
          /\ pc[r] = "put state" => /\ draft[r].turn = state.turn + 1
                                    /\ draft[r].profile = state.profile
                                    /\ state.profile # Unseeded
          /\ pc[r] = "seed" /\ Head(todo[r]) \in {"team", "routing", "state"} =>
                state.profile = Unseeded

LEMMA TurnParts ==
    TurnInv <=> EndedInv /\ OneCloser /\ (overlapped = {} /\ AtMostOne(seeders) => CountInv)
  BY DEF TurnInv, EndedInv, OneCloser, CountInv, Ended

LEMMA EndedNext ==
    ASSUME TypeInv, EndedInv, [Next]_vars
    PROVE  EndedInv'
  <1>1. CASE Quiet  BY <1>1 DEF Quiet, EndedInv
  <1>2. ASSUME NEW r \in Runs, Open(r) \/ Seed(r) \/ Index(r) \/ OpeningFails(r)
        PROVE  EndedInv'
    <2>1. Elsewhere(r)  BY <1>2, OpenType, SeedType, IndexType, OpeningFailsType
    <2>2. pc[r] \in Opening /\ closed' = closed
      BY <1>2, SeedFacts, OpeningFailsFacts DEF Open, Index, Opening, ghosts
    <2>3. r \notin closed  BY <2>2 DEF EndedInv, Opening, Ended
    <2> QED  BY <2>1, <2>2, <2>3 DEF EndedInv, Elsewhere
  <1>3. ASSUME NEW r \in Runs, ReadTurn(r) \/ MergeState(r) PROVE EndedInv'
    <2>1. Elsewhere(r)  BY <1>3, CloserFacts
    <2>2. pc[r] \in {"close", "update"} /\ closed' = closed
      BY <1>3 DEF ReadTurn, MergeState, ghosts
    <2>3. r \notin closed  BY <2>2 DEF EndedInv, Ended
    <2> QED  BY <2>1, <2>2, <2>3 DEF EndedInv, Elsewhere
  <1>4. ASSUME NEW r \in Runs, PutState(r) PROVE EndedInv'
    <2>1. Elsewhere(r) /\ pc'[r] = "list"  BY <1>4, CloserFacts
    <2>2. closed' = closed \cup {r}  BY <1>4 DEF PutState
    <2> QED  BY <2>1, <2>2 DEF EndedInv, Elsewhere, Ended
  <1> QED  BY <1>1, <1>2, <1>3, <1>4, QuietSteps

LEMMA OneCloserNext ==
    ASSUME TypeInv, OneCloser, [Next]_vars
    PROVE  OneCloser'
  <1> SUFFICES ASSUME overlapped' = {}, NEW a \in Runs, NEW b \in Runs,
                      pc'[a] \in {"update", "put state"}, pc'[b] \in {"update", "put state"}
               PROVE  a = b
    BY DEF OneCloser, AtMostOne, Closers
  <1>1. overlapped = {}  BY OverlapsGrow
  <1>2. \A o, p \in Runs : pc[o] \in {"update", "put state"} /\ pc[p] \in {"update", "put state"}
                              => o = p
    BY <1>1 DEF OneCloser, AtMostOne, Closers
  <1>3. CASE Quiet  BY <1>2, <1>3 DEF Quiet
  <1>4. ASSUME NEW r \in Runs, Open(r) \/ Seed(r) \/ Index(r) \/ OpeningFails(r)
        PROVE  a = b
    <2>1. Elsewhere(r)  BY <1>4, OpenType, SeedType, IndexType, OpeningFailsType
    <2>2. pc'[r] \notin {"update", "put state"}
      <3>0. pc \in [Runs -> PC]  BY ShapeFacts DEF TypeInv
      <3>1. CASE Open(r)
        <4>1. \E w \in {"seed", "index"} : pc' = [pc EXCEPT ![r] = w]
          BY <3>1 DEF Open, Goto
        <4> QED  BY <3>0, <4>1
      <3>2. CASE Seed(r)
        <4>1. pc' = [pc EXCEPT ![r] = IF Len(todo[r]) = 1 THEN "index" ELSE "seed"]
          BY <3>2, SeedFacts
        <4> QED  BY <3>0, <4>1
      <3>3. CASE Index(r) \/ OpeningFails(r)
        <4>1. pc' = [pc EXCEPT ![r] = FirstStage(r)]
          BY <3>3, OpeningFailsFacts DEF Index, Goto
        <4> QED  BY <3>0, <4>1 DEF FirstStage
      <3> QED  BY <1>4, <3>1, <3>2, <3>3
    <2> QED  BY <1>2, <2>1, <2>2 DEF Elsewhere
  <1>5. ASSUME NEW r \in Runs, ReadTurn(r) PROVE a = b
    <2>1. Elsewhere(r)  BY <1>5, CloserFacts
    <2>2. Closers = {}  BY <1>5 DEF ReadTurn
    <2>3. \A o \in Runs : pc[o] \notin {"update", "put state"}  BY <2>2 DEF Closers
    <2> QED  BY <2>1, <2>3 DEF Elsewhere
  <1>6. ASSUME NEW r \in Runs, MergeState(r) \/ PutState(r) PROVE a = b
    <2>1. Elsewhere(r) /\ pc[r] \in {"update", "put state"}  BY <1>6, CloserFacts
    <2> QED  BY <1>2, <2>1 DEF Elsewhere
  <1> QED  BY <1>3, <1>4, <1>5, <1>6, QuietSteps

LEMMA CountNext ==
    ASSUME TypeInv, SeederInv, RosterInv, EndedInv, OneCloser, [Next]_vars,
           overlapped = {} /\ AtMostOne(seeders) => CountInv,
           overlapped' = {}, AtMostOne(seeders')
    PROVE  CountInv'
  <1>0. /\ pc \in [Runs -> PC] /\ todo \in [Runs -> Seq(Files)]
        /\ draft \in [Runs -> StateType] /\ state \in StateType /\ closed \subseteq Runs
        /\ team \in Profiles \cup {Unseeded}
    BY ShapeFacts DEF TypeInv
  <1>a. Asked \in [Runs -> Profiles] /\ Unseeded \notin Profiles  BY RolesAssumption
  <1>b. AtMostOne(seeders) /\ overlapped = {}
    BY SeedersGrow, OverlapsGrow, AtMostOneSubset
  <1>c. CountInv /\ state.profile \in {Unseeded, team}  BY <1>b DEF RosterInv
  <1>d. \A o, p \in Runs : pc[o] \in {"update", "put state"} /\ pc[p] \in {"update", "put state"}
                              => o = p
    BY <1>b DEF OneCloser, AtMostOne, Closers
  <1>1. CASE Quiet  BY <1>1, <1>c DEF Quiet, CountInv, Opening
  <1>2. ASSUME NEW r \in Runs, Open(r) PROVE CountInv'
    <2>1. Elsewhere(r)  BY <1>2, OpenType
    <2>2. pc[r] = "open" /\ UNCHANGED <<state, draft, closed>>  BY <1>2 DEF Open, tree
    <2>3. CASE team = Unseeded
      <3>1. pc' = [pc EXCEPT ![r] = "seed"]  BY <1>2, <2>3 DEF Open, Goto
      <3>2. pc'[r] = "seed" /\ state.profile = Unseeded  BY <1>0, <1>c, <2>3, <3>1
      <3> QED  BY <1>c, <2>1, <2>2, <3>2 DEF CountInv, Elsewhere
    <2>4. CASE team # Unseeded
      <3>1. pc' = [pc EXCEPT ![r] = "index"]  BY <1>2, <2>4 DEF Open, Goto
      <3>2. pc'[r] = "index"  BY <1>0, <3>1
      <3> QED  BY <1>c, <2>1, <2>2, <3>2 DEF CountInv, Elsewhere
    <2> QED  BY <2>3, <2>4
  <1>3. ASSUME NEW r \in Runs, Seed(r) PROVE CountInv'
    <2>1. Elsewhere(r)  BY <1>3, SeedType
    <2>2. /\ pc[r] = "seed" /\ todo[r] \in SeedTails
          /\ state' = IF Head(todo[r]) = "state" THEN [profile |-> Asked[r], turn |-> 0] ELSE state
          /\ todo'[r] = Tail(todo[r])
          /\ pc' = [pc EXCEPT ![r] = IF Len(todo[r]) = 1 THEN "index" ELSE "seed"]
          /\ UNCHANGED <<draft, closed>>
      BY <1>3, SeedFacts
    <2>3. pc'[r] = IF Len(todo[r]) = 1 THEN "index" ELSE "seed"  BY <1>0, <2>2
    <2>4. \A o \in Runs \ {r} : pc'[o] # "seed"
      BY <1>b, <2>1, <2>2 DEF SeederInv, AtMostOne, Elsewhere
    <2>5. /\ Head(todo[r]) = "team" => Head(Tail(todo[r])) = "routing"
          /\ Head(todo[r]) = "routing" => Head(Tail(todo[r])) = "state"
          /\ Head(todo[r]) = "state" => Head(Tail(todo[r])) = "decisions"
          /\ Head(todo[r]) = "decisions" => Head(Tail(todo[r])) = "notifications"
          /\ Len(todo[r]) = 1 <=> Head(todo[r]) = "notifications"
          /\ Head(todo[r]) \in {"team", "routing", "state", "decisions", "notifications"}
      BY <2>2, SeedTailFacts
    <2>6. CASE Head(todo[r]) = "state"
      <3>1. state.profile = Unseeded  BY <1>c, <2>2, <2>6 DEF CountInv
      <3>2. state.turn = 0 /\ closed = {} /\ Cardinality(closed) = 0
        BY <1>c, <3>1 DEF CountInv
      <3>3. state'.profile = Asked[r] /\ state'.turn = 0 /\ Asked[r] # Unseeded
        BY <1>a, <2>2, <2>6
      <3>4. ASSUME NEW o \in Runs
            PROVE  /\ pc'[o] = "update" => draft'[o].turn = state'.turn
                   /\ pc'[o] # "put state"
                   /\ ~(pc'[o] = "seed" /\ Head(todo'[o]) \in {"team", "routing", "state"})
        <4>1. CASE o = r  BY <2>2, <2>3, <2>5, <2>6, <4>1
        <4>2. CASE o # r
          <5>1. pc'[o] = pc[o] /\ pc'[o] # "seed"  BY <2>1, <2>4, <4>2 DEF Elsewhere
          <5>2. /\ pc[o] = "update" => draft[o].turn = state.turn
                /\ pc[o] # "put state"
            BY <1>c, <3>1 DEF CountInv
          <5> QED  BY <2>2, <3>2, <3>3, <5>1, <5>2
        <4> QED  BY <4>1, <4>2
      <3> QED  BY <2>2, <3>2, <3>3, <3>4 DEF CountInv
    <2>7. CASE Head(todo[r]) # "state"
      <3>1. state' = state  BY <2>2, <2>7
      <3>2. ASSUME NEW o \in Runs
            PROVE  /\ pc'[o] \in {"update", "put state"} => pc'[o] = pc[o]
                   /\ pc'[o] = "seed" /\ Head(todo'[o]) \in {"team", "routing", "state"} =>
                         state'.profile = Unseeded
        <4>1. CASE o = r
          <5>1. pc'[r] = "seed" /\ Head(todo'[r]) \in {"team", "routing", "state"} =>
                    Head(todo[r]) \in {"team", "routing", "state"}
            <6>1. CASE Head(todo[r]) = "decisions"
              <7>1. Head(todo'[r]) = "notifications"  BY <2>2, <2>5, <6>1
              <7> QED  BY <7>1
            <6>2. CASE Head(todo[r]) = "notifications"  BY <2>3, <2>5, <6>2
            <6> QED  BY <2>5, <6>1, <6>2
          <5>2. Head(todo[r]) \in {"team", "routing", "state"} => state.profile = Unseeded
            BY <1>c, <2>2 DEF CountInv
          <5> QED  BY <2>3, <3>1, <4>1, <5>1, <5>2
        <4>2. CASE o # r  BY <2>1, <2>4, <4>2 DEF Elsewhere
        <4> QED  BY <4>1, <4>2
      <3> QED  BY <1>c, <2>2, <3>1, <3>2 DEF CountInv
    <2> QED  BY <2>6, <2>7
  <1>4. ASSUME NEW r \in Runs, Index(r) \/ OpeningFails(r) PROVE CountInv'
    <2>1. Elsewhere(r)  BY <1>4, IndexType, OpeningFailsType
    <2>2. pc' = [pc EXCEPT ![r] = FirstStage(r)] /\ UNCHANGED <<state, draft, closed>>
      BY <1>4, OpeningFailsFacts DEF Index, Goto, tree, scratch, ghosts
    <2>3. pc'[r] \in {"stage", "close"}  BY <1>0, <2>2 DEF FirstStage
    <2> QED  BY <1>c, <2>1, <2>2, <2>3 DEF CountInv, Elsewhere
  <1>5. ASSUME NEW r \in Runs, ReadTurn(r) PROVE CountInv'
    <2>1. /\ Elsewhere(r) /\ pc'[r] = "update" /\ draft'[r] = state /\ state' = state
          /\ \A o \in Runs \ {r} : draft'[o] = draft[o]
      BY <1>5, CloserFacts
    <2>2. closed' = closed  BY <1>5 DEF ReadTurn
    <2> QED  BY <1>c, <2>1, <2>2 DEF CountInv, Elsewhere
  <1>6. ASSUME NEW r \in Runs, MergeState(r) PROVE CountInv'
    <2>1. /\ Elsewhere(r) /\ pc[r] = "update" /\ draft'[r] = Patched(r) /\ state' = state
          /\ pc'[r] = IF state.profile = Unseeded THEN "list" ELSE "put state"
          /\ \A o \in Runs \ {r} : draft'[o] = draft[o]
      BY <1>6, CloserFacts
    <2>2. closed' = closed  BY <1>6 DEF MergeState, ghosts
    <2>3. draft[r].turn = state.turn  BY <1>c, <2>1 DEF CountInv
    <2>4. draft'[r].turn = state.turn + 1 /\ draft'[r].profile = state.profile
      <3>1. Patched(r).turn = draft[r].turn + 1 /\ Patched(r).profile = state.profile
        BY DEF Patched
      <3> QED  BY <2>1, <2>3, <3>1
    <2> QED  BY <1>c, <2>1, <2>2, <2>4 DEF CountInv, Elsewhere
  <1>7. ASSUME NEW r \in Runs, PutState(r) PROVE CountInv'
    <2>1. /\ Elsewhere(r) /\ pc[r] = "put state" /\ pc'[r] = "list" /\ state' = draft[r]
          /\ draft' = draft
      BY <1>7, CloserFacts
    <2>2. closed' = closed \cup {r}  BY <1>7 DEF PutState
    <2>3. /\ draft[r].turn = state.turn + 1 /\ draft[r].profile = state.profile
          /\ state.profile # Unseeded
      BY <1>c, <2>1 DEF CountInv
    <2>4. r \notin closed  BY <2>1 DEF EndedInv, Ended
    <2>5. Cardinality(closed') = Cardinality(closed) + 1  BY <1>0, <2>2, <2>4, CountOneMore
    <2>6. state.turn = Cardinality(closed)  BY <1>c DEF CountInv
    <2>7. state'.turn = Cardinality(closed') /\ state'.profile # Unseeded
      BY <2>1, <2>3, <2>5, <2>6
    <2>8. \A o \in Runs : pc'[o] \notin {"update", "put state"}
      BY <1>d, <2>1 DEF Elsewhere
    <2>9. \A o \in Runs : ~(pc'[o] = "seed" /\ Head(todo'[o]) \in {"team", "routing", "state"})
      BY <1>c, <2>1, <2>3 DEF CountInv, Elsewhere
    <2> QED  BY <2>7, <2>8, <2>9 DEF CountInv
  <1> QED  BY <1>1, <1>2, <1>3, <1>4, <1>5, <1>6, <1>7, QuietSteps

LEMMA InitTurn ==
    ASSUME Init
    PROVE  TurnInv
  <1>1. pc = [r \in Runs |-> "open"] /\ closed = {}  BY DEF Init
  <1>2. state.turn = 0
    <2>1. CASE state = NoState  BY <2>1 DEF NoState
    <2>2. CASE state = [profile |-> team, turn |-> 0]  BY <2>2
    <2> QED  BY <2>1, <2>2 DEF Init
  <1>3. Cardinality(closed) = 0  BY <1>1, FS_EmptySet
  <1> QED  BY <1>1, <1>2, <1>3 DEF TurnInv, AtMostOne, Closers

LEMMA TurnNext ==
    ASSUME TypeInv, SeederInv, RosterInv, TurnInv, [Next]_vars
    PROVE  TurnInv'
  <1>1. EndedInv /\ OneCloser /\ (overlapped = {} /\ AtMostOne(seeders) => CountInv)
    BY TurnParts
  <1>2. EndedInv' /\ OneCloser'  BY <1>1, EndedNext, OneCloserNext
  <1>3. overlapped' = {} /\ AtMostOne(seeders') => CountInv'  BY <1>1, CountNext
  <1>4. TurnInv' <=> EndedInv' /\ OneCloser'
                     /\ (overlapped' = {} /\ AtMostOne(seeders') => CountInv')
    BY DEF TurnInv, EndedInv, OneCloser, CountInv, Ended, AtMostOne, Closers
  <1> QED  BY <1>2, <1>3, <1>4

\* The turn counts the runs that closed, as long as no two of them updated
\* state.json at a time and one run seeded it.
THEOREM TurnsAreCounted == Spec => []TurnCountsClosedRuns
  <1> DEFINE Inv == TypeInv /\ SeederInv /\ RosterInv /\ TurnInv
  <1>1. Init => Inv  BY InitType, InitRoster, InitTurn
  <1>2. Inv /\ [Next]_vars => Inv'  BY NextType, SeederNext, RosterNext, TurnNext
  <1>3. Inv => TurnCountsClosedRuns
    <2> SUFFICES ASSUME Inv, overlapped = {}, Cardinality(seeders) < 2
                 PROVE  state.turn = Cardinality(closed)
      BY DEF TurnCountsClosedRuns
    <2>0. IsFiniteSet(seeders)  BY ShapeFacts, FiniteAssumption, FS_Subset DEF TypeInv
    <2>1. AtMostOne(seeders)  BY <2>0, FewerThanTwo
    <2> QED  BY <2>1 DEF TurnInv
  <1> QED  BY <1>1, <1>2, <1>3, PTL DEF Spec
-----------------------------------------------------------------------------
(* The append queues. *)

Queued(q, o, p) == \E i \in 1..Len(q[home[o]][p]) : q[home[o]][p][i] = o
AtHead(q, o, p) == Head(q[home[o]][p]) = o

LEMMA QueueParts ==
    QueueInv <=> \A r \in Runs : /\ pc[r] \in Appending => Queued(queue, r, PathOf(r))
                                 /\ Reading(r) => AtHead(queue, r, PathOf(r))
  BY DEF QueueInv, Queued, AtHead

LEMMA PathThere ==
    ASSUME NEW r \in Runs, pc'[r] = pc[r], stage'[r] = stage[r]
    PROVE  PathOf(r)' = PathOf(r)
  <1>1. Role(r)' = Role(r)  BY DEF Role
  <1> QED  BY <1>1 DEF PathOf

\* A call goes to the end of its queue.
LEMMA CallKeeps ==
    ASSUME TypeInv, NEW r \in Runs, NEW p \in LogPaths, NEW q \in QueueType,
           NEW o \in Runs, NEW y \in LogPaths, Queued(q, o, y)
    PROVE  /\ Queued(CallAppend(r, p, q), o, y)
           /\ AtHead(q, o, y) => AtHead(CallAppend(r, p, q), o, y)
  <1>1. home[o] \in Processes  BY ShapeFacts DEF TypeInv
  <1> DEFINE s == q[home[o]][y]
             t == CallAppend(r, p, q)[home[o]][y]
  <1>2. q[home[o]] \in [LogPaths -> Seq(Runs)]  BY <1>1 DEF QueueType
  <1>3. s \in Seq(Runs)  BY <1>2
  <1>4. t = s \/ t = Append(s, r)
    <2>1. CASE home[o] = home[r] /\ y = p
      <3>1. CallAppend(r, p, q)[home[r]][p] = Append(q[home[r]][p], r)  BY CallType
      <3> QED  BY <2>1, <3>1
    <2>2. CASE home[o] # home[r] \/ y # p
      <3>1. CallAppend(r, p, q)[home[o]][y] = q[home[o]][y]  BY <1>1, <2>2, CallType
      <3> QED  BY <3>1
    <2> QED  BY <2>1, <2>2
  <1>5. PICK i \in 1..Len(s) : s[i] = o  BY DEF Queued
  <1> HIDE DEF s, t
  <1>6. CASE t = s  BY <1>5, <1>6 DEF Queued, AtHead, s, t
  <1>7. CASE t = Append(s, r)
    <2>1. Len(s) \in Nat /\ Len(t) = Len(s) + 1 /\ \A j \in 1..Len(s) : t[j] = s[j]
      BY <1>3, <1>7
    <2>2. i \in 1..Len(t) /\ t[i] = o  BY <1>5, <2>1
    <2>3. 1 \in 1..Len(s) /\ Head(t) = t[1] /\ Head(s) = s[1]  BY <1>3, <1>5, <1>7
    <2>4. Head(t) = Head(s)  BY <2>1, <2>3
    <2> QED  BY <2>2, <2>4 DEF Queued, AtHead, s, t
  <1> QED  BY <1>4, <1>6, <1>7

LEMMA CallAdds ==
    ASSUME TypeInv, NEW r \in Runs, NEW p \in LogPaths, NEW q \in QueueType
    PROVE  Queued(CallAppend(r, p, q), r, p)
  <1>1. home[r] \in Processes  BY ShapeFacts DEF TypeInv
  <1> DEFINE s == q[home[r]][p]
             t == CallAppend(r, p, q)[home[r]][p]
  <1>2. q[home[r]] \in [LogPaths -> Seq(Runs)]  BY <1>1 DEF QueueType
  <1>3. s \in Seq(Runs)  BY <1>2
  <1>4. t = Append(s, r)  BY CallType
  <1> HIDE DEF s, t
  <1>5. Len(s) + 1 \in 1..Len(t) /\ t[Len(s) + 1] = r  BY <1>3, <1>4
  <1> QED  BY <1>5 DEF Queued, t

\* An append that settles leaves the others where they are, unless it is not
\* the first of its queue.
LEMMA LeaveKeeps ==
    ASSUME TypeInv, NEW r \in Runs, pc[r] \in Appending => AtHead(queue, r, PathOf(r)),
           NEW o \in Runs, o # r, NEW y \in LogPaths, Queued(queue, o, y)
    PROVE  /\ Queued(LeaveQueue(r), o, y)
           /\ AtHead(queue, o, y) => AtHead(LeaveQueue(r), o, y)
  <1>1. home[o] \in Processes /\ queue \in QueueType
    BY ShapeFacts DEF TypeInv, QueueType
  <1> DEFINE s == queue[home[o]][y]
             t == LeaveQueue(r)[home[o]][y]
  <1>2. queue[home[o]] \in [LogPaths -> Seq(Runs)]  BY <1>1 DEF QueueType
  <1>3. s \in Seq(Runs)  BY <1>2
  <1>4. CASE t = s  BY <1>4 DEF Queued, AtHead
  <1>5. CASE t # s
    <2>1. pc[r] \in Appending /\ home[o] = home[r] /\ y = PathOf(r)
      BY <1>1, <1>5, LeaveType
    <2>2. t = Kept(s, Runs \ {r})  BY <2>1, LeaveType
    <2>3. Head(s) = r  BY <2>1 DEF AtHead
    <2>4. ~AtHead(queue, o, y)  BY <2>3 DEF AtHead
    <2>5. PICK i \in 1..Len(s) : s[i] = o  BY DEF Queued
    <2> HIDE DEF s, t
    <2> DEFINE S == Runs \ {r}
    <2>6. s[i] \in S  BY <2>5
    <2> HIDE DEF S
    <2>7. \A k \in 1..Len(s) : s[k] \in S =>
              \E j \in 1..Len(Kept(s, S)) : Kept(s, S)[j] = s[k]
      BY <1>3, KeptFacts
    <2>8. PICK j \in 1..Len(Kept(s, S)) : Kept(s, S)[j] = o  BY <2>5, <2>6, <2>7
    <2>9. j \in 1..Len(t) /\ t[j] = o  BY <2>2, <2>8 DEF S
    <2> QED  BY <2>4, <2>9 DEF Queued, t
  <1> QED  BY <1>4, <1>5

\* A run that settles its append, or calls the next, leaves every queue right.
LEMMA QueueMove ==
    ASSUME TypeInv, QueueInv, NEW r \in Runs, Elsewhere(r), home' = home,
           pc[r] \in Appending => AtHead(queue, r, PathOf(r)), ~Reading(r)',
           \/ queue' = LeaveQueue(r) /\ pc'[r] \notin Appending
           \/ PathOf(r)' \in LogPaths /\ queue' = CallAppend(r, PathOf(r)', LeaveQueue(r))
    PROVE  QueueInv'
  <1>1. LeaveQueue(r) \in QueueType  BY LeaveType
  <1>2. ASSUME NEW o \in Runs, o # r
        PROVE  /\ pc'[o] \in Appending => Queued(queue', o, PathOf(o)')
               /\ Reading(o)' => AtHead(queue', o, PathOf(o)')
    <2>1. /\ pc'[o] = pc[o] /\ read'[o] = read[o] /\ PathOf(o)' = PathOf(o)
      BY <1>2, PathThere DEF Elsewhere
    <2>2. Reading(o)' <=> Reading(o)  BY <2>1 DEF Reading
    <2> SUFFICES ASSUME pc[o] \in Appending
                 PROVE  /\ Queued(queue', o, PathOf(o))
                        /\ Reading(o) => AtHead(queue', o, PathOf(o))
      BY <2>1, <2>2 DEF Reading
    <2>3. PathOf(o) \in LogPaths  BY PathFacts
    <2>4. Queued(queue, o, PathOf(o)) /\ (Reading(o) => AtHead(queue, o, PathOf(o)))
      BY QueueParts
    <2>5. /\ Queued(LeaveQueue(r), o, PathOf(o))
          /\ Reading(o) => AtHead(LeaveQueue(r), o, PathOf(o))
      BY <1>2, <2>3, <2>4, LeaveKeeps
    <2>6. CASE queue' = LeaveQueue(r)  BY <2>5, <2>6
    <2>7. CASE PathOf(r)' \in LogPaths /\ queue' = CallAppend(r, PathOf(r)', LeaveQueue(r))
      <3> DEFINE p == PathOf(r)'
      <3>1. p \in LogPaths /\ queue' = CallAppend(r, p, LeaveQueue(r))  BY <2>7
      <3> HIDE DEF p
      <3> QED  BY <1>1, <2>3, <2>5, <3>1, CallKeeps
    <2> QED  BY <2>6, <2>7
  <1>3. pc'[r] \in Appending => Queued(queue', r, PathOf(r)')
    <2> DEFINE p == PathOf(r)'
    <2>1. pc'[r] \in Appending => p \in LogPaths /\ queue' = CallAppend(r, p, LeaveQueue(r))
      OBVIOUS
    <2> HIDE DEF p
    <2>2. pc'[r] \in Appending => Queued(queue', r, p)  BY <1>1, <2>1, CallAdds
    <2> QED  BY <2>2 DEF p
  <1>4. ASSUME NEW o \in Runs
        PROVE  /\ pc'[o] \in Appending =>
                      \E i \in 1..Len(queue'[home'[o]][PathOf(o)']) :
                         queue'[home'[o]][PathOf(o)'][i] = o
               /\ Reading(o)' => Head(queue'[home'[o]][PathOf(o)']) = o
    <2>1. CASE o = r  BY <1>3, <2>1 DEF Queued
    <2>2. CASE o # r  BY <1>2, <2>2 DEF Queued, AtHead
    <2> QED  BY <2>1, <2>2
  <1> QED  BY <1>4 DEF QueueInv

\* Steps without an append leave the queues right.
LEMMA QueueStill ==
    ASSUME QueueInv, home' = home, queue' = queue,
           \A o \in Runs : pc'[o] \in Appending =>
              /\ pc'[o] = pc[o] /\ PathOf(o)' = PathOf(o)
              /\ Reading(o)' => Reading(o) \/ AtHead(queue, o, PathOf(o))
    PROVE  QueueInv'
  <1>1. ASSUME NEW o \in Runs
        PROVE  /\ pc'[o] \in Appending =>
                      \E i \in 1..Len(queue'[home'[o]][PathOf(o)']) :
                         queue'[home'[o]][PathOf(o)'][i] = o
               /\ Reading(o)' => Head(queue'[home'[o]][PathOf(o)']) = o
    <2> SUFFICES ASSUME pc'[o] \in Appending
                 PROVE  /\ Queued(queue, o, PathOf(o))
                        /\ Reading(o)' => AtHead(queue, o, PathOf(o))
      BY DEF Queued, AtHead, Reading
    <2>1. pc[o] \in Appending /\ (Reading(o)' => Reading(o) \/ AtHead(queue, o, PathOf(o)))
      OBVIOUS
    <2> QED  BY <2>1, QueueParts
  <1> QED  BY <1>1 DEF QueueInv

\* How a step that records leaves the queues: its run stays, or its append has
\* settled and the next one, if any, is called.
LEMMA QueueSteps ==
    ASSUME TypeInv, NEW r \in Runs, RecordStep(r), ~AppendGet(r)
    PROVE  /\ read'[r] = Unread
           /\ \/ pc' = pc /\ stage' = stage /\ queue' = queue
              \/ /\ pc[r] \in Appending => Reading(r) \/ FirstInQueue(r, PathOf(r))
                 /\ \/ pc'[r] \notin Appending /\ queue' = LeaveQueue(r)
                    \/ /\ pc'[r] = "decision"
                       /\ queue' = CallAppend(r, Decisions, LeaveQueue(r))
                    \/ /\ pc'[r] = "run history"
                       /\ queue' = CallAppend(r, RunHistory(r), LeaveQueue(r))
                    \/ /\ pc'[r] = "history" /\ Role(r) # "council" /\ Role(r) \in Roles
                       /\ Role(r)' = Role(r)
                       /\ queue' = CallAppend(r, AgentHistory(Role(r)), LeaveQueue(r))
  <1>0. pc \in [Runs -> PC] /\ read \in [Runs -> LogType]  BY ShapeFacts DEF TypeInv
  <1>a. "finish" \notin Appending /\ "stage" \notin Appending /\ "close" \notin Appending
    BY DEF Appending
  <1>1. ASSUME Swallow(r), pc[r] \in Recording,
               pc[r] \in Appending => Reading(r) \/ FirstInQueue(r, PathOf(r))
        PROVE  /\ read'[r] = Unread
               /\ \/ pc'[r] \notin Appending /\ queue' = LeaveQueue(r)
                  \/ pc'[r] = "decision" /\ queue' = CallAppend(r, Decisions, LeaveQueue(r))
    <2>1. read' = [read EXCEPT ![r] = Unread]  BY <1>1, SwallowFacts
    <2>2. PICK w \in {"decision", "stage", "close"} :
              /\ pc' = [pc EXCEPT ![r] = w]
              /\ queue' = IF w = "decision" THEN CallAppend(r, Decisions, LeaveQueue(r))
                          ELSE LeaveQueue(r)
      BY <1>1, SwallowFacts
    <2>3. pc'[r] = w /\ read'[r] = Unread  BY <1>0, <2>1, <2>2
    <2> QED  BY <1>a, <2>2, <2>3
  <1>2. CASE AppendPut(r)
    <2>1. pc[r] \in Appending /\ read[r] # Unread /\ read' = [read EXCEPT ![r] = Unread]
      BY <1>2, AppendPutFacts
    <2>2. PICK w \in {"run history", "finish", "decision", "stage", "close"} :
              /\ pc' = [pc EXCEPT ![r] = w]
              /\ queue' = IF w = "decision" THEN CallAppend(r, Decisions, LeaveQueue(r))
                          ELSE IF w = "run history"
                          THEN CallAppend(r, RunHistory(r), LeaveQueue(r)) ELSE LeaveQueue(r)
      BY <1>2, AppendPutFacts
    <2>3. pc'[r] = w /\ read'[r] = Unread  BY <1>0, <2>1, <2>2
    <2> QED  BY <1>a, <2>1, <2>2, <2>3 DEF Reading
  <1>3. CASE AppendConflict(r)
    <2>1. pc[r] \in Appending /\ pc[r] \in Recording /\ Reading(r)
      BY <1>3 DEF AppendConflict, Reading, Recording
    <2>2. CASE tries[r] + 1 < Attempts
      <3>1. read' = [read EXCEPT ![r] = Unread] /\ UNCHANGED <<queue, pc, stage>>
        BY <1>3, <2>2 DEF AppendConflict
      <3> QED  BY <1>0, <3>1
    <2>3. CASE ~(tries[r] + 1 < Attempts)
      <3>1. Swallow(r)  BY <1>3, <2>3 DEF AppendConflict
      <3> QED  BY <1>1, <2>1, <3>1
    <2> QED  BY <2>2, <2>3
  <1>4. CASE RecordingFails(r)
    <2>1. pc[r] \in Recording /\ Swallow(r) /\ (pc[r] \in Appending => FirstInQueue(r, PathOf(r)))
      BY <1>4, RecordingFailsFacts
    <2> QED  BY <1>1, <2>1
  <1>5. CASE CompleteStage(r)
    <2>1. /\ pc[r] = "stage" /\ stage' = stage /\ read' = read
          /\ IF Role(r) = "council"
             THEN pc' = [pc EXCEPT ![r] = "decision"] /\ queue' = CallAppend(r, Decisions, queue)
             ELSE /\ pc' = [pc EXCEPT ![r] = "history"]
                  /\ queue' = CallAppend(r, AgentHistory(Role(r)), queue)
      BY <1>5 DEF CompleteStage, Goto, append
    <2>2. /\ pc[r] \notin Appending /\ read[r] = Unread /\ Role(r) \in Roles
      <3>1. pc[r] \notin Appending \cup {"dead"} /\ pc[r] \in Recording
        BY <2>1 DEF Appending, Recording
      <3> QED  BY <3>1, AtStage DEF TypeInv, PlaceInv, PlaceAt
    <2>3. LeaveQueue(r) = queue  BY <2>2, LeaveType
    <2>4. Role(r)' = Role(r)  BY <2>1 DEF Role
    <2>5. CASE Role(r) = "council"  BY <1>0, <2>1, <2>2, <2>3, <2>5
    <2>6. CASE Role(r) # "council"  BY <1>0, <2>1, <2>2, <2>3, <2>4, <2>6
    <2> QED  BY <2>5, <2>6
  <1>6. CASE FinishPut(r) \/ NothingToFinish(r)
    <2>1. pc[r] = "finish" /\ read' = read
      BY <1>6 DEF FinishPut, NothingToFinish, append
    <2>2. pc[r] \notin Appending /\ read[r] = Unread /\ pc[r] \in Recording
      <3>1. pc[r] \notin Appending \cup {"dead"} /\ pc[r] \in Recording
        BY <2>1 DEF Appending, Recording
      <3> QED  BY <3>1 DEF TypeInv, PlaceInv, PlaceAt
    <2>3. LeaveQueue(r) = queue  BY <2>2, LeaveType
    <2>4. CASE UNCHANGED <<pc, stage, queue>>  BY <2>1, <2>2, <2>4
    <2>5. CASE AfterRecord(r, queue)
      <3>1. PICK w \in {"decision", "stage", "close"} :
              /\ pc' = [pc EXCEPT ![r] = w]
              /\ queue' = IF w = "decision" THEN CallAppend(r, Decisions, queue) ELSE queue
        BY <2>2, <2>5, AfterRecordFacts
      <3>2. pc'[r] = w  BY <1>0, <3>1
      <3> QED  BY <1>a, <2>1, <2>2, <2>3, <3>1, <3>2
    <2> QED  BY <1>6, <2>4, <2>5 DEF FinishPut, NothingToFinish
  <1> QED  BY <1>2, <1>3, <1>4, <1>5, <1>6 DEF RecordStep

LEMMA QueueRecords ==
    ASSUME TypeInv, QueueInv, NEW r \in Runs, RecordStep(r)
    PROVE  QueueInv'
  <1>0. PICK w : Records(r, w)  BY RecordSteps
  <1>1. Elsewhere(r) /\ home' = home  BY <1>0, RecordsElsewhere DEF Records
  <1>2. CASE AppendGet(r)
    <2>1. /\ pc[r] \in Appending /\ FirstInQueue(r, PathOf(r))
          /\ pc' = pc /\ stage' = stage /\ queue' = queue
      BY <1>2 DEF AppendGet
    <2>2. \A o \in Runs : PathOf(o)' = PathOf(o)  BY <2>1, PathThere
    <2>3. AtHead(queue, r, PathOf(r))  BY <2>1 DEF FirstInQueue, AtHead
    <2>4. \A o \in Runs \ {r} : Reading(o)' => Reading(o)
      BY <1>1, <2>1 DEF Reading, Elsewhere
    <2> QED  BY <1>1, <2>1, <2>2, <2>3, <2>4, QueueStill
  <1>3. CASE ~AppendGet(r)
    <2>1. read'[r] = Unread /\ ~Reading(r)'  BY <1>3, QueueSteps DEF Reading
    <2>2. CASE pc' = pc /\ stage' = stage /\ queue' = queue
      <3>1. \A o \in Runs : PathOf(o)' = PathOf(o)  BY <2>2, PathThere
      <3>2. \A o \in Runs : Reading(o)' => Reading(o)
        BY <1>1, <2>1, <2>2 DEF Reading, Elsewhere
      <3> QED  BY <1>1, <2>2, <3>1, <3>2, QueueStill
    <2>3. CASE ~(pc' = pc /\ stage' = stage /\ queue' = queue)
      <3>1. /\ pc[r] \in Appending => Reading(r) \/ FirstInQueue(r, PathOf(r))
            /\ \/ pc'[r] \notin Appending /\ queue' = LeaveQueue(r)
               \/ /\ pc'[r] = "decision"
                  /\ queue' = CallAppend(r, Decisions, LeaveQueue(r))
               \/ /\ pc'[r] = "run history"
                  /\ queue' = CallAppend(r, RunHistory(r), LeaveQueue(r))
               \/ /\ pc'[r] = "history" /\ Role(r) # "council" /\ Role(r) \in Roles
                  /\ Role(r)' = Role(r)
                  /\ queue' = CallAppend(r, AgentHistory(Role(r)), LeaveQueue(r))
        BY <1>3, <2>3, QueueSteps
      <3>2. pc[r] \in Appending => AtHead(queue, r, PathOf(r))
        BY <3>1, QueueParts DEF AtHead, FirstInQueue
      <3>3. /\ pc'[r] = "decision" => PathOf(r)' = Decisions
            /\ pc'[r] = "run history" => PathOf(r)' = RunHistory(r)
            /\ pc'[r] = "history" => PathOf(r)' = AgentHistory(Role(r)')
        BY DEF PathOf
      <3>4. \/ queue' = LeaveQueue(r) /\ pc'[r] \notin Appending
            \/ PathOf(r)' \in LogPaths /\ queue' = CallAppend(r, PathOf(r)', LeaveQueue(r))
        BY <3>1, <3>3, PathsAreLogs
      <3> QED  BY <1>1, <2>1, <3>2, <3>4, QueueMove
    <2> QED  BY <2>2, <2>3
  <1> QED  BY <1>2, <1>3
-----------------------------------------------------------------------------
(* The steps that record nothing, as far as the logs go. *)

OtherStep(r) ==
    \/ Open(r) \/ Seed(r) \/ Index(r) \/ ReadTurn(r) \/ MergeState(r) \/ PutState(r)
    \/ ListHistory(r) \/ ReadHistory(r) \/ PutConsumption(r)
    \/ OpeningFails(r) \/ ClosingFails(r)

LEMMA StepsInTwo ==
    ASSUME [Next]_vars
    PROVE  \/ \E r \in Runs : RecordStep(r) \/ OtherStep(r)
           \/ \E x \in Processes : Crash(x)
           \/ UNCHANGED vars
  BY Steps DEF OtherStep

LEMMA OtherFacts ==
    ASSUME TypeInv, NEW r \in Runs, OtherStep(r)
    PROVE  /\ Elsewhere(r) /\ pc[r] \notin Recording \cup {"dead"}
           /\ pc'[r] \notin Recording \ {"stage"} /\ pc'[r] \notin {"open", "dead"}
           /\ UNCHANGED <<home, queue, artifacts, acked, stage, read>>
           /\ Seed(r) \/ (log' = log /\ clobbered' = clobbered)
           /\ Open(r) \/ OpeningFails(r) \/ early' = early
           /\ Open(r) \/ pc'[r] # "seed" \/ Seed(r)
           /\ Seed(r) \/ team' = team
  <1>0. pc \in [Runs -> PC]  BY ShapeFacts DEF TypeInv
  <1>a. /\ \A w \in {"seed", "index", "stage", "close", "update", "put state", "list",
                     "rebuild", "done"} : w \notin Recording \ {"stage"}
        /\ \A w \in {"open", "seed", "index", "close", "update", "put state", "list",
                     "rebuild"} : w \notin Recording
    BY DEF Recording, Appending
  <1>1. CASE Open(r)
    <2>1. pc[r] = "open" /\ \E w \in {"seed", "index"} : pc' = [pc EXCEPT ![r] = w]
      BY <1>1 DEF Open, Goto
    <2>2. pc'[r] \in {"seed", "index"}  BY <1>0, <2>1
    <2>3. UNCHANGED <<home, queue, artifacts, acked, stage, read, log, clobbered, team>>
      BY <1>1 DEF Open, tree, append
    <2> QED  BY <1>1, <1>a, <2>1, <2>2, <2>3, OpenType
  <1>2. CASE Seed(r)
    <2>1. pc[r] = "seed" /\ pc' = [pc EXCEPT ![r] = IF Len(todo[r]) = 1 THEN "index" ELSE "seed"]
      BY <1>2, SeedFacts
    <2>2. pc'[r] \in {"seed", "index"}  BY <1>0, <2>1
    <2>3. UNCHANGED <<home, queue, artifacts, acked, stage, read, early>>
      BY <1>2, SeedFacts DEF append
    <2> QED  BY <1>2, <1>a, <2>1, <2>2, <2>3, SeedType
  <1>3. CASE Index(r)
    <2>1. pc[r] = "index" /\ pc' = [pc EXCEPT ![r] = FirstStage(r)]
      BY <1>3 DEF Index, Goto
    <2>2. pc'[r] \in {"stage", "close"}  BY <1>0, <2>1 DEF FirstStage
    <2>3. UNCHANGED <<home, queue, artifacts, acked, stage, read, log, clobbered, team, early>>
      BY <1>3 DEF Index, tree, append, ghosts
    <2> QED  BY <1>3, <1>a, <2>1, <2>2, <2>3, IndexType
  <1>4. CASE OpeningFails(r)
    <2>1. pc[r] \in Opening /\ pc' = [pc EXCEPT ![r] = FirstStage(r)]
      BY <1>4, OpeningFailsFacts
    <2>2. pc'[r] \in {"stage", "close"}  BY <1>0, <2>1 DEF FirstStage
    <2>3. UNCHANGED <<home, queue, artifacts, acked, stage, read, log, clobbered, team>>
      BY <1>4, OpeningFailsFacts DEF tree, append
    <2> QED  BY <1>4, <1>a, <2>1, <2>2, <2>3, OpeningFailsType DEF Opening
  <1>5. CASE ReadTurn(r) \/ MergeState(r) \/ PutState(r)
    <2>1. /\ pc[r] \in {"close", "update", "put state"}
          /\ \E w \in {"update", "put state", "list"} : pc' = [pc EXCEPT ![r] = w]
      BY <1>5 DEF ReadTurn, MergeState, PutState, Goto
    <2>2. pc'[r] \in {"update", "put state", "list"}  BY <1>0, <2>1
    <2>3. UNCHANGED <<home, queue, artifacts, acked, stage, read, log, clobbered, team, early>>
      BY <1>5 DEF ReadTurn, MergeState, PutState, tree, append, ghosts
    <2> QED  BY <1>5, <1>a, <2>1, <2>2, <2>3, CloserFacts
  <1>6. CASE ListHistory(r) \/ ReadHistory(r) \/ PutConsumption(r)
    <2>1. /\ pc[r] \in {"list", "rebuild"}
          /\ pc' = pc \/ \E w \in {"rebuild", "done"} : pc' = [pc EXCEPT ![r] = w]
      BY <1>6 DEF ListHistory, ReadHistory, PutConsumption, Goto
    <2>2. pc'[r] \in {"list", "rebuild", "done"}  BY <1>0, <2>1
    <2>3. UNCHANGED <<home, queue, artifacts, acked, stage, read, log, clobbered, team, early>>
      BY <1>6 DEF ListHistory, ReadHistory, PutConsumption, tree, append, ghosts
    <2>4. Elsewhere(r)  BY <1>6, ListHistoryType, ReadHistoryType, PutConsumptionType
    <2> QED  BY <1>a, <2>1, <2>2, <2>3, <2>4
  <1>7. CASE ClosingFails(r)
    <2>1. /\ pc[r] \notin Opening \cup Recording \cup {"done", "dead"}
          /\ pc' = [pc EXCEPT ![r] = "done"]
      BY <1>7, ClosingFailsFacts
    <2>2. pc'[r] = "done"  BY <1>0, <2>1
    <2>3. UNCHANGED <<home, queue, artifacts, acked, stage, read, log, clobbered, team, early>>
      BY <1>7, ClosingFailsFacts DEF tree, append
    <2> QED  BY <1>7, <1>a, <2>1, <2>2, <2>3, ClosingFailsType
  <1> QED  BY <1>1, <1>2, <1>3, <1>4, <1>5, <1>6, <1>7 DEF OtherStep

LEMMA QueueNext ==
    ASSUME TypeInv, QueueInv, [Next]_vars
    PROVE  QueueInv'
  <1>1. ASSUME NEW r \in Runs, RecordStep(r) PROVE QueueInv'  BY <1>1, QueueRecords
  <1>2. ASSUME NEW r \in Runs, OtherStep(r) PROVE QueueInv'
    <2>1. /\ Elsewhere(r) /\ pc'[r] \notin Recording \ {"stage"}
          /\ UNCHANGED <<home, queue, stage, read>>
      BY <1>2, OtherFacts
    <2>2. pc'[r] \notin Appending  BY <2>1 DEF Recording, Appending
    <2>3. \A o \in Runs \ {r} : PathOf(o)' = PathOf(o) /\ (Reading(o)' <=> Reading(o))
      BY <2>1, PathThere DEF Elsewhere, Reading
    <2> QED  BY <2>1, <2>2, <2>3, QueueStill DEF Elsewhere
  <1>3. ASSUME NEW x \in Processes, Crash(x) PROVE QueueInv'
    <2>1. /\ \A r \in Runs : pc'[r] # "dead" => pc'[r] = pc[r]
          /\ \A r \in Runs : home[r] = x => pc'[r] \in {"done", "dead"}
          /\ \A y \in Processes : y # x => queue'[y] = queue[y]
          /\ UNCHANGED <<home, stage, read>>
      BY <1>3, CrashFacts DEF append
    <2>2. ASSUME NEW o \in Runs, pc'[o] \in Appending
          PROVE  /\ Queued(queue', o, PathOf(o)') /\ home' = home
                 /\ Reading(o)' => AtHead(queue', o, PathOf(o)')
      <3>1. pc'[o] = pc[o] /\ home[o] # x  BY <2>1, <2>2 DEF Appending
      <3>2. PathOf(o)' = PathOf(o) /\ (Reading(o)' <=> Reading(o))
        BY <2>1, <3>1, PathThere DEF Reading
      <3>3. home[o] \in Processes  BY ShapeFacts DEF TypeInv
      <3>4. queue'[home[o]] = queue[home[o]]  BY <2>1, <3>1, <3>3
      <3> QED  BY <2>1, <2>2, <3>1, <3>2, <3>4, QueueParts DEF Queued, AtHead
    <2>3. ASSUME NEW o \in Runs
          PROVE  /\ pc'[o] \in Appending =>
                       \E i \in 1..Len(queue'[home'[o]][PathOf(o)']) :
                          queue'[home'[o]][PathOf(o)'][i] = o
                 /\ Reading(o)' => Head(queue'[home'[o]][PathOf(o)']) = o
      BY <2>2 DEF Queued, AtHead, Reading
    <2> QED  BY <2>3 DEF QueueInv
  <1>4. CASE UNCHANGED vars
    <2>1. UNCHANGED <<home, queue, pc, stage, read>>  BY <1>4 DEF vars, append
    <2>2. \A o \in Runs : PathOf(o)' = PathOf(o) /\ (Reading(o)' <=> Reading(o))
      BY <2>1, PathThere DEF Reading
    <2> QED  BY <2>1, <2>2, QueueStill
  <1> QED  BY <1>1, <1>2, <1>3, <1>4, StepsInTwo

LEMMA InitQueue ==
    ASSUME Init
    PROVE  QueueInv
  <1>1. pc = [r \in Runs |-> "open"]  BY DEF Init
  <1> QED  BY <1>1 DEF QueueInv, Reading, Appending
-----------------------------------------------------------------------------
(* The logs and their ETags. *)

\* Whoever holds what it read of a log held it before.
ReadersKept ==
    \A o \in Runs : Reading(o)' => /\ Reading(o) /\ read'[o] = read[o] /\ pc'[o] = pc[o]
                                   /\ PathOf(o)' = PathOf(o)

LEMMA KeepReaders ==
    ASSUME NEW r \in Runs, Elsewhere(r), ~Reading(r)'
    PROVE  ReadersKept
  <1> SUFFICES ASSUME NEW o \in Runs, Reading(o)'
               PROVE  /\ Reading(o) /\ read'[o] = read[o] /\ pc'[o] = pc[o]
                      /\ PathOf(o)' = PathOf(o)
    BY DEF ReadersKept
  <1>1. pc'[o] = pc[o] /\ read'[o] = read[o] /\ stage'[o] = stage[o]  BY DEF Elsewhere
  <1> QED  BY <1>1, PathThere DEF Reading

LEMMA RecordReaders ==
    ASSUME TypeInv, NEW r \in Runs, RecordStep(r), ~AppendGet(r)
    PROVE  ReadersKept
  <1>1. PICK w : Records(r, w)  BY RecordSteps
  <1>2. Elsewhere(r)  BY <1>1, RecordsElsewhere
  <1>3. ~Reading(r)'  BY QueueSteps DEF Reading
  <1> QED  BY <1>2, <1>3, KeepReaders

LEMMA AppendGetFacts ==
    ASSUME TypeInv, NEW r \in Runs, AppendGet(r)
    PROVE  /\ pc[r] \in Appending /\ read'[r] = log[PathOf(r)]
           /\ \A o \in Runs : o # r => read'[o] = read[o]
           /\ \A o \in Runs : pc'[o] = pc[o] /\ PathOf(o)' = PathOf(o)
           /\ UNCHANGED <<home, team, log, artifacts, queue, todo, early, acked, clobbered>>
  <1>0. read \in [Runs -> LogType]  BY ShapeFacts DEF TypeInv
  <1>1. /\ pc[r] \in Appending /\ read' = [read EXCEPT ![r] = log[PathOf(r)]]
        /\ UNCHANGED <<home, tree, queue, pc, stage, opened, tries, scratch, faults, ghosts>>
    BY DEF AppendGet
  <1>2. pc' = pc /\ stage' = stage  BY <1>1
  <1>3. \A o \in Runs : PathOf(o)' = PathOf(o)  BY <1>2, PathThere
  <1>4. UNCHANGED <<home, team, log, artifacts, queue, todo, early, acked, clobbered>>
    BY <1>1 DEF tree, scratch, ghosts
  <1> QED  BY <1>0, <1>1, <1>3, <1>4

\* What each step does to the logs.
LEMMA LogSteps ==
    ASSUME TypeInv, [Next]_vars
    PROVE  \/ UNCHANGED <<log, acked, clobbered>> /\ ReadersKept
           \/ \E r \in Runs : AppendGet(r)
           \/ \E r \in Runs : (AppendPut(r) \/ Seed(r)) /\ ReadersKept
  <1>1. ASSUME NEW r \in Runs, RecordStep(r)
        PROVE  \/ UNCHANGED <<log, acked, clobbered>> /\ ReadersKept
               \/ AppendGet(r)
               \/ AppendPut(r) /\ ReadersKept
    <2>1. AppendGet(r) \/ ReadersKept  BY <1>1, RecordReaders
    <2>2. \/ UNCHANGED <<log, acked, clobbered>>
          \/ AppendGet(r) \/ AppendPut(r)
      BY <1>1, RecordingFailsFacts
         DEF RecordStep, AppendConflict, CompleteStage, FinishPut, NothingToFinish, tree, ghosts
    <2> QED  BY <2>1, <2>2
  <1>2. ASSUME NEW r \in Runs, OtherStep(r)
        PROVE  \/ UNCHANGED <<log, acked, clobbered>> /\ ReadersKept
               \/ Seed(r) /\ ReadersKept
    <2>1. Elsewhere(r) /\ pc'[r] \notin Recording \ {"stage"}  BY <1>2, OtherFacts
    <2>2. ~Reading(r)'  BY <2>1 DEF Reading, Recording, Appending
    <2>3. ReadersKept  BY <2>1, <2>2, KeepReaders
    <2> QED  BY <1>2, <2>3, OtherFacts
  <1>3. ASSUME NEW x \in Processes, Crash(x)
        PROVE  UNCHANGED <<log, acked, clobbered>> /\ ReadersKept
    <2>1. /\ \A r \in Runs : pc'[r] # "dead" => pc'[r] = pc[r]
          /\ UNCHANGED <<tree, stage, append, ghosts>>
      BY <1>3, CrashFacts
    <2>2. read' = read /\ stage' = stage /\ UNCHANGED <<log, acked, clobbered>>
      BY <2>1 DEF tree, append, ghosts
    <2>3. ASSUME NEW o \in Runs, Reading(o)'
          PROVE  /\ Reading(o) /\ read'[o] = read[o] /\ pc'[o] = pc[o]
                 /\ PathOf(o)' = PathOf(o)
      <3>1. pc'[o] = pc[o]  BY <2>1, <2>3 DEF Reading, Appending
      <3> QED  BY <2>2, <2>3, <3>1, PathThere DEF Reading
    <2> QED  BY <2>2, <2>3 DEF ReadersKept
  <1>4. CASE UNCHANGED vars
    <2>1. UNCHANGED <<pc, stage, read, log, acked, clobbered>>
      BY <1>4 DEF vars, tree, append, ghosts
    <2>2. \A o \in Runs : PathOf(o)' = PathOf(o)  BY <2>1, PathThere
    <2> QED  BY <2>1, <2>2 DEF ReadersKept, Reading
  <1> QED  BY <1>1, <1>2, <1>3, <1>4, StepsInTwo

\* A write of a log is an ETag more.
LEMMA LogMoves ==
    ASSUME TypeInv, NEW r \in Runs, AppendPut(r) \/ Seed(r)
    PROVE  /\ \A p \in LogPaths : log'[p] = log[p] \/ log'[p].etag = log[p].etag + 1
           /\ \A e \in acked' : e \in acked \/ e[1] = PathOf(r)
           /\ AppendPut(r) => log'[PathOf(r)].etag = log[PathOf(r)].etag + 1
           /\ Seed(r) => acked' = acked
  <1>0. log \in [LogPaths -> LogType]  BY ShapeFacts DEF TypeInv
  <1>1. CASE AppendPut(r)
    <2> DEFINE p == PathOf(r)
               b == Bounded(Append(read[r].blocks, Block(r)))
    <2>1. /\ pc[r] \in Appending /\ acked' = acked \cup {<<p, Block(r)>>}
          /\ log' = [log EXCEPT ![p] = [etag |-> log[p].etag + 1, blocks |-> b]]
      BY <1>1, AppendPutFacts
    <2>2. p \in LogPaths  BY <2>1, PathFacts
    <2>3. pc[r] # "seed"  BY <2>1 DEF Appending
    <2> HIDE DEF p, b
    <2>4. /\ \A y \in LogPaths : log'[y] = log[y] \/ log'[y].etag = log[y].etag + 1
          /\ log'[p].etag = log[p].etag + 1
      BY <1>0, <2>1, <2>2
    <2>5. \A e \in acked' : e \in acked \/ e[1] = p  BY <2>1
    <2> QED  BY <2>3, <2>4, <2>5 DEF p, Seed
  <1>2. CASE Seed(r)
    <2>1. /\ pc[r] = "seed" /\ acked' = acked
          /\ \A p \in LogPaths : log'[p] = Emptied(p, log[p]) \/ log'[p] = log[p]
      BY <1>2, SeedFacts
    <2>2. pc[r] \notin Appending  BY <2>1 DEF Appending
    <2>3. ~AppendPut(r)  BY <2>2 DEF AppendPut
    <2>4. \A p \in LogPaths : Emptied(p, log[p]).etag = log[p].etag + 1  BY DEF Emptied
    <2>5. \A p \in LogPaths : log'[p] = log[p] \/ log'[p].etag = log[p].etag + 1
      BY <2>1, <2>4
    <2> QED  BY <2>1, <2>3, <2>5
  <1> QED  BY <1>1, <1>2

LEMMA GrowingEtags ==
    ASSUME TypeInv, EtagInv, ReadersKept,
           \A p \in LogPaths : log'[p] = log[p] \/ log'[p].etag = log[p].etag + 1,
           \A e \in acked' : e[1] \in LogPaths /\ (e \in acked \/ log'[e[1]].etag # 0)
    PROVE  EtagInv'
  <1>1. \A p \in LogPaths : log[p].etag \in Nat /\ (log[p].etag = 0 => log[p] = Absent)
    BY DEF EtagInv
  <1>2. \A p \in LogPaths : log'[p].etag \in Nat /\ (log'[p].etag = 0 => log'[p] = Absent)
    <2> SUFFICES ASSUME NEW p \in LogPaths
                 PROVE  log'[p].etag \in Nat /\ (log'[p].etag = 0 => log'[p] = Absent)
      OBVIOUS
    <2>1. CASE log'[p] = log[p]  BY <1>1, <2>1
    <2>2. CASE log'[p].etag = log[p].etag + 1
      <3>1. log[p].etag \in Nat  BY <1>1
      <3> QED  BY <2>2, <3>1
    <2> QED  BY <2>1, <2>2
  <1>3. ASSUME NEW e \in acked' PROVE log'[e[1]].etag # 0
    <2>1. e[1] \in LogPaths /\ (e \in acked \/ log'[e[1]].etag # 0)  OBVIOUS
    <2>2. CASE e \in acked
      <3>1. log[e[1]].etag # 0 /\ log[e[1]].etag \in Nat  BY <1>1, <2>1, <2>2 DEF EtagInv
      <3>2. log'[e[1]] = log[e[1]] \/ log'[e[1]].etag = log[e[1]].etag + 1  BY <2>1
      <3> QED  BY <3>1, <3>2
    <2> QED  BY <2>1, <2>2
  <1>4. ASSUME NEW o \in Runs, Reading(o)'
        PROVE  /\ read'[o].etag \in 0..log'[PathOf(o)'].etag
               /\ read'[o].etag = log'[PathOf(o)'].etag => read'[o] = log'[PathOf(o)']
    <2> DEFINE p == PathOf(o)
    <2>1. Reading(o) /\ read'[o] = read[o] /\ PathOf(o)' = p
      BY <1>4 DEF ReadersKept
    <2>2. p \in LogPaths  BY <2>1, PathFacts DEF Reading
    <2>3. /\ read[o].etag \in 0..log[p].etag
          /\ read[o].etag = log[p].etag => read[o] = log[p]
      BY <2>1 DEF EtagInv
    <2> HIDE DEF p
    <2>4. CASE log'[p] = log[p]  BY <2>1, <2>3, <2>4
    <2>5. CASE log'[p].etag = log[p].etag + 1
      <3>1. log[p].etag \in Nat  BY <1>1, <2>2
      <3>2. read[o].etag \in 0..(log[p].etag + 1) /\ read[o].etag # log[p].etag + 1
        BY <2>3, <3>1
      <3> QED  BY <2>1, <2>5, <3>2
    <2> QED  BY <2>2, <2>4, <2>5
  <1> QED  BY <1>2, <1>3, <1>4 DEF EtagInv

LEMMA AckedPaths ==
    ASSUME TypeInv
    PROVE  \A e \in acked : e[1] \in LogPaths /\ e[2] \in BlockType
  <1>1. acked \subseteq Acks  BY ShapeFacts DEF TypeInv
  <1> QED  BY <1>1 DEF Acks

LEMMA EtagNext ==
    ASSUME TypeInv, EtagInv, [Next]_vars
    PROVE  EtagInv'
  <1>1. CASE UNCHANGED <<log, acked, clobbered>> /\ ReadersKept
    BY <1>1, AckedPaths, GrowingEtags
  <1>2. ASSUME NEW r \in Runs, AppendPut(r) \/ Seed(r), ReadersKept PROVE EtagInv'
    <2>1. \A p \in LogPaths : log'[p] = log[p] \/ log'[p].etag = log[p].etag + 1
      BY <1>2, LogMoves
    <2>2. ASSUME NEW e \in acked'
          PROVE  e[1] \in LogPaths /\ (e \in acked \/ log'[e[1]].etag # 0)
      <3>1. CASE e \in acked  BY <3>1, AckedPaths
      <3>2. CASE e \notin acked
        <4>1. AppendPut(r) /\ e[1] = PathOf(r)  BY <1>2, <3>2, LogMoves
        <4>2. PathOf(r) \in LogPaths  BY <4>1, PathFacts DEF AppendPut
        <4>3. log[PathOf(r)].etag \in Nat  BY <4>2 DEF EtagInv
        <4>4. log'[PathOf(r)].etag = log[PathOf(r)].etag + 1  BY <4>1, LogMoves
        <4> QED  BY <4>1, <4>2, <4>3, <4>4
      <3> QED  BY <3>1, <3>2
    <2> QED  BY <1>2, <2>1, <2>2, GrowingEtags
  <1>3. ASSUME NEW r \in Runs, AppendGet(r) PROVE EtagInv'
    <2>1. /\ pc[r] \in Appending /\ read'[r] = log[PathOf(r)]
          /\ \A o \in Runs : o # r => read'[o] = read[o]
          /\ \A o \in Runs : pc'[o] = pc[o] /\ PathOf(o)' = PathOf(o)
          /\ log' = log /\ acked' = acked
      BY <1>3, AppendGetFacts
    <2>2. PathOf(r) \in LogPaths  BY <2>1, PathFacts
    <2>3. ASSUME NEW o \in Runs, Reading(o)'
          PROVE  /\ read'[o].etag \in 0..log'[PathOf(o)'].etag
                 /\ read'[o].etag = log'[PathOf(o)'].etag => read'[o] = log'[PathOf(o)']
      <3>1. CASE o = r
        <4>1. log[PathOf(r)].etag \in Nat  BY <2>2 DEF EtagInv
        <4>2. log[PathOf(r)].etag \in 0..log[PathOf(r)].etag  BY <4>1
        <4> QED  BY <2>1, <3>1, <4>2
      <3>2. CASE o # r  BY <2>1, <2>3, <3>2 DEF EtagInv, Reading
      <3> QED  BY <3>1, <3>2
    <2> QED  BY <2>1, <2>3 DEF EtagInv
  <1> QED  BY <1>1, <1>2, <1>3, LogSteps

LEMMA InitLog ==
    ASSUME Init
    PROVE  /\ \A p \in LogPaths : log[p].etag \in {0, 1} /\ (log[p].etag = 0 => log[p] = Absent)
           /\ pc = [r \in Runs |-> "open"] /\ acked = {} /\ early = {} /\ clobbered = {}
           /\ team = Unseeded => log[Notifications].etag = 0
           /\ log[Notifications].etag = 0 <=> log[Decisions].etag = 0
  <1>1. Absent.etag = 0 /\ [Absent EXCEPT !.etag = 1].etag = 1  BY DEF Absent
  <1>2. CASE log = [p \in LogPaths |-> Absent]
    <2>1. \A p \in LogPaths : log[p] = Absent  BY <1>2
    <2> QED  BY <1>1, <2>1, PathsAreLogs DEF Init
  <1>3. CASE /\ team \in SeededAs
             /\ log = [p \in LogPaths |-> IF p \in {Decisions, Notifications} \cup HistoryPaths
                                          THEN [Absent EXCEPT !.etag = 1] ELSE Absent]
    <2>1. team # Unseeded  BY <1>3, RolesAssumption
    <2> DEFINE e == [Absent EXCEPT !.etag = 1]
    <2>2. \A p \in LogPaths : log[p] = IF p \in {Decisions, Notifications} \cup HistoryPaths
                                       THEN e ELSE Absent
      BY <1>3
    <2>3. e.etag = 1  BY <1>1
    <2> HIDE DEF e
    <2>4. \A p \in LogPaths : log[p].etag \in {0, 1} /\ (log[p].etag = 0 => log[p] = Absent)
      BY <1>1, <2>2, <2>3
    <2>5. log[Notifications].etag = 1 /\ log[Decisions].etag = 1
      BY <2>2, <2>3, PathsAreLogs
    <2> QED  BY <2>1, <2>4, <2>5 DEF Init
  <1> QED  BY <1>2, <1>3 DEF Init

LEMMA InitEtag ==
    ASSUME Init
    PROVE  EtagInv
  <1>1. \A p \in LogPaths : log[p].etag \in Nat /\ (log[p].etag = 0 => log[p] = Absent)
    BY InitLog
  <1>2. \A r \in Runs : ~Reading(r)  BY InitLog DEF Reading, Appending
  <1> QED  BY <1>1, <1>2, InitLog DEF EtagInv
-----------------------------------------------------------------------------
(* Who opened early. *)

\* Runs that opened early are never forgotten.
LEMMA EarlyGrows ==
    ASSUME TypeInv, [Next]_vars
    PROVE  early \subseteq early'
  <1>1. ASSUME NEW r \in Runs, RecordStep(r) PROVE early \subseteq early'
    BY <1>1, RecordSteps DEF Records
  <1>2. ASSUME NEW r \in Runs, OtherStep(r) PROVE early \subseteq early'
    <2>1. early' = early \/ early' = IfEarly(r)
      BY <1>2, OtherFacts, OpeningFailsFacts DEF Open
    <2> QED  BY <2>1 DEF IfEarly
  <1>3. ASSUME NEW x \in Processes, Crash(x) PROVE early \subseteq early'
    BY <1>3 DEF Crash, ghosts
  <1>4. CASE UNCHANGED vars  BY <1>4 DEF vars, ghosts
  <1> QED  BY <1>1, <1>2, <1>3, <1>4, StepsInTwo

\* The invariant in parts: what the absent logs tell, and who seeds.
EarlyLogs ==
    /\ log[Notifications].etag = 0 =>
          /\ \A r \in Runs : pc[r] \notin {"open", "dead"} => r \in early
          /\ log[Decisions].etag # 0 => early # {}
    /\ team = Unseeded => log[Notifications].etag = 0
    /\ log[Notifications].etag # 0 => log[Decisions].etag # 0
EarlySeeds ==
    \A r \in Runs : pc[r] = "seed" =>
       r \in early /\ (Head(todo[r]) = "notifications" => log[Decisions].etag # 0)

LEMMA EarlyParts ==
    EarlyInv <=> (\A r \in early : pc[r] # "open") /\ EarlyLogs /\ EarlySeeds
  BY DEF EarlyInv, EarlyLogs, EarlySeeds

LEMMA EarlyRecords ==
    ASSUME TypeInv, EtagInv, EarlyInv, NEW r \in Runs, RecordStep(r)
    PROVE  EarlyInv'
  <1>1. PICK w : Records(r, w)  BY RecordSteps
  <1>2. /\ Elsewhere(r) /\ pc'[r] = w  BY <1>1, RecordsElsewhere, RecordsStage
  <1>3. /\ w \notin {"open", "dead", "seed"} /\ pc[r] \notin {"open", "dead"}
        /\ early' = early /\ team' = team
    BY <1>1 DEF Records, Recording, Appending
  <1>4. /\ log'[Notifications] = log[Notifications]
        /\ log[Decisions].etag # 0 => log'[Decisions].etag # 0
        /\ log'[Decisions].etag # 0 => log[Decisions].etag # 0 \/ pc[r] \in Appending
    <2>1. CASE AppendPut(r)
      <3>1. pc[r] \in Appending /\ log' = [log EXCEPT ![PathOf(r)] =
                  [etag |-> log[PathOf(r)].etag + 1,
                   blocks |-> Bounded(Append(read[r].blocks, Block(r)))]]
        BY <2>1, AppendPutFacts
      <3>2. PathOf(r) # Notifications  BY <3>1, PathFacts
      <3>3. log \in [LogPaths -> LogType]  BY ShapeFacts DEF TypeInv
      <3>4. log'[Notifications] = log[Notifications]
        BY <3>1, <3>2, <3>3, PathsAreLogs
      <3>5. log'[Decisions] = log[Decisions] \/ log'[Decisions].etag = log[Decisions].etag + 1
        BY <2>1, LogMoves, PathsAreLogs
      <3>6. log[Decisions].etag \in Nat  BY PathsAreLogs DEF EtagInv
      <3> QED  BY <3>1, <3>4, <3>5, <3>6
    <2>2. CASE ~AppendPut(r)
      <3>1. log' = log
        BY <2>2, RecordingFailsFacts
           DEF RecordStep, AppendGet, AppendConflict, CompleteStage, FinishPut,
               NothingToFinish, tree
      <3> QED  BY <3>1
    <2> QED  BY <2>1, <2>2
  <1>5. /\ \A o \in early : pc[o] # "open"
        /\ EarlyLogs /\ EarlySeeds
    BY EarlyParts
  <1>6. \A o \in early' : pc'[o] # "open"  BY <1>2, <1>3, <1>5, ShapeFacts DEF Elsewhere, TypeInv
  <1>7. EarlyLogs'
    <2>1. \A o \in Runs : pc'[o] \notin {"open", "dead"} => pc[o] \notin {"open", "dead"}
      BY <1>2, <1>3 DEF Elsewhere
    <2>2. log[Notifications].etag = 0 => r \in early  BY <1>3, <1>5 DEF EarlyLogs
    <2> QED  BY <1>3, <1>4, <1>5, <2>1, <2>2 DEF EarlyLogs
  <1>8. EarlySeeds'
    <2>1. \A o \in Runs : pc'[o] = "seed" => pc[o] = "seed" /\ todo'[o] = todo[o]
      BY <1>2, <1>3 DEF Elsewhere
    <2> QED  BY <1>3, <1>4, <1>5, <2>1 DEF EarlySeeds
  <1> QED  BY <1>6, <1>7, <1>8 DEF EarlyInv, EarlyLogs, EarlySeeds

LEMMA EarlyOther ==
    ASSUME TypeInv, SeederInv, EtagInv, EarlyInv, NEW r \in Runs, OtherStep(r)
    PROVE  EarlyInv'
  <1>0. /\ \A o \in early : pc[o] # "open"
        /\ EarlyLogs /\ EarlySeeds
    BY EarlyParts
  <1>a. /\ Elsewhere(r) /\ pc'[r] \notin {"open", "dead"} /\ pc[r] # "dead"
        /\ Seed(r) \/ (log' = log /\ team' = team)
        /\ Open(r) \/ OpeningFails(r) \/ early' = early
        /\ Open(r) \/ pc'[r] # "seed" \/ Seed(r)
    BY OtherFacts
  <1>b. early \subseteq Runs /\ team \in Profiles \cup {Unseeded}  BY ShapeFacts DEF TypeInv
  <1>c. Asked[r] \in Profiles /\ Unseeded \notin Profiles  BY RolesAssumption
  <1>1. /\ early' = early \/ early' = early \cup {r}
        /\ pc[r] = "open" /\ log[Notifications].etag = 0 => r \in early'
    <2>1. CASE Open(r) \/ OpeningFails(r)
      <3>1. early' = IfEarly(r)  BY <2>1, OpeningFailsFacts DEF Open
      <3> QED  BY <3>1 DEF IfEarly
    <2>2. CASE ~Open(r) /\ ~OpeningFails(r)
      <3>1. pc[r] # "open"
        BY <2>2, SeedFacts, ClosingFailsFacts
           DEF OtherStep, Index, ReadTurn, MergeState, PutState, ListHistory, ReadHistory,
               PutConsumption, Opening
      <3> QED  BY <1>a, <2>2, <3>1
    <2> QED  BY <2>1, <2>2
  <1>2. \A o \in early' : pc'[o] # "open"  BY <1>0, <1>a, <1>b, <1>1 DEF Elsewhere
  <1>3. \A o \in Runs : pc'[o] \notin {"open", "dead"} =>
                           pc[o] \notin {"open", "dead"} \/ o = r
    BY <1>a DEF Elsewhere
  <1>4. CASE Seed(r)
    <2>1. /\ pc[r] = "seed" /\ todo[r] \in SeedTails /\ todo'[r] = Tail(todo[r])
          /\ team' = IF Head(todo[r]) = "team" THEN Asked[r] ELSE team
          /\ \A p \in LogPaths :
                 log'[p] = IF \/ Head(todo[r]) = "decisions" /\ p = Decisions
                              \/ Head(todo[r]) = "notifications" /\ p = Notifications
                           THEN Emptied(p, log[p]) ELSE log[p]
          /\ pc' = [pc EXCEPT ![r] = IF Len(todo[r]) = 1 THEN "index" ELSE "seed"]
      BY <1>4, SeedFacts
    <2>2. /\ log'[Decisions] = IF Head(todo[r]) = "decisions"
                               THEN Emptied(Decisions, log[Decisions]) ELSE log[Decisions]
          /\ log'[Notifications] = IF Head(todo[r]) = "notifications"
                         THEN Emptied(Notifications, log[Notifications]) ELSE log[Notifications]
      BY <2>1, PathsAreLogs
    <2>3. /\ r \in early /\ (Head(todo[r]) = "notifications" => log[Decisions].etag # 0)
          /\ Head(todo[r]) # "team" => team # Unseeded
      BY <1>0, <2>1 DEF EarlySeeds, SeederInv
    <2>4. early' = early  BY <1>1, <2>3
    <2>5. log[Decisions].etag \in Nat /\ log[Notifications].etag \in Nat
      BY PathsAreLogs DEF EtagInv
    <2>6. /\ Head(todo[r]) = "decisions" => log'[Decisions].etag # 0
          /\ Head(todo[r]) # "decisions" => log'[Decisions] = log[Decisions]
          /\ Head(todo[r]) = "notifications" => log'[Notifications].etag # 0
          /\ Head(todo[r]) # "notifications" => log'[Notifications] = log[Notifications]
      BY <2>2, <2>5 DEF Emptied
    <2>7. team' # Unseeded  BY <1>c, <2>1, <2>3
    <2>8. EarlyLogs'
      BY <1>0, <1>3, <2>1, <2>3, <2>4, <2>6, <2>7 DEF EarlyLogs
    <2>9. EarlySeeds'
      <3>1. ASSUME NEW o \in Runs, pc'[o] = "seed"
            PROVE  o \in early /\ (Head(todo'[o]) = "notifications" => log'[Decisions].etag # 0)
        <4>1. CASE o = r
          <5>1. Len(todo[r]) # 1
            <6>1. pc \in [Runs -> PC]  BY ShapeFacts DEF TypeInv
            <6> QED  BY <2>1, <3>1, <4>1, <6>1
          <5>2. /\ Head(todo[r]) \in {"team", "routing", "state", "decisions", "notifications"}
                /\ Len(todo[r]) = 1 <=> Head(todo[r]) = "notifications"
                /\ Head(todo[r]) = "team" => Head(Tail(todo[r])) = "routing"
                /\ Head(todo[r]) = "routing" => Head(Tail(todo[r])) = "state"
                /\ Head(todo[r]) = "state" => Head(Tail(todo[r])) = "decisions"
                /\ Head(todo[r]) = "decisions" => Head(Tail(todo[r])) = "notifications"
            BY <2>1, SeedTailFacts
          <5> QED  BY <2>1, <2>3, <2>6, <4>1, <5>1, <5>2
        <4>2. CASE o # r
          <5>1. pc[o] = "seed" /\ todo'[o] = todo[o]  BY <1>a, <3>1, <4>2 DEF Elsewhere
          <5> QED  BY <1>0, <2>6, <5>1 DEF EarlySeeds
        <4> QED  BY <4>1, <4>2
      <3> QED  BY <2>4, <3>1 DEF EarlySeeds
    <2> QED  BY <1>2, <2>8, <2>9 DEF EarlyInv, EarlyLogs, EarlySeeds
  <1>5. CASE ~Seed(r)
    <2>1. log' = log /\ team' = team  BY <1>5, <1>a
    <2>2. EarlyLogs'
      <3>1. ASSUME log[Notifications].etag = 0
            PROVE  \A o \in Runs : pc'[o] \notin {"open", "dead"} => o \in early'
        <4>1. r \in early'  BY <1>0, <1>1, <1>a, <3>1 DEF EarlyLogs
        <4>2. \A o \in Runs : pc[o] \notin {"open", "dead"} => o \in early'
          BY <1>0, <1>1, <3>1 DEF EarlyLogs
        <4> QED  BY <1>3, <4>1, <4>2
      <3> QED  BY <1>0, <1>1, <2>1, <3>1 DEF EarlyLogs
    <2>3. EarlySeeds'
      <3>1. ASSUME NEW o \in Runs, pc'[o] = "seed"
            PROVE  o \in early' /\ (Head(todo'[o]) = "notifications" => log[Decisions].etag # 0)
        <4>1. CASE o = r
          <5>1. Open(r)  BY <1>5, <1>a, <3>1, <4>1
          <5>2. pc[r] = "open" /\ team = Unseeded /\ todo'[r] = SeedFiles
            <6>1. pc \in [Runs -> PC] /\ todo \in [Runs -> Seq(Files)]  BY ShapeFacts DEF TypeInv
            <6>2. CASE team = Unseeded  BY <5>1, <6>1, <6>2 DEF Open
            <6>3. CASE team # Unseeded
              <7>1. pc' = [pc EXCEPT ![r] = "index"]  BY <5>1, <6>3 DEF Open, Goto
              <7> QED  BY <3>1, <4>1, <6>1, <7>1
            <6> QED  BY <6>2, <6>3
          <5>3. log[Notifications].etag = 0  BY <1>0, <5>2 DEF EarlyLogs
          <5>4. Head(SeedFiles) = "team"  BY DEF SeedFiles
          <5> QED  BY <1>1, <4>1, <5>2, <5>3, <5>4
        <4>2. CASE o # r
          <5>1. pc[o] = "seed" /\ todo'[o] = todo[o]  BY <1>a, <3>1, <4>2 DEF Elsewhere
          <5> QED  BY <1>0, <1>1, <5>1 DEF EarlySeeds
        <4> QED  BY <4>1, <4>2
      <3> QED  BY <2>1, <3>1 DEF EarlySeeds
    <2> QED  BY <1>2, <2>2, <2>3 DEF EarlyInv, EarlyLogs, EarlySeeds
  <1> QED  BY <1>4, <1>5

LEMMA EarlyNext ==
    ASSUME TypeInv, SeederInv, EtagInv, EarlyInv, [Next]_vars
    PROVE  EarlyInv'
  <1>0. (\A o \in early : pc[o] # "open") /\ EarlyLogs /\ EarlySeeds  BY EarlyParts
  <1>1. ASSUME NEW r \in Runs, RecordStep(r) PROVE EarlyInv'  BY <1>1, EarlyRecords
  <1>2. ASSUME NEW r \in Runs, OtherStep(r) PROVE EarlyInv'  BY <1>2, EarlyOther
  <1>3. CASE (\E x \in Processes : Crash(x)) \/ UNCHANGED vars
    <2>1. /\ \A r \in Runs : pc'[r] # "dead" => pc'[r] = pc[r]
          /\ UNCHANGED <<team, log, todo, early>>
      BY <1>3, CrashFacts DEF vars, tree, scratch, ghosts
    <2>2. early \subseteq Runs  BY ShapeFacts DEF TypeInv
    <2>3. \A o \in early' : pc'[o] # "open"  BY <1>0, <2>1, <2>2
    <2>4. EarlyLogs' /\ EarlySeeds'  BY <1>0, <2>1 DEF EarlyLogs, EarlySeeds
    <2> QED  BY <2>3, <2>4 DEF EarlyInv, EarlyLogs, EarlySeeds
  <1> QED  BY <1>1, <1>2, <1>3, StepsInTwo

LEMMA InitEarly ==
    ASSUME Init
    PROVE  EarlyInv
  BY InitLog DEF EarlyInv
-----------------------------------------------------------------------------
(* The race a replaced log needs. *)

RaceReads ==
    \A r \in Runs : Reading(r) =>
       /\ pc[r] = "run history" => read[r] = log[PathOf(r)]
       /\ pc[r] = "history" /\ OneHome => read[r] = log[PathOf(r)]
       /\ pc[r] = "decision" /\ AtMostOne(early) /\ read[r].etag = 0 => log[Decisions].etag = 0
RaceSeeds ==
    AtMostOne(early) =>
       /\ \A r \in Runs : pc[r] = "seed" =>
             /\ log[Notifications].etag = 0
             /\ Head(todo[r]) # "notifications" => log[Decisions].etag = 0
       /\ clobbered \subseteq HistoryPaths
       /\ OneHome => clobbered = {}

LEMMA RaceParts == RaceInv <=> RaceReads /\ RaceSeeds
  BY DEF RaceInv, RaceReads, RaceSeeds

\* While the notifications are absent, whoever records or seeds is early.
LEMMA EarlyOnes ==
    ASSUME EarlyInv, AtMostOne(early), NEW r \in Runs, NEW o \in Runs,
           pc[r] \notin {"open", "dead"}, pc[o] \notin {"open", "dead"},
           log[Notifications].etag = 0 \/ log[Decisions].etag = 0
    PROVE  r = o
  <1>1. log[Notifications].etag = 0  BY DEF EarlyInv
  <1>2. r \in early /\ o \in early  BY <1>1 DEF EarlyInv
  <1> QED  BY <1>2 DEF AtMostOne

LEMMA RaceStill ==
    ASSUME TypeInv, RaceInv, [Next]_vars, UNCHANGED <<log, clobbered, home>>,
           \A o \in Runs : Reading(o)' =>
              /\ pc'[o] = pc[o] /\ PathOf(o)' = PathOf(o)
              /\ \/ Reading(o) /\ read'[o] = read[o]
                 \/ read'[o] = log[PathOf(o)],
           AtMostOne(early') => \A o \in Runs : pc'[o] = "seed" =>
              \/ pc[o] = "seed" /\ todo'[o] = todo[o]
              \/ log[Notifications].etag = 0 /\ log[Decisions].etag = 0
    PROVE  RaceInv'
  <1>0. RaceReads /\ RaceSeeds  BY RaceParts
  <1>a. AtMostOne(early') => AtMostOne(early)  BY EarlyGrows, AtMostOneSubset
  <1>1. RaceReads'
    <2>1. ASSUME NEW o \in Runs, Reading(o)'
          PROVE  /\ pc'[o] = "run history" => read'[o] = log'[PathOf(o)']
                 /\ pc'[o] = "history" /\ OneHome => read'[o] = log'[PathOf(o)']
                 /\ pc'[o] = "decision" /\ AtMostOne(early) /\ read'[o].etag = 0 =>
                        log'[Decisions].etag = 0
      <3>1. pc'[o] = pc[o] /\ PathOf(o)' = PathOf(o) /\ log' = log  BY <2>1
      <3>2. CASE Reading(o) /\ read'[o] = read[o]
        BY <1>0, <3>1, <3>2 DEF RaceReads
      <3>3. CASE read'[o] = log[PathOf(o)]
        <4>1. pc[o] = "decision" => PathOf(o) = Decisions  BY PathFacts
        <4> QED  BY <3>1, <3>3, <4>1
      <3> QED  BY <2>1, <3>2, <3>3
    <2>2. OneHome' <=> OneHome  BY DEF OneHome
    <2> QED  BY <1>a, <2>1, <2>2 DEF RaceReads, AtMostOne
  <1>2. RaceSeeds'
    <2>1. OneHome' <=> OneHome  BY DEF OneHome
    <2> QED  BY <1>0, <1>a, <2>1 DEF RaceSeeds, AtMostOne
  <1> QED  BY <1>1, <1>2 DEF RaceInv, RaceReads, RaceSeeds

LEMMA RacePut ==
    ASSUME TypeInv, QueueInv, EarlyInv, RaceInv, ReadersKept, NEW r \in Runs, AppendPut(r)
    PROVE  RaceInv'
  <1>0. RaceReads /\ RaceSeeds  BY RaceParts
  <1> DEFINE p == PathOf(r)
             b == Bounded(Append(read[r].blocks, Block(r)))
  <1>1. /\ pc[r] \in Appending /\ read[r] # Unread
        /\ log' = [log EXCEPT ![p] = [etag |-> log[p].etag + 1, blocks |-> b]]
        /\ clobbered' = IF read[r].etag = 0 /\ log[p].etag # 0
                        THEN clobbered \cup {p} ELSE clobbered
        /\ UNCHANGED <<home, early>>
    BY AppendPutFacts
  <1>2. /\ p \in LogPaths /\ p # Notifications /\ Reading(r)
        /\ pc[r] \notin {"open", "dead", "seed"} /\ log \in [LogPaths -> LogType]
        /\ pc[r] = "history" => p \in HistoryPaths
        /\ pc[r] = "run history" => p = RunHistory(r)
        /\ pc[r] = "decision" => p = Decisions
    BY <1>1, PathFacts, ShapeFacts DEF TypeInv, Appending, Reading
  <1>3. pc[r] \in {"history", "run history", "decision"}  BY <1>1 DEF Appending
  <1>4. \A y \in LogPaths : y # p => log'[y] = log[y]  BY <1>1, <1>2
  <1>5. OneHome' <=> OneHome  BY <1>1 DEF OneHome
  <1>6. PICK w : Records(r, w)  BY RecordSteps DEF RecordStep
  <1>7. /\ Elsewhere(r) /\ pc'[r] = w /\ w # "seed"
    BY <1>6, RecordsElsewhere, RecordsStage DEF Records, Recording, Appending
  <1> HIDE DEF p, b
  <1>8. RaceReads'
    <2>1. ASSUME NEW o \in Runs, Reading(o)'
          PROVE  /\ pc'[o] = "run history" => read'[o] = log'[PathOf(o)']
                 /\ pc'[o] = "history" /\ OneHome => read'[o] = log'[PathOf(o)']
                 /\ pc'[o] = "decision" /\ AtMostOne(early) /\ read'[o].etag = 0 =>
                        log'[Decisions].etag = 0
      <3>1. Reading(o) /\ read'[o] = read[o] /\ pc'[o] = pc[o] /\ PathOf(o)' = PathOf(o)
        BY <2>1 DEF ReadersKept
      <3>0. o # r
        <4>1. read'[r] = Unread  BY QueueSteps DEF RecordStep, AppendPut, AppendGet
        <4> QED  BY <2>1, <4>1 DEF Reading
      <3>2. /\ PathOf(o) \in LogPaths
            /\ pc[o] = "history" => PathOf(o) \in HistoryPaths
            /\ pc[o] = "run history" => PathOf(o) = RunHistory(o)
            /\ pc[o] = "decision" => PathOf(o) = Decisions
        BY <3>1, PathFacts DEF Reading
      <3>3. /\ pc[o] = "run history" => read[o] = log[PathOf(o)]
            /\ pc[o] = "history" /\ OneHome => read[o] = log[PathOf(o)]
            /\ pc[o] = "decision" /\ AtMostOne(early) /\ read[o].etag = 0 =>
                  log[Decisions].etag = 0
        BY <1>0, <3>1 DEF RaceReads
      <3>4. CASE PathOf(o) # p
        <4>1. log'[PathOf(o)] = log[PathOf(o)]  BY <1>4, <3>2, <3>4
        <4> QED  BY <3>1, <3>2, <3>3, <4>1
      <3>5. CASE PathOf(o) = p
        <4>1. pc[o] # "run history"
          BY <1>2, <1>3, <3>0, <3>2, <3>5, PathsAreLogs
        <4>2. ~(pc[o] = "history" /\ OneHome)
          <5> SUFFICES ASSUME pc[o] = "history", OneHome PROVE FALSE
            OBVIOUS
          <5>1. home[o] = home[r]  BY DEF OneHome
          <5>2. Head(queue[home[o]][PathOf(o)]) = o /\ Head(queue[home[r]][p]) = r
            BY <1>2, <3>1 DEF QueueInv, p
          <5> QED  BY <3>0, <3>5, <5>1, <5>2
        <4>3. ~(pc[o] = "decision" /\ AtMostOne(early) /\ read[o].etag = 0)
          <5> SUFFICES ASSUME pc[o] = "decision", AtMostOne(early), read[o].etag = 0
                       PROVE  FALSE
            OBVIOUS
          <5>1. log[Decisions].etag = 0  BY <3>3
          <5> QED  BY <1>2, <3>0, <5>1, EarlyOnes
        <4> QED  BY <3>1, <4>1, <4>2, <4>3
      <3> QED  BY <3>4, <3>5
    <2> QED  BY <1>1, <1>5, <2>1 DEF RaceReads, AtMostOne
  <1>9. AtMostOne(early) =>
          /\ \A o \in Runs : pc'[o] = "seed" =>
                /\ log'[Notifications].etag = 0
                /\ Head(todo'[o]) # "notifications" => log'[Decisions].etag = 0
          /\ clobbered' \subseteq HistoryPaths
          /\ OneHome => clobbered' = {}
    <2> SUFFICES ASSUME AtMostOne(early)
                 PROVE  /\ \A o \in Runs : pc'[o] = "seed" =>
                              /\ log'[Notifications].etag = 0
                              /\ Head(todo'[o]) # "notifications" => log'[Decisions].etag = 0
                        /\ clobbered' \subseteq HistoryPaths
                        /\ OneHome => clobbered' = {}
      OBVIOUS
    <2>1. ASSUME NEW o \in Runs, pc'[o] = "seed"
          PROVE  FALSE
      <3>1. o # r /\ pc[o] = "seed"  BY <1>7, <2>1 DEF Elsewhere
      <3>2. log[Notifications].etag = 0  BY <1>0, <3>1 DEF RaceSeeds
      <3> QED  BY <1>2, <3>1, <3>2, EarlyOnes
    <2>2. clobbered \subseteq HistoryPaths /\ (OneHome => clobbered = {})
      BY <1>0 DEF RaceSeeds
    <2>3. /\ pc[r] = "run history" => read[r] = log[p]
          /\ pc[r] = "history" /\ OneHome => read[r] = log[p]
          /\ pc[r] = "decision" /\ read[r].etag = 0 => log[Decisions].etag = 0
      BY <1>0, <1>2 DEF RaceReads, p
    <2>4. clobbered' = clobbered \/ (pc[r] = "history" /\ clobbered' = clobbered \cup {p})
      BY <1>1, <1>2, <1>3, <2>3
    <2>5. OneHome => clobbered' = clobbered  BY <1>1, <2>3, <2>4
    <2> QED  BY <1>2, <2>1, <2>2, <2>4, <2>5
  <1> QED  BY <1>1, <1>5, <1>8, <1>9 DEF RaceInv, RaceReads, AtMostOne

LEMMA RaceSeed ==
    ASSUME TypeInv, EarlyInv, RaceInv, ReadersKept, NEW r \in Runs, Seed(r)
    PROVE  RaceInv'
  <1>0. RaceReads /\ RaceSeeds  BY RaceParts
  <1>1. /\ pc[r] = "seed" /\ todo[r] \in SeedTails /\ todo'[r] = Tail(todo[r])
        /\ \A p \in LogPaths :
                 log'[p] = IF \/ Head(todo[r]) = "decisions" /\ p = Decisions
                              \/ Head(todo[r]) = "notifications" /\ p = Notifications
                           THEN Emptied(p, log[p]) ELSE log[p]
        /\ \A p : p \in clobbered' <=>
                 \/ p \in clobbered
                 \/ /\ log[p].etag # 0
                    /\ \/ Head(todo[r]) = "decisions" /\ p = Decisions
                       \/ Head(todo[r]) = "notifications" /\ p = Notifications
        /\ pc' = [pc EXCEPT ![r] = IF Len(todo[r]) = 1 THEN "index" ELSE "seed"]
        /\ home' = home /\ early' = early
    BY SeedFacts
  <1>2. Elsewhere(r)  BY SeedType
  <1>3. OneHome' <=> OneHome  BY <1>1 DEF OneHome
  <1>4. ASSUME NEW o \in Runs, Reading(o)'
        PROVE  /\ pc'[o] = "run history" => read'[o] = log'[PathOf(o)']
               /\ pc'[o] = "history" /\ OneHome => read'[o] = log'[PathOf(o)']
               /\ pc'[o] = "decision" /\ AtMostOne(early) /\ read'[o].etag = 0 =>
                      log'[Decisions].etag = 0
    <2>1. Reading(o) /\ read'[o] = read[o] /\ pc'[o] = pc[o] /\ PathOf(o)' = PathOf(o)
      BY <1>4 DEF ReadersKept
    <2>2. /\ PathOf(o) \in LogPaths
          /\ pc[o] = "history" => PathOf(o) \in HistoryPaths
          /\ pc[o] = "run history" => PathOf(o) = RunHistory(o)
          /\ pc[o] \notin {"open", "dead", "seed"}
      BY <2>1, PathFacts DEF Reading, Appending
    <2>3. pc[o] \in {"history", "run history"} => log'[PathOf(o)] = log[PathOf(o)]
      BY <1>1, <2>2, PathsAreLogs
    <2>4. /\ pc[o] = "run history" => read[o] = log[PathOf(o)]
          /\ pc[o] = "history" /\ OneHome => read[o] = log[PathOf(o)]
          /\ pc[o] = "decision" /\ AtMostOne(early) /\ read[o].etag = 0 =>
                  log[Decisions].etag = 0
      BY <1>0, <2>1 DEF RaceReads
    <2>5. ~(pc[o] = "decision" /\ AtMostOne(early) /\ read[o].etag = 0)
      <3> SUFFICES ASSUME pc[o] = "decision", AtMostOne(early), read[o].etag = 0
                   PROVE  FALSE
        OBVIOUS
      <3>1. log[Decisions].etag = 0  BY <2>4
      <3>2. r = o  BY <1>1, <2>2, <3>1, EarlyOnes
      <3> QED  BY <1>1, <2>2, <3>2
    <2> QED  BY <2>1, <2>3, <2>4, <2>5
  <1>5. AtMostOne(early) =>
          /\ \A o \in Runs : pc'[o] = "seed" =>
                /\ log'[Notifications].etag = 0
                /\ Head(todo'[o]) # "notifications" => log'[Decisions].etag = 0
          /\ clobbered' \subseteq HistoryPaths
          /\ OneHome => clobbered' = {}
    <2> SUFFICES ASSUME AtMostOne(early)
                 PROVE  /\ \A o \in Runs : pc'[o] = "seed" =>
                              /\ log'[Notifications].etag = 0
                              /\ Head(todo'[o]) # "notifications" => log'[Decisions].etag = 0
                        /\ clobbered' \subseteq HistoryPaths
                        /\ OneHome => clobbered' = {}
      OBVIOUS
    <2>1. /\ log[Notifications].etag = 0
          /\ Head(todo[r]) # "notifications" => log[Decisions].etag = 0
          /\ clobbered \subseteq HistoryPaths /\ (OneHome => clobbered = {})
      BY <1>0, <1>1 DEF RaceSeeds
    <2>2. /\ Head(todo[r]) \in {"team", "routing", "state", "decisions", "notifications"}
          /\ Len(todo[r]) = 1 <=> Head(todo[r]) = "notifications"
          /\ Head(todo[r]) = "decisions" => Head(Tail(todo[r])) = "notifications"
      BY <1>1, SeedTailFacts
    <2>3. \A p : p \in clobbered' <=> p \in clobbered
      BY <1>1, <2>1
    <2>4. ASSUME NEW o \in Runs, pc'[o] = "seed"
          PROVE  /\ log'[Notifications].etag = 0
                 /\ Head(todo'[o]) # "notifications" => log'[Decisions].etag = 0
      <3>1. o = r
        <4> SUFFICES ASSUME o # r PROVE FALSE
          OBVIOUS
        <4>1. pc[o] = "seed"  BY <1>2, <2>4 DEF Elsewhere
        <4> QED  BY <1>1, <2>1, <4>1, EarlyOnes
      <3>2. Head(todo[r]) # "notifications"
        <4>1. pc \in [Runs -> PC]  BY ShapeFacts DEF TypeInv
        <4> QED  BY <1>1, <2>2, <2>4, <3>1, <4>1
      <3>3. log'[Notifications] = log[Notifications]  BY <1>1, <3>2, PathsAreLogs
      <3>4. CASE Head(todo[r]) = "decisions"  BY <1>1, <2>1, <2>2, <3>1, <3>3, <3>4
      <3>5. CASE Head(todo[r]) # "decisions"
        <4>1. log'[Decisions] = log[Decisions]  BY <1>1, <3>5, PathsAreLogs
        <4> QED  BY <2>1, <3>2, <3>3, <4>1
      <3> QED  BY <3>4, <3>5
    <2> QED  BY <2>1, <2>3, <2>4
  <1> QED  BY <1>1, <1>3, <1>4, <1>5 DEF RaceInv, AtMostOne

LEMMA HomesStay ==
    ASSUME TypeInv, [Next]_vars
    PROVE  home' = home
  <1>1. ASSUME NEW r \in Runs, RecordStep(r) PROVE home' = home
    BY <1>1, RecordSteps DEF Records
  <1>2. ASSUME NEW r \in Runs, OtherStep(r) PROVE home' = home  BY <1>2, OtherFacts
  <1>3. ASSUME NEW x \in Processes, Crash(x) PROVE home' = home  BY <1>3, CrashFacts
  <1>4. CASE UNCHANGED vars  BY <1>4 DEF vars
  <1> QED  BY <1>1, <1>2, <1>3, <1>4, StepsInTwo

\* Who seeds after a step, when the logs are as they were.
LEMMA NewSeeders ==
    ASSUME TypeInv, EarlyInv, [Next]_vars, AtMostOne(early'), NEW o \in Runs, pc'[o] = "seed",
           ~\E r \in Runs : Seed(r)
    PROVE  \/ pc[o] = "seed" /\ todo'[o] = todo[o]
           \/ log[Notifications].etag = 0 /\ log[Decisions].etag = 0
  <1>0. pc \in [Runs -> PC]  BY ShapeFacts DEF TypeInv
  <1>1. ASSUME NEW r \in Runs, RecordStep(r)
        PROVE  pc[o] = "seed" /\ todo'[o] = todo[o]
    <2>1. PICK w : Records(r, w)  BY <1>1, RecordSteps
    <2>2. Elsewhere(r) /\ pc'[r] = w /\ w # "seed"
      BY <2>1, RecordsElsewhere, RecordsStage DEF Records, Recording, Appending
    <2> QED  BY <2>2 DEF Elsewhere
  <1>2. ASSUME NEW r \in Runs, OtherStep(r), ~Open(r)
        PROVE  pc[o] = "seed" /\ todo'[o] = todo[o]
    <2>1. Elsewhere(r) /\ pc'[r] # "seed"  BY <1>2, OtherFacts
    <2> QED  BY <2>1 DEF Elsewhere
  <1>3. ASSUME NEW r \in Runs, Open(r)
        PROVE  \/ pc[o] = "seed" /\ todo'[o] = todo[o]
               \/ log[Notifications].etag = 0 /\ log[Decisions].etag = 0
    <2>1. Elsewhere(r) /\ pc[r] = "open"  BY <1>3, OpenType DEF Open
    <2>2. CASE o # r  BY <2>1, <2>2 DEF Elsewhere
    <2>3. CASE o = r
      <3>1. team = Unseeded
        <4> SUFFICES ASSUME team # Unseeded PROVE FALSE
          OBVIOUS
        <4>1. pc' = [pc EXCEPT ![r] = "index"]  BY <1>3 DEF Open, Goto
        <4> QED  BY <1>0, <2>3, <4>1
      <3>2. log[Notifications].etag = 0  BY <3>1 DEF EarlyInv
      <3>3. early' = early \cup {r}  BY <1>3, <3>2 DEF Open, IfEarly
      <3>4. r \notin early  BY <2>1 DEF EarlyInv
      <3>5. early = {}  BY <3>3, <3>4 DEF AtMostOne
      <3> QED  BY <3>2, <3>5 DEF EarlyInv
    <2> QED  BY <2>2, <2>3
  <1>4. CASE (\E x \in Processes : Crash(x)) \/ UNCHANGED vars
    BY <1>4, CrashFacts DEF vars, scratch
  <1> QED  BY <1>1, <1>2, <1>3, <1>4, StepsInTwo

LEMMA RaceNext ==
    ASSUME TypeInv, QueueInv, EarlyInv, RaceInv, [Next]_vars
    PROVE  RaceInv'
  <1>1. ASSUME NEW r \in Runs, AppendPut(r) PROVE RaceInv'
    <2>1. RecordStep(r) /\ ~AppendGet(r)  BY <1>1 DEF RecordStep, AppendPut, AppendGet
    <2> QED  BY <1>1, <2>1, RecordReaders, RacePut
  <1>2. ASSUME NEW r \in Runs, Seed(r) PROVE RaceInv'
    <2>1. Elsewhere(r) /\ pc'[r] \notin Recording \ {"stage"}
      BY <1>2, OtherFacts DEF OtherStep
    <2>2. ~Reading(r)'  BY <2>1 DEF Reading, Recording, Appending
    <2> QED  BY <1>2, <2>1, <2>2, KeepReaders, RaceSeed
  <1>3. CASE ~\E r \in Runs : AppendPut(r) \/ Seed(r)
    <2>1. home' = home  BY HomesStay
    <2>2. AtMostOne(early') => \A o \in Runs : pc'[o] = "seed" =>
              \/ pc[o] = "seed" /\ todo'[o] = todo[o]
              \/ log[Notifications].etag = 0 /\ log[Decisions].etag = 0
      BY <1>3, NewSeeders
    <2>3. CASE UNCHANGED <<log, acked, clobbered>> /\ ReadersKept
      BY <2>1, <2>2, <2>3, RaceStill DEF ReadersKept
    <2>4. ASSUME NEW r \in Runs, AppendGet(r) PROVE RaceInv'
      <3>1. /\ read'[r] = log[PathOf(r)]
            /\ \A o \in Runs : o # r => read'[o] = read[o]
            /\ \A o \in Runs : pc'[o] = pc[o] /\ PathOf(o)' = PathOf(o)
            /\ UNCHANGED <<log, clobbered>>
        BY <2>4, AppendGetFacts
      <3>2. \A o \in Runs : Reading(o)' =>
              /\ pc'[o] = pc[o] /\ PathOf(o)' = PathOf(o)
              /\ \/ Reading(o) /\ read'[o] = read[o]
                 \/ read'[o] = log[PathOf(o)]
        BY <3>1 DEF Reading
      <3> QED  BY <2>1, <2>2, <3>1, <3>2, RaceStill
    <2> QED  BY <1>3, <2>3, <2>4, LogSteps
  <1> QED  BY <1>1, <1>2, <1>3

LEMMA InitRace ==
    ASSUME Init
    PROVE  RaceInv
  <1>1. \A r \in Runs : ~Reading(r) /\ pc[r] # "seed"  BY InitLog DEF Reading, Appending
  <1> QED  BY <1>1, InitLog DEF RaceInv

LEMMA HomesOfRuns == IsFiniteSet({home[r] : r \in Runs})
  <1> DEFINE T == {home[r] : r \in Runs}
             f == [r \in Runs |-> home[r]]
  <1>1. f \in Surjection(Runs, T)
    <2>1. f \in [Runs -> T]  OBVIOUS
    <2>2. \A t \in T : \E s \in Runs : f[s] = t  OBVIOUS
    <2> HIDE DEF T, f
    <2> QED  BY <2>1, <2>2, Fun_IsSurj
  <1> HIDE DEF T, f
  <1>2. IsFiniteSet(T)  BY <1>1, FiniteAssumption, FS_Surjection
  <1> QED  BY <1>2 DEF T

\* A log is replaced without a compare only when runs of different processes
\* append the first block of an agent's history, or when a run opened the
\* project before another had seeded its last file.
THEOREM ReplacedLogsNeedARace == Spec => []ClobberNeedsRace
  <1> DEFINE Inv == TypeInv /\ SeederInv /\ QueueInv /\ EtagInv /\ EarlyInv /\ RaceInv
  <1>0. Init => SeederInv  BY InitRoster
  <1>1. Init => Inv  BY <1>0, InitType, InitQueue, InitEtag, InitEarly, InitRace
  <1>2. Inv /\ [Next]_vars => Inv'
    BY NextType, SeederNext, QueueNext, EtagNext, EarlyNext, RaceNext
  <1>3. Inv => ClobberNeedsRace
    <2> SUFFICES ASSUME Inv, clobbered # {}, Cardinality(early) < 2
                 PROVE  /\ Cardinality({home[r] : r \in Runs}) > 1
                        /\ clobbered \subseteq HistoryPaths
      BY DEF ClobberNeedsRace
    <2>0. IsFiniteSet(early)  BY ShapeFacts, FiniteAssumption, FS_Subset DEF TypeInv
    <2>1. AtMostOne(early)  BY <2>0, FewerThanTwo
    <2>2. clobbered \subseteq HistoryPaths /\ ~OneHome  BY <2>1 DEF RaceInv
    <2> DEFINE T == {home[r] : r \in Runs}
    <2>3. ~AtMostOne(T)  BY <2>2 DEF AtMostOne, OneHome
    <2>4. IsFiniteSet(T)  BY HomesOfRuns
    <2> HIDE DEF T
    <2>5. ~(Cardinality(T) < 2)  BY <2>3, <2>4, FewerThanTwo
    <2>6. Cardinality(T) \in Nat  BY <2>4, FS_CardinalityType
    <2>7. Cardinality(T) > 1  BY <2>5, <2>6
    <2> QED  BY <2>2, <2>7 DEF T
  <1> QED  BY <1>1, <1>2, <1>3, PTL DEF Spec
-----------------------------------------------------------------------------
(* What the logs keep. *)

LEMMA AppendedSet ==
    ASSUME NEW S, NEW s \in Seq(S), NEW x \in S
    PROVE  ToSet(Append(s, x)) = ToSet(s) \cup {x} /\ Len(Append(s, x)) = Len(s) + 1
  <1> DEFINE t == Append(s, x)
  <1>1. /\ Len(s) \in Nat /\ Len(t) = Len(s) + 1 /\ t[Len(s) + 1] = x
        /\ \A i \in 1..Len(s) : t[i] = s[i]
        /\ DOMAIN s = 1..Len(s) /\ DOMAIN t = 1..Len(t)
    OBVIOUS
  <1> HIDE DEF t
  <1>2. \A i \in 1..Len(t) : i \in 1..Len(s) \/ i = Len(s) + 1  BY <1>1
  <1>3. 1..Len(s) \subseteq 1..Len(t) /\ Len(s) + 1 \in 1..Len(t)  BY <1>1
  <1>4. ToSet(t) = {t[i] : i \in 1..Len(t)} /\ ToSet(s) = {s[i] : i \in 1..Len(s)}
    BY <1>1 DEF ToSet
  <1>5. ToSet(t) = ToSet(s) \cup {x}  BY <1>1, <1>2, <1>3, <1>4
  <1> QED  BY <1>1, <1>5 DEF t

\* A log that is not replaced keeps its blocks, up to the size the store keeps,
\* and has the block it was just given.
LogGrows ==
    /\ clobbered \subseteq clobbered' /\ acked \subseteq acked'
    /\ \A p \in LogPaths \ clobbered' : Len(log'[p].blocks) < Capacity =>
          /\ Len(log[p].blocks) < Capacity
          /\ ToSet(log[p].blocks) \subseteq ToSet(log'[p].blocks)
          /\ \A e \in acked' : e[1] = p => e \in acked \/ e[2] \in ToSet(log'[p].blocks)

LEMMA PutGrows ==
    ASSUME TypeInv, EtagInv, NEW r \in Runs, AppendPut(r)
    PROVE  LogGrows
  <1>0. log \in [LogPaths -> LogType]  BY ShapeFacts DEF TypeInv
  <1> DEFINE p == PathOf(r)
             b == Block(r)
             v == Bounded(Append(read[r].blocks, b))
  <1>1. /\ pc[r] \in Appending /\ read[r] # Unread /\ Compares(r, p)
        /\ log' = [log EXCEPT ![p] = [etag |-> log[p].etag + 1, blocks |-> v]]
        /\ acked' = acked \cup {<<p, b>>}
        /\ clobbered' = IF read[r].etag = 0 /\ log[p].etag # 0
                        THEN clobbered \cup {p} ELSE clobbered
    BY AppendPutFacts
  <1>2. p \in LogPaths /\ Reading(r)  BY <1>1, PathFacts DEF Reading
  <1>3. b \in BlockType
    <2>1. pc[r] \in Recording  BY <1>1 DEF Recording
    <2> QED  BY <2>1, AtStage
  <1>4. p \notin clobbered' => read[r] = log[p]
    <2>1. read[r].etag \in {0, log[p].etag}  BY <1>1 DEF Compares
    <2>2. read[r].etag = log[p].etag => read[r] = log[p]  BY <1>2 DEF EtagInv
    <2> QED  BY <1>1, <2>1, <2>2
  <1> HIDE DEF p, b
  <1>5. log'[p].blocks = v /\ \A y \in LogPaths : y # p => log'[y] = log[y]
    BY <1>0, <1>1, <1>2
  <1>6. clobbered \subseteq clobbered' /\ acked \subseteq acked'
        /\ \A e \in acked' : e \in acked \/ (e[1] = p /\ e[2] = b)
    BY <1>1
  <1>7. ASSUME p \notin clobbered', Len(log'[p].blocks) < Capacity
        PROVE  /\ Len(log[p].blocks) < Capacity
               /\ ToSet(log[p].blocks) \subseteq ToSet(log'[p].blocks)
               /\ b \in ToSet(log'[p].blocks)
    <2> DEFINE s == log[p].blocks
    <2>1. s \in Seq(BlockType)  BY <1>0, <1>2 DEF LogType
    <2>2. v = Bounded(Append(s, b))  BY <1>4, <1>7
    <2>3. Append(s, b) \in Seq(BlockType)  BY <1>3, <2>1
    <2>4. v = Append(s, b)  BY <1>5, <1>7, <2>2, <2>3, BoundedFacts
    <2>5. log'[p].blocks = Append(s, b)  BY <1>5, <2>4
    <2> HIDE DEF s
    <2>6. ToSet(Append(s, b)) = ToSet(s) \cup {b} /\ Len(Append(s, b)) = Len(s) + 1
      BY <1>3, <2>1, AppendedSet
    <2>7. Len(s) \in Nat /\ Capacity \in Nat  BY <2>1, BoundsAssumption
    <2>8. Len(s) < Capacity  BY <1>7, <2>5, <2>6, <2>7
    <2> QED  BY <2>5, <2>6, <2>8 DEF s
  <1>8. ASSUME NEW y \in LogPaths \ clobbered', Len(log'[y].blocks) < Capacity
        PROVE  /\ Len(log[y].blocks) < Capacity
               /\ ToSet(log[y].blocks) \subseteq ToSet(log'[y].blocks)
               /\ \A e \in acked' : e[1] = y => e \in acked \/ e[2] \in ToSet(log'[y].blocks)
    <2>1. CASE y = p  BY <1>6, <1>7, <1>8, <2>1
    <2>2. CASE y # p
      <3>1. log'[y] = log[y]  BY <1>5, <2>2
      <3> QED  BY <1>6, <1>8, <2>2, <3>1
    <2> QED  BY <2>1, <2>2
  <1> QED  BY <1>6, <1>8 DEF LogGrows

LEMMA SeedGrows ==
    ASSUME TypeInv, EtagInv, NEW r \in Runs, Seed(r)
    PROVE  LogGrows
  <1>1. /\ \A p \in LogPaths :
                 log'[p] = IF \/ Head(todo[r]) = "decisions" /\ p = Decisions
                              \/ Head(todo[r]) = "notifications" /\ p = Notifications
                           THEN Emptied(p, log[p]) ELSE log[p]
        /\ \A p : p \in clobbered' <=>
                 \/ p \in clobbered
                 \/ /\ log[p].etag # 0
                    /\ \/ Head(todo[r]) = "decisions" /\ p = Decisions
                       \/ Head(todo[r]) = "notifications" /\ p = Notifications
        /\ acked' = acked
    BY SeedFacts
  <1>2. clobbered \subseteq clobbered'  BY <1>1
  <1>3. ASSUME NEW p \in LogPaths \ clobbered', Len(log'[p].blocks) < Capacity
        PROVE  /\ Len(log[p].blocks) < Capacity
               /\ ToSet(log[p].blocks) \subseteq ToSet(log'[p].blocks)
    <2>1. CASE log'[p] = log[p]  BY <1>3, <2>1
    <2>2. CASE log'[p] # log[p]
      <3>1. log'[p] = Emptied(p, log[p]) /\ log[p].etag = 0  BY <1>1, <2>2
      <3>2. log[p] = Absent  BY <3>1 DEF EtagInv
      <3>3. log[p].blocks = <<>> /\ log'[p].blocks = <<>>
        BY <3>1, <3>2 DEF Absent, Emptied
      <3> QED  BY <1>3, <3>3
    <2> QED  BY <2>1, <2>2
  <1> QED  BY <1>1, <1>2, <1>3 DEF LogGrows

LEMMA LogNext ==
    ASSUME TypeInv, EtagInv, [Next]_vars
    PROVE  LogGrows
  <1>1. ASSUME UNCHANGED <<log, acked, clobbered>> PROVE LogGrows
    BY <1>1 DEF LogGrows
  <1>2. ASSUME NEW r \in Runs, AppendGet(r) PROVE LogGrows  BY <1>1, <1>2, AppendGetFacts
  <1> QED  BY <1>1, <1>2, PutGrows, SeedGrows, LogSteps
-----------------------------------------------------------------------------
(* What is stored with a block. *)

LEMMA KeptGives == KeptInv => AppendsKept
  <1> SUFFICES ASSUME KeptInv PROVE AppendsKept
    OBVIOUS
  <1>1. \A p \in LogPaths \ clobbered :
           Len(log[p].blocks) < Capacity =>
              \A e \in acked : e[1] = p => e[2] \in Blocks(p)
    BY DEF KeptInv, LogsKept, Blocks
  <1>2. ASSUME NEW e \in acked, e[2].deliverable
        PROVE  \E a \in artifacts :
                  /\ a.file = RootOf[e[2].role] /\ a.run = e[2].run /\ a.stage >= e[2].stage
                  /\ LET role == Stages[a.run][a.stage]
                     IN  role \in DeliverableRoles /\ RootOf[role] = a.file
    <2>1. e[2].role \in DeliverableRoles /\ Stored(RootOf[e[2].role], e[2].run, e[2].stage)
      BY <1>2 DEF KeptInv, NamedStored
    <2>2. PICK a \in artifacts :
             a.file = RootOf[e[2].role] /\ a.run = e[2].run /\ a.stage >= e[2].stage
      BY <2>1 DEF Stored
    <2>3. a.file \notin Beside  BY <2>1, <2>2, NamesAssumption DEF DeliverableRoles, Beside
    <2>4. Rooted(a.file, Stages[a.run][a.stage])  BY <2>3 DEF KeptInv, FilesFit
    <2> QED  BY <2>2, <2>4 DEF Rooted
  <1>3. \A a \in artifacts : a.file = "deck" =>
           \E y \in artifacts : y.file = "deck yaml" /\ y.run = a.run /\ y.stage >= a.stage
    BY DEF KeptInv, DecksStored, Stored
  <1> QED  BY <1>1, <1>2, <1>3 DEF AppendsKept

LEMMA LogsKeptNext ==
    ASSUME TypeInv, EtagInv, LogsKept, [Next]_vars
    PROVE  LogsKept'
  <1> SUFFICES ASSUME NEW p \in LogPaths \ clobbered', Len(log'[p].blocks) < Capacity,
                      NEW e \in acked', e[1] = p
               PROVE  e[2] \in ToSet(log'[p].blocks)
    BY DEF LogsKept
  <1>1. /\ clobbered \subseteq clobbered' /\ Len(log[p].blocks) < Capacity
        /\ ToSet(log[p].blocks) \subseteq ToSet(log'[p].blocks)
        /\ e \in acked \/ e[2] \in ToSet(log'[p].blocks)
    BY LogNext DEF LogGrows
  <1>2. e \in acked => e[2] \in ToSet(log[p].blocks)  BY <1>1 DEF LogsKept
  <1> QED  BY <1>1, <1>2

LEMMA ArtifactWriters ==
    ASSUME TypeInv, [Next]_vars
    PROVE  artifacts' = artifacts \/ \E r \in Runs : CompleteStage(r) \/ FinishPut(r)
  <1> DEFINE Stores(r) == CompleteStage(r) \/ FinishPut(r)
  <1> SUFFICES ASSUME \A r \in Runs : ~Stores(r) PROVE artifacts' = artifacts
    OBVIOUS
  <1>1. ASSUME NEW r \in Runs, RecordStep(r) PROVE artifacts' = artifacts
    BY <1>1, AppendPutFacts, RecordingFailsFacts
       DEF RecordStep, AppendGet, AppendConflict, NothingToFinish, tree
  <1> HIDE DEF Stores
  <1>2. ASSUME NEW r \in Runs, OtherStep(r) PROVE artifacts' = artifacts
    BY <1>2, OtherFacts
  <1>3. ASSUME NEW x \in Processes, Crash(x) PROVE artifacts' = artifacts
    BY <1>3, CrashFacts DEF tree
  <1>4. CASE UNCHANGED vars  BY <1>4 DEF vars, tree
  <1> QED  BY <1>1, <1>2, <1>3, <1>4, StepsInTwo

\* Which file a step writes, and for which role.
Writes(r, file) ==
    /\ pc[r] \in Recording /\ artifacts' = Replaced(file, r)
    /\ file \in Beside \/ Rooted(file, Role(r))
    /\ file = "deck" => Written("deck yaml", r) \in artifacts

LEMMA ArtifactSteps ==
    ASSUME TypeInv, [Next]_vars
    PROVE  artifacts' = artifacts \/ \E r \in Runs : \E file : Writes(r, file)
  <1>1. ASSUME NEW r \in Runs, CompleteStage(r)
        PROVE  artifacts' = artifacts \/ Writes(r, Deliverable(r))
    <2>1. pc[r] \in Recording /\ artifacts' = WriteDeliverable(r)
      BY <1>1 DEF CompleteStage, Recording
    <2>2. Role(r) \in DeliverableRoles => Deliverable(r) # "deck"
      BY NamesAssumption DEF DeliverableRoles, Deliverable
    <2> QED  BY <2>1, <2>2 DEF WriteDeliverable, Writes, Rooted, Deliverable
  <1>2. ASSUME NEW r \in Runs, FinishPut(r)
        PROVE  Writes(r, Head(todo[r]))
    <2>1. pc[r] = "finish" /\ artifacts' = Replaced(Head(todo[r]), r)
      BY <1>2 DEF FinishPut
    <2>2. \/ todo[r] = Finishing(Role(r)) /\ todo[r] # <<>>
          \/ todo[r] = <<"deck">> /\ Written("deck yaml", r) \in artifacts
      BY <2>1 DEF TypeInv, PlaceInv, PlaceAt
    <2>3. \/ todo[r] = <<"deck yaml", "deck">> \/ todo[r] = <<"backlog">>
          \/ todo[r] = <<"deck">> /\ Written("deck yaml", r) \in artifacts
      BY <2>2, FinishingFacts
    <2>4. /\ Head(<<"deck yaml", "deck">>) = "deck yaml" /\ Head(<<"backlog">>) = "backlog"
          /\ Head(<<"deck">>) = "deck"
      BY ShortTails
    <2>5. \/ Head(todo[r]) = "deck yaml" \/ Head(todo[r]) = "backlog"
          \/ Head(todo[r]) = "deck" /\ Written("deck yaml", r) \in artifacts
      BY <2>3, <2>4
    <2> QED  BY <2>1, <2>5 DEF Writes, Beside, Recording
  <1> QED  BY <1>1, <1>2, ArtifactWriters

LEMMA StagesGrow ==
    ASSUME TypeInv, [Next]_vars, NEW o \in Runs
    PROVE  stage[o] \in Nat /\ stage'[o] \in Nat /\ stage[o] <= stage'[o]
  <1>0. stage[o] \in Nat  BY ShapeFacts DEF TypeInv
  <1>1. ASSUME NEW r \in Runs, RecordStep(r) PROVE stage'[o] \in {stage[o], stage[o] + 1}
    <2>1. PICK w : Records(r, w)  BY <1>1, RecordSteps
    <2>2. Elsewhere(r) /\ stage'[r] \in {stage[r], stage[r] + 1}
      BY <2>1, RecordsElsewhere, RecordsStage
    <2> QED  BY <2>2 DEF Elsewhere
  <1>2. ASSUME NEW r \in Runs, OtherStep(r) PROVE stage' = stage  BY <1>2, OtherFacts
  <1>3. ASSUME NEW x \in Processes, Crash(x) PROVE stage' = stage  BY <1>3, CrashFacts
  <1>4. ASSUME UNCHANGED vars PROVE stage' = stage  BY <1>4 DEF vars
  <1>5. stage'[o] \in {stage[o], stage[o] + 1}
    BY <1>1, <1>2, <1>3, <1>4, StepsInTwo
  <1> QED  BY <1>0, <1>5

\* The record a write leaves, and those it does not touch.
LEMMA ReplacedFacts ==
    ASSUME NEW r, NEW file, artifacts' = Replaced(file, r)
    PROVE  /\ Written(file, r) \in artifacts'
           /\ \A a \in artifacts' : a \in artifacts \/ a = Written(file, r)
           /\ \A a \in artifacts : a \in artifacts' \/ (a.file = file /\ a.run = r)
           /\ Written(file, r).file = file /\ Written(file, r).run = r
           /\ Written(file, r).stage = stage[r]
  BY DEF Replaced, Written

\* A file is replaced by one of the same run, of a stage no earlier.
LEMMA FilesGrow ==
    ASSUME TypeInv, FilesFit, [Next]_vars, NEW file, NEW r, NEW s \in Nat, Stored(file, r, s)
    PROVE  Stored(file, r, s)'
  <1>1. PICK a \in artifacts : a.file = file /\ a.run = r /\ a.stage >= s  BY DEF Stored
  <1>2. a.stage \in Nat /\ a.stage <= stage[r]  BY <1>1 DEF FilesFit
  <1>3. CASE a \in artifacts'  BY <1>1, <1>3 DEF Stored
  <1>4. CASE a \notin artifacts'
    <2>1. PICK o \in Runs : \E f : Writes(o, f)  BY <1>4, ArtifactSteps
    <2>2. PICK f : Writes(o, f)  BY <2>1
    <2>3. f = file /\ o = r /\ Written(f, o) \in artifacts' /\ Written(f, o).file = file
          /\ Written(f, o).run = r /\ Written(f, o).stage = stage[r]
      BY <1>1, <1>4, <2>2, ReplacedFacts DEF Writes
    <2>4. stage[r] \in Nat  BY <2>3, StagesGrow
    <2>5. stage[r] >= s  BY <1>1, <1>2, <2>4
    <2> QED  BY <2>3, <2>5 DEF Stored
  <1> QED  BY <1>3, <1>4

LEMMA FilesFitNext ==
    ASSUME TypeInv, FilesFit, [Next]_vars
    PROVE  FilesFit'
  <1> SUFFICES ASSUME NEW a \in artifacts'
               PROVE  /\ a.stage \in Nat /\ a.stage <= stage'[a.run]
                      /\ a.file \in Beside \/ Rooted(a.file, Stages[a.run][a.stage])
    BY DEF FilesFit
  <1>1. CASE a \in artifacts
    <2>1. a.run \in Runs  BY <1>1, ShapeFacts DEF TypeInv
    <2>2. /\ a.stage \in Nat /\ a.stage <= stage[a.run]
          /\ a.file \in Beside \/ Rooted(a.file, Stages[a.run][a.stage])
      BY <1>1 DEF FilesFit
    <2>3. stage[a.run] \in Nat /\ stage'[a.run] \in Nat /\ stage[a.run] <= stage'[a.run]
      BY <2>1, StagesGrow
    <2> QED  BY <2>2, <2>3
  <1>2. CASE a \notin artifacts
    <2>1. PICK r \in Runs : \E f : Writes(r, f)  BY <1>2, ArtifactSteps
    <2>2. PICK f : Writes(r, f)  BY <2>1
    <2>3. a.file = f /\ a.run = r /\ a.stage = stage[r]
      BY <1>2, <2>2, ReplacedFacts DEF Writes
    <2>4. f \in Beside \/ Rooted(f, Stages[r][stage[r]])  BY <2>2 DEF Writes, Role
    <2>5. stage[r] \in Nat /\ stage[r] <= stage'[r]  BY StagesGrow
    <2> QED  BY <2>3, <2>4, <2>5
  <1> QED  BY <1>1, <1>2

LEMMA DecksStoredNext ==
    ASSUME TypeInv, FilesFit, DecksStored, [Next]_vars
    PROVE  DecksStored'
  <1> SUFFICES ASSUME NEW a \in artifacts', a.file = "deck"
               PROVE  Stored("deck yaml", a.run, a.stage)'
    BY DEF DecksStored
  <1>1. CASE a \in artifacts
    <2>1. a.stage \in Nat  BY <1>1 DEF FilesFit
    <2>2. Stored("deck yaml", a.run, a.stage)  BY <1>1 DEF DecksStored
    <2> QED  BY <2>1, <2>2, FilesGrow
  <1>2. CASE a \notin artifacts
    <2>1. PICK r \in Runs : \E f : Writes(r, f)  BY <1>2, ArtifactSteps
    <2>2. PICK f : Writes(r, f)  BY <2>1
    <2>a. artifacts' = Replaced(f, r)  BY <2>2 DEF Writes
    <2>b. a = Written(f, r)  BY <1>2, <2>a, ReplacedFacts
    <2>3. a.file = f /\ a.run = r /\ a.stage = stage[r]  BY <2>b DEF Written
    <2>4. Written("deck yaml", r) \in artifacts  BY <2>2, <2>3 DEF Writes
    <2>5. stage[r] \in Nat  BY StagesGrow
    <2>c. /\ Written("deck yaml", r).file = "deck yaml" /\ Written("deck yaml", r).run = r
          /\ Written("deck yaml", r).stage = stage[r]
      BY DEF Written
    <2>d. stage[r] >= stage[r]  BY <2>5
    <2>6. Stored("deck yaml", r, stage[r])  BY <2>4, <2>c, <2>d DEF Stored
    <2>7. ASSUME NEW s \in Nat, Stored("deck yaml", r, s) PROVE Stored("deck yaml", r, s)'
      BY <2>7, FilesGrow
    <2> QED  BY <2>3, <2>5, <2>6, <2>7
  <1> QED  BY <1>1, <1>2

LEMMA HistoryStoredNext ==
    ASSUME TypeInv, FilesFit, HistoryStored, [Next]_vars
    PROVE  HistoryStored'
  <1>a. pc \in [Runs -> PC] /\ stage \in [Runs -> Nat]  BY ShapeFacts DEF TypeInv
  <1>b. ASSUME NEW o \in Runs, pc'[o] = pc[o] \/ (pc[o] = "history" /\ pc'[o] = "run history"),
               stage'[o] = stage[o]
        PROVE  pc'[o] \in {"history", "run history"} /\ Role(o)' \in DeliverableRoles =>
                  Stored(RootOf[Role(o)], o, stage[o])'
    <2>1. Role(o)' = Role(o) /\ stage[o] \in Nat  BY <1>a, <1>b DEF Role
    <2>2. ASSUME NEW file, NEW s \in Nat, Stored(file, o, s) PROVE Stored(file, o, s)'
      BY <2>2, FilesGrow
    <2>3. pc'[o] \in {"history", "run history"} /\ Role(o)' \in DeliverableRoles =>
             Stored(RootOf[Role(o)], o, stage[o])
      BY <1>b, <2>1 DEF HistoryStored
    <2>4. pc'[o] \in {"history", "run history"} /\ Role(o)' \in DeliverableRoles =>
             \E a \in artifacts' : a.file = RootOf[Role(o)] /\ a.run = o /\ a.stage >= stage[o]
      BY <2>1, <2>2, <2>3 DEF Stored
    <2>5. Stored(RootOf[Role(o)], o, stage[o])' <=>
             \E a \in artifacts' : a.file = RootOf[Role(o)'] /\ a.run = o /\ a.stage >= stage'[o]
      BY DEF Stored
    <2> QED  BY <1>b, <2>1, <2>4, <2>5
  <1>1. ASSUME NEW r \in Runs, Elsewhere(r),
               pc'[r] \in {"history", "run history"} /\ Role(r)' \in DeliverableRoles =>
                  Stored(RootOf[Role(r)], r, stage[r])'
        PROVE  HistoryStored'
    <2>1. ASSUME NEW o \in Runs, o # r
          PROVE  pc'[o] = pc[o] /\ stage'[o] = stage[o]
      BY <1>1, <2>1 DEF Elsewhere
    <2> QED  BY <1>1, <1>b, <2>1 DEF HistoryStored
  <1>2. ASSUME NEW r \in Runs, RecordStep(r) PROVE HistoryStored'
    <2>1. PICK w : Records(r, w)  BY <1>2, RecordSteps
    <2>2. Elsewhere(r) /\ pc'[r] = w  BY <2>1, RecordsElsewhere, RecordsStage
    <2>3. w \notin {"stage", "close"} => Role(r)' = Role(r) /\ stage'[r] = stage[r]
      BY <2>1, RecordsStage
    <2>4. CASE w \notin {"history", "run history"}  BY <1>1, <2>2, <2>4
    <2>5. CASE w \in {"history", "run history"}
      <3>1. Role(r)' = Role(r) /\ stage'[r] = stage[r] /\ stage[r] \in Nat
        BY <1>a, <2>3, <2>5
      <3>2. CASE CompleteStage(r)
        <4>1. artifacts' = WriteDeliverable(r)  BY <3>2 DEF CompleteStage
        <4>2. Role(r) \in DeliverableRoles => Written(RootOf[Role(r)], r) \in artifacts'
          BY <4>1 DEF WriteDeliverable, Deliverable, Replaced, Written
        <4>3. Role(r)' \in DeliverableRoles => Stored(RootOf[Role(r)], r, stage[r])'
          BY <3>1, <4>2 DEF Stored, Written
        <4> QED  BY <1>1, <2>2, <4>3
      <3>3. CASE AppendPut(r)
        <4>1. pc[r] = "history" \/ pc'[r] = pc[r]
          <5>1. PICK v \in {"run history", "finish", "decision", "stage", "close"} :
                  pc' = [pc EXCEPT ![r] = v] /\ (v = "run history" => pc[r] = "history")
            BY <3>3, AppendPutFacts
          <5> QED  BY <1>a, <2>2, <2>5, <5>1
        <4>2. pc'[r] = pc[r] \/ (pc[r] = "history" /\ pc'[r] = "run history")
          BY <2>2, <2>5, <4>1
        <4> QED  BY <1>1, <1>b, <2>2, <3>1, <4>2
      <3>4. CASE ~CompleteStage(r) /\ ~AppendPut(r)
        <4>1. CASE AppendGet(r)
          <5>1. pc'[r] = pc[r]  BY <4>1, AppendGetFacts
          <5> QED  BY <1>1, <1>b, <2>2, <3>1, <5>1
        <4>2. CASE pc' = pc  BY <1>1, <1>b, <2>2, <3>1, <4>2
        <4>3. CASE Swallow(r) /\ pc[r] \in Recording
          <5>1. PICK v \in {"decision", "stage", "close"} : pc' = [pc EXCEPT ![r] = v]
            BY <4>3, SwallowFacts
          <5> QED  BY <1>a, <2>2, <2>5, <5>1
        <4>4. CASE AfterRecord(r, queue) /\ pc[r] = "finish"
          <5>1. pc[r] \in Recording  BY <4>4 DEF Recording
          <5>2. PICK v \in {"decision", "stage", "close"} : pc' = [pc EXCEPT ![r] = v]
            BY <4>4, <5>1, AfterRecordFacts
          <5> QED  BY <1>a, <2>2, <2>5, <5>2
        <4>5. \/ AppendGet(r) \/ pc' = pc \/ (Swallow(r) /\ pc[r] \in Recording)
              \/ (AfterRecord(r, queue) /\ pc[r] = "finish")
          BY <1>2, <3>4, RecordingFailsFacts
             DEF RecordStep, AppendConflict, FinishPut, NothingToFinish, Recording
        <4> QED  BY <4>1, <4>2, <4>3, <4>4, <4>5
      <3> QED  BY <3>2, <3>3, <3>4
    <2> QED  BY <2>4, <2>5
  <1>3. ASSUME NEW r \in Runs, OtherStep(r) PROVE HistoryStored'
    <2>1. Elsewhere(r) /\ pc'[r] \notin Recording \ {"stage"}  BY <1>3, OtherFacts
    <2>2. pc'[r] \notin {"history", "run history"}  BY <2>1 DEF Recording, Appending
    <2> QED  BY <1>1, <2>1, <2>2
  <1>4. CASE (\E x \in Processes : Crash(x)) \/ UNCHANGED vars
    <2>1. /\ \A o \in Runs : pc'[o] # "dead" => pc'[o] = pc[o]
          /\ stage' = stage
      BY <1>4, CrashFacts DEF vars
    <2> QED  BY <1>b, <2>1 DEF HistoryStored
  <1> QED  BY <1>2, <1>3, <1>4, StepsInTwo

LEMMA NamedStoredNext ==
    ASSUME TypeInv, FilesFit, NamedStored, HistoryStored, [Next]_vars
    PROVE  NamedStored'
  <1>0. ASSUME NEW e \in acked, e[2].deliverable
        PROVE  /\ e[2].role \in DeliverableRoles
               /\ Stored(RootOf[e[2].role], e[2].run, e[2].stage)'
    <2>1. e[2].stage \in Nat  BY ShapeFacts DEF TypeInv, Acks, BlockType
    <2>2. /\ e[2].role \in DeliverableRoles
          /\ Stored(RootOf[e[2].role], e[2].run, e[2].stage)
      BY <1>0 DEF NamedStored
    <2> QED  BY <2>1, <2>2, FilesGrow
  <1>1. ASSUME acked' = acked PROVE NamedStored'  BY <1>0, <1>1 DEF NamedStored
  <1>2. ASSUME NEW r \in Runs, AppendPut(r) PROVE NamedStored'
    <2>1. pc[r] \in Appending /\ acked' = acked \cup {<<PathOf(r), Block(r)>>}
      BY <1>2, AppendPutFacts
    <2> DEFINE b == Block(r)
    <2>2. /\ b.run = r /\ b.role = Role(r) /\ (b.deliverable <=> Role(r) \in DeliverableRoles)
          /\ b.stage = stage[r]
      BY DEF Block
    <2>3. pc[r] = "decision" => Role(r) \in Deciding  BY DEF TypeInv, PlaceInv, PlaceAt
    <2>4. Role(r) \in DeliverableRoles => pc[r] # "decision"
      BY <2>3, NamesAssumption DEF DeliverableRoles
    <2>5. Role(r) \in DeliverableRoles => Stored(RootOf[Role(r)], r, stage[r])
      BY <2>1, <2>4 DEF HistoryStored, Appending
    <2>6. b.deliverable => /\ b.role \in DeliverableRoles
                           /\ Stored(RootOf[b.role], b.run, b.stage)
      BY <2>2, <2>5
    <2>7. b.deliverable =>
             /\ b.role \in DeliverableRoles
             /\ \E a \in artifacts' :
                   a.file = RootOf[b.role] /\ a.run = b.run /\ a.stage >= b.stage
      <3>1. ASSUME NEW file, NEW n \in Nat, Stored(file, r, n) PROVE Stored(file, r, n)'
        BY <3>1, FilesGrow
      <3>2. stage[r] \in Nat  BY StagesGrow
      <3>3. Stored(RootOf[Role(r)], r, stage[r]) =>
               \E a \in artifacts' :
                  a.file = RootOf[Role(r)] /\ a.run = r /\ a.stage >= stage[r]
        BY <3>1, <3>2 DEF Stored
      <3> QED  BY <2>2, <2>5, <2>6, <3>3
    <2> HIDE DEF b
    <2>8. ASSUME NEW e \in acked', e[2].deliverable
          PROVE  /\ e[2].role \in DeliverableRoles
                 /\ Stored(RootOf[e[2].role], e[2].run, e[2].stage)'
      <3>1. CASE e \in acked  BY <1>0, <2>8, <3>1
      <3>2. CASE e \notin acked
        <4>1. e = <<PathOf(r), b>>  BY <2>1, <2>8, <3>2 DEF b
        <4>2. e[2] = b  BY <4>1
        <4> QED  BY <2>7, <2>8, <4>2 DEF Stored
      <3> QED  BY <3>1, <3>2
    <2> QED  BY <2>8 DEF NamedStored
  <1>3. ASSUME NEW r \in Runs, Seed(r) PROVE acked' = acked  BY <1>3, LogMoves
  <1>4. ASSUME NEW r \in Runs, AppendGet(r) PROVE acked' = acked  BY <1>4, AppendGetFacts
  <1> QED  BY <1>1, <1>2, <1>3, <1>4, LogSteps

LEMMA KeptNext ==
    ASSUME TypeInv, EtagInv, KeptInv, [Next]_vars
    PROVE  KeptInv'
  <1>1. LogsKept /\ FilesFit /\ NamedStored /\ DecksStored /\ HistoryStored  BY DEF KeptInv
  <1>2. LogsKept' /\ FilesFit' /\ NamedStored' /\ DecksStored' /\ HistoryStored'
    BY <1>1, LogsKeptNext, FilesFitNext, NamedStoredNext, DecksStoredNext, HistoryStoredNext
  <1> QED  BY <1>2 DEF KeptInv

LEMMA InitKept ==
    ASSUME Init
    PROVE  KeptInv
  <1>1. artifacts = {}  BY DEF Init
  <1>2. \A r \in Runs : pc[r] \notin {"history", "run history"}  BY InitLog
  <1> QED
    BY <1>1, <1>2, InitLog
       DEF KeptInv, LogsKept, FilesFit, NamedStored, HistoryStored, DecksStored

\* An append that resolved stays in its log, and what its block names is
\* stored, whatever is appended, failed, retried or crashed after it.
THEOREM AcknowledgedAppendsAreKept == Spec => []AppendsKept
  <1> DEFINE Inv == TypeInv /\ EtagInv /\ KeptInv
  <1>1. Init => Inv  BY InitType, InitEtag, InitKept
  <1>2. Inv /\ [Next]_vars => Inv'  BY NextType, EtagNext, KeptNext
  <1>3. Inv => AppendsKept  BY KeptGives
  <1> QED  BY <1>1, <1>2, <1>3, PTL DEF Spec
-----------------------------------------------------------------------------
(* What a rebuild accounts for. *)

\* A run is in its rebuild since it listed the histories.
LEMMA RebuildSteps ==
    ASSUME TypeInv, [Next]_vars, NEW r \in Runs, pc'[r] = "rebuild"
    PROVE  \/ ListHistory(r) \/ ReadHistory(r)
           \/ /\ pc[r] = "rebuild" /\ due'[r] = due[r] /\ totals'[r] = totals[r]
              /\ todo'[r] = todo[r]
  <1>0. /\ pc \in [Runs -> PC] /\ due \in [Runs -> SUBSET Acks]
        /\ totals \in [Runs -> SUBSET BlockType]
    BY ShapeFacts DEF TypeInv
  <1>1. ASSUME NEW o \in Runs, RecordStep(o)
        PROVE  pc[r] = "rebuild" /\ due'[r] = due[r] /\ totals'[r] = totals[r] /\ todo'[r] = todo[r]
    <2>1. PICK w : Records(o, w)  BY <1>1, RecordSteps
    <2>2. Elsewhere(o) /\ pc'[o] = w /\ w # "rebuild" /\ due' = due /\ totals' = totals
      BY <2>1, RecordsElsewhere, RecordsStage DEF Records, Recording, Appending
    <2> QED  BY <2>2 DEF Elsewhere
  <1>2. ASSUME NEW o \in Runs, OtherStep(o), ~ListHistory(o), ~ReadHistory(o)
        PROVE  pc[r] = "rebuild" /\ due'[r] = due[r] /\ totals'[r] = totals[r] /\ todo'[r] = todo[r]
    <2>1. Elsewhere(o)  BY <1>2, OtherFacts
    <2>2. due' = due /\ totals' = totals
      BY <1>2, SeedFacts, OpeningFailsFacts, ClosingFailsFacts
         DEF OtherStep, Open, Index, ReadTurn, MergeState, PutState, PutConsumption, scratch, ghosts
    <2>3. pc'[o] # "rebuild"
      <3>1. \/ \E w \in {"seed", "index", "stage", "close", "update", "put state", "list", "done"} :
                  pc' = [pc EXCEPT ![o] = w]
        BY <1>2, SeedFacts, OpeningFailsFacts, ClosingFailsFacts
           DEF OtherStep, Open, Index, ReadTurn, MergeState, PutState, PutConsumption, Goto,
               FirstStage
      <3> QED  BY <1>0, <3>1
    <2> QED  BY <2>1, <2>2, <2>3 DEF Elsewhere
  <1>3. ASSUME NEW o \in Runs, ListHistory(o) \/ ReadHistory(o), o # r
        PROVE  pc[r] = "rebuild" /\ due'[r] = due[r] /\ totals'[r] = totals[r] /\ todo'[r] = todo[r]
    <2>1. Elsewhere(o)  BY <1>3, ListHistoryType, ReadHistoryType
    <2>2. /\ due' = due \/ due' = [due EXCEPT ![o] = acked]
          /\ \E t : totals' = [totals EXCEPT ![o] = t]
      BY <1>3 DEF ListHistory, ReadHistory, ghosts
    <2> QED  BY <1>0, <1>3, <2>1, <2>2 DEF Elsewhere
  <1>4. CASE (\E x \in Processes : Crash(x)) \/ UNCHANGED vars
    BY <1>4, CrashFacts DEF vars, scratch, ghosts
  <1>5. ASSUME NEW o \in Runs, OtherStep(o)
        PROVE  \/ ListHistory(r) \/ ReadHistory(r)
               \/ /\ pc[r] = "rebuild" /\ due'[r] = due[r] /\ totals'[r] = totals[r]
                  /\ todo'[r] = todo[r]
    <2>1. CASE o = r  BY <1>2, <1>5, <2>1
    <2>2. CASE o # r  BY <1>2, <1>3, <1>5, <2>2
    <2> QED  BY <2>1, <2>2
  <1> QED  BY <1>1, <1>4, <1>5, StepsInTwo

LEMMA OwedNext ==
    ASSUME TypeInv, EtagInv, KeptInv, RebuildInv, [Next]_vars, NEW r \in Runs,
           pc'[r] = "rebuild"
    PROVE  /\ due'[r] \subseteq acked'
           /\ \A e \in due'[r] :
                 e[1] \in HistoryPaths \ clobbered' /\ Len(log'[e[1]].blocks) < Capacity =>
                    e[2] \in totals'[r] \/ e[1] \in ToSet(todo'[r])
  <1>0. /\ due \in [Runs -> SUBSET Acks] /\ totals \in [Runs -> SUBSET BlockType]
    BY ShapeFacts DEF TypeInv
  <1>1. CASE ListHistory(r)
    <2>1. /\ due' = [due EXCEPT ![r] = acked] /\ acked' = acked
          /\ clobbered' = clobbered
      BY <1>1 DEF ListHistory
    <2>2. due'[r] = acked  BY <1>0, <2>1
    <2>3. ToSet(todo'[r]) = {p \in HistoryPaths : log[p].etag # 0}  BY <1>1, ListHistoryType
    <2>4. \A e \in acked : log[e[1]].etag # 0  BY DEF EtagInv
    <2> QED  BY <2>1, <2>2, <2>3, <2>4
  <1>2. ASSUME pc[r] = "rebuild", due'[r] = due[r], NEW e \in due[r],
               e[1] \in HistoryPaths \ clobbered', Len(log'[e[1]].blocks) < Capacity
        PROVE  /\ e \in acked /\ (e[2] \in totals[r] \/ e[1] \in ToSet(todo[r]))
               /\ e[2] \in Blocks(e[1])
    <2>1. e[1] \in LogPaths \ clobbered'  BY <1>2, PathsAreLogs
    <2>2. e[1] \notin clobbered /\ Len(log[e[1]].blocks) < Capacity
      BY <1>2, <2>1, LogNext DEF LogGrows
    <2>3. e \in acked /\ (e[2] \in totals[r] \/ e[1] \in ToSet(todo[r]))
      BY <1>2, <2>2 DEF RebuildInv
    <2>4. e[2] \in Blocks(e[1])  BY <2>1, <2>2, <2>3 DEF KeptInv, LogsKept, Blocks
    <2> QED  BY <2>3, <2>4
  <1>3. CASE ReadHistory(r)
    <2>1. /\ pc[r] = "rebuild" /\ due' = due /\ acked' = acked
      BY <1>3 DEF ReadHistory, ghosts
    <2>2. /\ totals'[r] = totals[r] \cup Blocks(Head(todo[r]))
          /\ \A p \in ToSet(todo[r]) : p = Head(todo[r]) \/ p \in ToSet(todo'[r])
      BY <1>3, ReadHistoryType
    <2>3. due[r] \subseteq acked  BY <2>1 DEF RebuildInv
    <2> QED  BY <1>2, <2>1, <2>2, <2>3
  <1>4. CASE /\ pc[r] = "rebuild" /\ due'[r] = due[r] /\ totals'[r] = totals[r]
             /\ todo'[r] = todo[r]
    <2>1. due[r] \subseteq acked  BY <1>4 DEF RebuildInv
    <2>2. acked \subseteq acked'  BY LogNext DEF LogGrows
    <2> QED  BY <1>2, <1>4, <2>1, <2>2
  <1> QED  BY <1>1, <1>3, <1>4, RebuildSteps

LEMMA RebuildNext ==
    ASSUME TypeInv, EtagInv, KeptInv, RebuildInv, [Next]_vars
    PROVE  RebuildInv'
  BY OwedNext DEF RebuildInv

LEMMA InitRebuild ==
    ASSUME Init
    PROVE  RebuildInv
  <1>1. \A r \in Runs : pc[r] # "rebuild"  BY InitLog
  <1> QED  BY <1>1 DEF RebuildInv

\* A rebuild that ends without a fault writes its totals, and has read all.
LEMMA RebuildEnds ==
    ASSUME TypeInv, [Next]_vars, NEW r \in Runs, pc[r] = "rebuild", pc'[r] = "done",
           faults' = faults
    PROVE  consumption' = totals[r] /\ todo[r] = <<>>
  <1>0. pc \in [Runs -> PC] /\ faults \in Nat
    <2>1. MaxFaults \in Nat  BY BoundsAssumption
    <2> QED  BY <2>1, ShapeFacts DEF TypeInv
  <1>1. faults' # faults + 1  BY <1>0
  <1>2. ASSUME NEW o \in Runs, RecordStep(o) PROVE FALSE
    <2>1. PICK w : Records(o, w)  BY <1>2, RecordSteps
    <2>2. Elsewhere(o) /\ pc[o] # "rebuild"
      BY <2>1, RecordsElsewhere DEF Records, Recording, Appending
    <2> QED  BY <2>2 DEF Elsewhere
  <1>3. ASSUME NEW o \in Runs, OtherStep(o) PROVE PutConsumption(r)
    <2>1. o = r  BY <1>3, OtherFacts DEF Elsewhere
    <2>2. ~OpeningFails(r) /\ ~ClosingFails(r)
      BY <1>1, OpeningFailsFacts, ClosingFailsFacts
    <2>3. ~ReadHistory(r)  BY DEF ReadHistory
    <2> QED
      BY <1>3, <2>1, <2>2, <2>3
         DEF OtherStep, Open, Seed, Index, ReadTurn, MergeState, PutState, ListHistory
  <1>4. ASSUME NEW x \in Processes, Crash(x) PROVE FALSE  BY <1>1, <1>4, CrashFacts
  <1>5. ~UNCHANGED vars  BY DEF vars
  <1>6. PutConsumption(r)  BY <1>2, <1>3, <1>4, <1>5, StepsInTwo
  <1> QED  BY <1>6 DEF PutConsumption

\* The consumption a run writes accounts for every dispatch an agent's history
\* held, or was to hold, when the run listed the histories.
THEOREM ConsumptionIsComplete == Spec => ConsumptionCoversRecorded
  <1> DEFINE Inv == TypeInv /\ EtagInv /\ KeptInv /\ RebuildInv
             Covers == \A r \in Runs :
                pc[r] = "rebuild" /\ pc'[r] = "done" /\ faults' = faults =>
                   \A e \in due[r] :
                      e[1] \in HistoryPaths \ clobbered /\ Len(log[e[1]].blocks) < Capacity =>
                         e[2] \in consumption'
  <1>1. Init => Inv  BY InitType, InitEtag, InitKept, InitRebuild
  <1>2. Inv /\ [Next]_vars => Inv'  BY NextType, EtagNext, KeptNext, RebuildNext
  <1>3. Inv /\ [Next]_vars => Covers
    <2> SUFFICES ASSUME Inv, [Next]_vars, NEW r \in Runs, pc[r] = "rebuild", pc'[r] = "done",
                        faults' = faults, NEW e \in due[r],
                        e[1] \in HistoryPaths \ clobbered, Len(log[e[1]].blocks) < Capacity
                 PROVE  e[2] \in consumption'
      OBVIOUS
    <2>1. consumption' = totals[r] /\ todo[r] = <<>>  BY RebuildEnds
    <2>2. e[2] \in totals[r] \/ e[1] \in ToSet(todo[r])  BY DEF RebuildInv
    <2>3. ToSet(<<>>) = {}  BY DEF ToSet
    <2> QED  BY <2>1, <2>2, <2>3
  <1>4. Inv /\ [Next]_vars => [Covers]_vars  BY <1>3
  <1> QED  BY <1>1, <1>2, <1>4, PTL DEF Spec, ConsumptionCoversRecorded
=============================================================================
