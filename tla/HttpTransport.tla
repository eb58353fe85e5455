----------------------------- MODULE HttpTransport -----------------------------
(***************************************************************************)
(* The remote boundary of one web replica: what it exposes of a deployment,*)
(* its sessions, and the handling of requests.  The runs and the memory are*)
(* reduced to what a request may do to them: RunLifecycle and              *)
(* MemoryBackends follow what becomes of them.                             *)
(*                                                                         *)
(* A request is handled in up to three steps, between which others run:    *)
(* the checks before its token is verified; everything from the verified   *)
(* token to the call of the engine or of a store; and that call.  A        *)
(* request that is refused changes nothing, however it is worded.          *)
(***************************************************************************)
EXTENDS Naturals, Deployment

CONSTANTS
    Deployments, \* what operators set
    Served,      \* bound: the deployments whose requests are followed
    Asks,        \* requests and the tokens they carry, session and run aside
    Conns,       \* requests in flight
    Sids,        \* session ids, each minted once
    Runs,        \* run ids, each allocated once
    Audience,    \* the audience of this server
    AllowedIssuers, AllowedTenants, \* the issuers and tenants let in, or {} for all
    IdleTime,    \* sessionIdleMs
    MaxTime,     \* bound on the clock
    MaxCrashes,  \* bound on restarts
    NoSid, NoRun

ASSUME ServedAssumption == Served \subseteq Deployments
ASSUME DeploymentsAssumption ==
    \A d \in Deployments : d.set \subseteq Flags /\ d.memoryTargets \subseteq TargetSpec(STRING)
ASSUME BoundsAssumption == {IdleTime, MaxTime, MaxCrashes} \subseteq Nat
ASSUME NullsAssumption == NoSid \notin Sids /\ NoRun \notin Runs

VARIABLES
    dep,      \* the deployment, fixed
    up,       \* the process is serving
    now,
    sessions, \* [Sids -> [kept, owner, lastSeen]], kept when the map has it
    minted,   \* session ids that were returned to a client
    conn,     \* [Conns -> a request and where it is]
    run,      \* [Runs -> [status, tenant]], "driven" once a driver took it
    held,     \* the runs whose record says they are held
    memory,   \* [tenant -> <<destination, the destination the call named>> written]
    crashes

engine == <<run, held, memory>>
vars == <<dep, up, now, sessions, minted, conn, engine, crashes>>

Tokens == {a.token : a \in Asks}
Tenants == {t.tenant : t \in Tokens}
AtRest == [pc |-> "idle"]
Gone == [kept |-> FALSE]
NotRun == [status |-> "none"]

Init ==
    /\ dep \in Deployments /\ up = FALSE /\ now = 0 /\ crashes = 0
    /\ sessions = [s \in Sids |-> Gone] /\ minted = {}
    /\ conn = [c \in Conns |-> AtRest]
    /\ run = [r \in Runs |-> NotRun] /\ held = {}
    /\ memory = [t \in Tenants |-> {}]

Goto(c, where) == conn' = [conn EXCEPT ![c] = where]
Answer(c) == Goto(c, AtRest)
-----------------------------------------------------------------------------
(* What is exposed. *)

Advisory  == {"squad_research", "squad_review", "squad_plan", "squad_architect"}
Pipelines == {"squad_run", "squad_federate"}
MemoryTools   == {"squad_memory_read", "squad_memory_write", "squad_memory_sync", "squad_history"}
BusinessTools == {"squad_business_plan", "squad_backlog"}

TOOL_SCOPES(tool) ==
    CASE tool = "squad_research" -> "Squad.Research" [] tool = "squad_review" -> "Squad.Review"
      [] tool = "squad_plan" -> "Squad.Plan"         [] tool = "squad_architect" -> "Squad.Architect"
      [] tool = "squad_run" -> "Squad.Run"           [] tool = "squad_federate" -> "Squad.Federate"
      [] tool = "squad_status" -> "Squad.Run"        [] tool = "squad_render_pptx" -> "Squad.Render"
      [] tool \in {"squad_memory_read", "squad_history"} -> "Squad.Memory"
      [] tool \in {"squad_memory_write", "squad_memory_sync"} -> "Squad.MemoryWrite"
      [] tool = "squad_business_plan" -> "Squad.Business"
      [] tool = "squad_backlog" -> "Squad.Backlog"

\* memoryBrokerEnabled, pipelineExposed and the other options of the handler.
Broker  == On(dep, "enableMemory")
Gated   == On(dep, "remotePipelineEnabled")
History == Broker /\ On(dep, "enableArtifacts")

\* isExposed, of the tools of the catalog.
Exposed(tool) == tool \in Advisory \/ (Gated /\ tool \in Pipelines)

\* tools/list.
Listed == {tool \in Advisory \cup Pipelines : Exposed(tool)}
          \cup (IF Gated THEN {"squad_status"} ELSE {})
          \cup (IF On(dep, "enableRenderPptx") THEN {"squad_render_pptx"} ELSE {})
          \cup (IF Broker THEN MemoryTools \ (IF History THEN {} ELSE {"squad_history"}) ELSE {})
          \cup (IF On(dep, "enableBusinessTools") THEN BusinessTools ELSE {})
-----------------------------------------------------------------------------
(* The process. *)

Boot ==
    /\ ~up /\ WebStarts(dep)
    /\ up' = TRUE
    /\ UNCHANGED <<dep, now, sessions, minted, conn, engine, crashes>>

\* The map of sessions and the requests in flight go with the process.
Crash ==
    /\ up /\ dep \in Served /\ crashes < MaxCrashes
    /\ up' = FALSE /\ crashes' = crashes + 1
    /\ sessions' = [s \in Sids |-> Gone]
    /\ conn' = [c \in Conns |-> AtRest]
    /\ UNCHANGED <<dep, now, minted, engine>>

Tick ==
    /\ up /\ dep \in Served /\ now < MaxTime
    /\ now' = now + 1
    /\ UNCHANGED <<dep, up, sessions, minted, conn, engine, crashes>>
-----------------------------------------------------------------------------
(* SessionStore. *)

\* Mutant: what is kept is when the session ends.
CreateWithDeadline(s, who) ==
    /\ sessions' = [sessions EXCEPT ![s] = [kept |-> TRUE, owner |-> who, lastSeen |-> now + IdleTime]]
    /\ minted' = minted \cup {s}
Create(s, who) ==
    /\ sessions' = [sessions EXCEPT ![s] = [kept |-> TRUE, owner |-> who, lastSeen |-> now]]
    /\ minted' = minted \cup {s}

IdleTooLong(s) == now - sessions[s].lastSeen > IdleTime
Known(s) == s \in Sids /\ sessions[s].kept
Valid(s, who) == Known(s) /\ ~IdleTooLong(s) /\ sessions[s].owner = who

Delete(s) == sessions' = [x \in Sids |-> IF x = s THEN Gone ELSE sessions[x]]

\* Mutant: a session is kept alive by whoever presents it.
TouchFirst(s, who) ==
    IF Known(s) THEN sessions' = [sessions EXCEPT ![s].lastSeen = now] ELSE UNCHANGED sessions

\* What validate leaves of the map: a session idle too long is dropped, one of
\* another identity is left as it was, a valid one is kept.
Validate(s, who) ==
    CASE Known(s) /\ IdleTooLong(s) -> Delete(s)
      [] Valid(s, who) -> sessions' = [sessions EXCEPT ![s].lastSeen = now]
      [] OTHER -> UNCHANGED sessions
-----------------------------------------------------------------------------
(* Before the token is verified. *)

\* The socket binding refuses plain HTTP and large bodies; the handler refuses
\* other paths, foreign origins, and the approval route where there is no
\* pipeline, and answers a preflight itself.
Admitted(a) ==
    /\ a.https /\ a.size = "fits" /\ a.origin \in {"none", "listed"}
    /\ \/ a.path = "/mcp" /\ a.method # "OPTIONS"
       \/ a.path = "/admin/approve" /\ Gated /\ a.method = "POST"

\* A client that names a session or a run names one it was told of, if any was:
\* the id of a run is told when its record is complete, or lies in the store.
OrNone(told, none) == IF told = {} THEN {none} ELSE told
Holding(c, r) == conn[c].pc = "holding" /\ conn[c].run = r
ToldRuns == {r \in Runs : run[r] # NotRun /\ \A c \in Conns : ~Holding(c, r)}

Arrive(c) ==
    /\ up /\ dep \in Served /\ conn[c] = AtRest
    /\ \E a \in Asks :
       \E s \in IF a.path = "/mcp" /\ a.rpc # "initialize" THEN OrNone(minted, NoSid) ELSE {NoSid},
          r \in IF a.tool = "squad_status" \/ a.path = "/admin/approve"
                THEN OrNone(ToldRuns, NoRun) ELSE {NoRun} :
          /\ IF Admitted(a) THEN Goto(c, [pc |-> "verifying", ask |-> a, sid |-> s, run |-> r])
                            ELSE Answer(c)
    /\ UNCHANGED <<dep, up, now, sessions, minted, engine, crashes>>
-----------------------------------------------------------------------------
(* EntraAuthenticator. *)

\* authenticate: signature and expiry, audience, issuer, tenant, subject.
Authentic(t) ==
    /\ t.verifies /\ Audience \in t.aud
    /\ AllowedIssuers # {} => t.issuer \in AllowedIssuers
    /\ t.tenant # "" /\ (AllowedTenants # {} => t.tenant \in AllowedTenants)
    /\ t.subject # ""

Identity(t) == [tenant |-> t.tenant, subject |-> t.subject]
MayUse(t, tool) == TOOL_SCOPES(tool) \in t.scopes
MayApprove(t) == "Squad.Operate" \in t.scopes

Verifying(c, path) == conn[c].pc = "verifying" /\ conn[c].ask.path = path
Token(c) == conn[c].ask.token

\* 401 and 403 of authenticate.
Refuse(c) ==
    /\ conn[c].pc = "verifying" /\ ~Authentic(Token(c))
    /\ Answer(c)
    /\ UNCHANGED <<dep, up, now, sessions, minted, engine, crashes>>
-----------------------------------------------------------------------------
(* handleToolCall and handleResources, up to the call of the engine or of a *)
(* store: what a call is let do, or "nothing".                              *)

\* An unknown destination is refused; where none can be selected the name is
\* not looked at.
Destination(a) == IF ~Selectable(dep) \/ a.target = "" THEN {DefaultOf(dep)}
                  ELSE {a.target} \cap NamesOf(dep)

\* squad_history looks at the whole store, the other tools at the destination.
MemoryCall(a) ==
    IF /\ Broker /\ MayUse(a.token, a.tool) /\ Destination(a) # {} /\ a.wellFormed
       /\ a.tool = "squad_history" => History
    THEN IF a.tool \in {"squad_memory_write", "squad_memory_sync"} THEN "write" ELSE "read"
    ELSE "nothing"

BusinessCall(a) ==
    IF On(dep, "enableBusinessTools") /\ MayUse(a.token, a.tool) /\ a.wellFormed
    THEN "advise" ELSE "nothing"

RenderCall(a) ==
    IF On(dep, "enableRenderPptx") /\ MayUse(a.token, a.tool) /\ a.wellFormed
    THEN "render" ELSE "nothing"

StatusCall(a) ==
    IF Gated /\ MayUse(a.token, a.tool) /\ a.wellFormed THEN "poll" ELSE "nothing"

CatalogCall(a) ==
    IF Exposed(a.tool) /\ MayUse(a.token, a.tool) /\ a.wellFormed
    THEN CASE a.tool = "squad_run" -> "run" [] a.tool = "squad_federate" -> "federate"
           [] OTHER -> "advise"
    ELSE "nothing"

ToolCall(a) ==
    CASE a.tool \in MemoryTools -> MemoryCall(a)
      [] a.tool \in BusinessTools -> BusinessCall(a)
      [] a.tool = "squad_render_pptx" -> RenderCall(a)
      [] a.tool = "squad_status" -> StatusCall(a)
      [] OTHER -> CatalogCall(a)

\* resources/list and resources/read; the templates are a constant.
ResourceCall(a) == IF Broker /\ MayUse(a.token, "squad_memory_read") THEN "read" ELSE "nothing"

\* The other methods, and a body that is not a request, are answered at once.
Dispatch(a) == CASE a.rpc = "tools/call" -> ToolCall(a)
                 [] a.rpc \in {"resources/list", "resources/read"} -> ResourceCall(a)
                 [] OTHER -> "nothing"

Working(c, does) ==
    IF does = "nothing" THEN Answer(c)
    ELSE Goto(c, [pc |-> "working", does |-> does, tenant |-> Token(c).tenant,
                  run |-> conn[c].run, target |-> conn[c].ask.target,
                  into |-> IF does = "write" THEN Destination(conn[c].ask) ELSE {}])
-----------------------------------------------------------------------------
(* With a verified token. *)

Posted(c) == /\ Verifying(c, "/mcp") /\ Authentic(Token(c))
             /\ conn[c].ask.method = "POST" /\ conn[c].ask.rpc # "garbage"

\* DELETE ends the session it names; other methods than POST, bodies that are
\* not JSON-RPC and notifications are answered without one.
Bare(c) ==
    /\ Verifying(c, "/mcp") /\ Authentic(Token(c))
    /\ \/ conn[c].ask.method # "POST"
       \/ conn[c].ask.rpc \in {"garbage", "notification"}
    /\ IF conn[c].ask.method = "DELETE" THEN Delete(conn[c].sid) ELSE UNCHANGED sessions
    /\ Answer(c)
    /\ UNCHANGED <<dep, up, now, minted, engine, crashes>>

Initialize(c) ==
    /\ Posted(c) /\ conn[c].ask.rpc = "initialize"
    /\ \E s \in Sids \ minted : Create(s, Identity(Token(c)))
    /\ Answer(c)
    /\ UNCHANGED <<dep, up, now, engine, crashes>>

\* Every other request needs a session of the caller's.
Serve(c) ==
    /\ Posted(c) /\ conn[c].ask.rpc \notin {"initialize", "notification"}
    /\ Validate(conn[c].sid, Identity(Token(c)))
    /\ IF Valid(conn[c].sid, Identity(Token(c))) THEN Working(c, Dispatch(conn[c].ask)) ELSE Answer(c)
    /\ UNCHANGED <<dep, up, now, minted, engine, crashes>>

\* handleAdminApprove: no session, the operator's scope, and a run to name.
Approve(c) ==
    /\ Verifying(c, "/admin/approve") /\ Authentic(Token(c))
    /\ Working(c, IF MayApprove(Token(c)) /\ conn[c].run # NoRun THEN "release" ELSE "nothing")
    /\ UNCHANGED <<dep, up, now, sessions, minted, engine, crashes>>
-----------------------------------------------------------------------------
(* The engine and the stores. *)

Does(c, what) == conn[c].pc = "working" /\ conn[c].does = what
Owned(c) == conn[c].run # NoRun /\ run[conn[c].run].tenant = conn[c].tenant
Status(r) == run[r].status

\* startHttpRun creates the record running, with no lease on it, and then writes
\* the hold; with the advisory autopilot it is queued and stays as created.  A poll
\* drives neither before an operator released it.
StartRun(c) ==
    /\ Does(c, "run") \/ Does(c, "federate")
    /\ \E r \in Runs : /\ run[r] = NotRun
                       /\ run' = [run EXCEPT ![r] = [status |-> "waiting", tenant |-> conn[c].tenant]]
                       /\ Answer(c) \/ Goto(c, [pc |-> "holding", run |-> r])
    /\ UNCHANGED <<dep, up, now, sessions, minted, held, memory, crashes>>

\* The write of the hold, which may fail, or never come if the process stops.
HoldRun(c) ==
    /\ conn[c].pc = "holding"
    /\ held' = held \cup {conn[c].run} \/ UNCHANGED held
    /\ Answer(c)
    /\ UNCHANGED <<dep, up, now, sessions, minted, run, memory, crashes>>

\* approveRun; to release a run again changes nothing.
ReleaseRun(c) ==
    /\ Does(c, "release") /\ Owned(c) /\ Status(conn[c].run) = "waiting"
    /\ run' = [run EXCEPT ![conn[c].run].status = "released"]
    /\ Answer(c)
    /\ UNCHANGED <<dep, up, now, sessions, minted, held, memory, crashes>>

\* pollRun: a run of another tenant is not found.
PollRun(c) ==
    /\ Does(c, "poll") /\ Owned(c) /\ DriveOnPoll(dep) /\ Status(conn[c].run) = "released"
    /\ run' = [run EXCEPT ![conn[c].run].status = "driven"]
    /\ Answer(c)
    /\ UNCHANGED <<dep, up, now, sessions, minted, held, memory, crashes>>

\* driveClaimable of the worker of the same deployment, whether the web replica
\* is up or not: a held run needs its approval, a running one only no lease.
WorkerDrives(r) ==
    /\ ~DriveOnPoll(dep) /\ WorkerStarts(dep)
    /\ Status(r) = "released" \/ (Status(r) = "waiting" /\ r \notin held)
    /\ run' = [run EXCEPT ![r].status = "driven"]
    /\ UNCHANGED <<dep, up, now, sessions, minted, conn, held, memory, crashes>>

WriteMemory(c) ==
    /\ Does(c, "write")
    /\ \E p \in conn[c].into :
          memory' = [memory EXCEPT ![conn[c].tenant] = @ \cup {<<p, conn[c].target>>}]
    /\ Answer(c)
    /\ UNCHANGED <<dep, up, now, sessions, minted, run, held, crashes>>

\* Reads, advisory dispatches and decks, and calls that are denied or fail.
Finish(c) ==
    /\ conn[c].pc = "working"
    /\ Answer(c)
    /\ UNCHANGED <<dep, up, now, sessions, minted, engine, crashes>>
-----------------------------------------------------------------------------
Handle(c) == Arrive(c) \/ Refuse(c) \/ Bare(c) \/ Initialize(c) \/ Serve(c) \/ Approve(c)
Effect(c) == \/ StartRun(c) \/ HoldRun(c) \/ ReleaseRun(c) \/ PollRun(c)
             \/ WriteMemory(c) \/ Finish(c)

Next == \/ Boot \/ Crash \/ Tick
        \/ \E c \in Conns : Handle(c) \/ Effect(c)
        \/ \E r \in Runs : WorkerDrives(r)

Spec == Init /\ [][Next]_vars
-----------------------------------------------------------------------------
Rights == {"run", "federate", "poll", "release", "write", "read", "render", "advise"}
\* The identities and scopes that are let in, and where a named write may land.
Callers == {[who |-> Identity(t), scopes |-> t.scopes] : t \in {x \in Tokens : Authentic(x)}}
Landings == ({""} \cup UNION {NamesOf(x) : x \in Served}) \X {a.target : a \in Asks}

\* What the operator enabled.
Offered == {"advise"} \cup (IF Broker THEN {"read", "write"} ELSE {})
           \cup (IF Gated THEN {"run", "federate", "poll", "release"} ELSE {})
           \cup (IF On(dep, "enableRenderPptx") THEN {"render"} ELSE {})
Identities == {Identity(t) : t \in Tokens}

\* Every variable has its type: the sessions kept were all minted, and none
\* is kept by a process that is down.
TypeOK ==
    /\ dep.set \subseteq Flags /\ up \in BOOLEAN /\ now \in 0..MaxTime /\ crashes \in 0..MaxCrashes
    /\ minted \subseteq Sids
    /\ \A s \in Sids : Known(s) => /\ up /\ s \in minted /\ sessions[s].lastSeen \in 0..now
                                   /\ sessions[s].owner \in Identities
    /\ \A c \in Conns : /\ conn[c].pc \in {"idle", "verifying", "working", "holding"}
                        /\ conn[c].pc = "working" => up /\ conn[c].does \in Rights
    /\ \A r \in Runs : /\ Status(r) \in {"none", "waiting", "released", "driven"}
                       /\ run[r] # NotRun => run[r].tenant \in Tenants
    /\ held \subseteq Runs /\ DOMAIN memory = Tenants

\* Whatever an operator sets: a process that started offers no tool without what
\* stands behind it.  The runs have a store and, the polls being read-only when a
\* worker is enabled, a worker that starts under the same settings and sees them;
\* every destination of the memory has a place, but for a table in an account
\* nobody asks for at boot; decks have their tools and the business tools a model.
ListedIsBacked ==
    up =>
    /\ Listed \cap Pipelines # {} =>
          /\ On(dep, IF dep.runStateBackend = "table" THEN "storageAccount" ELSE "runStateDir")
          /\ HasDriver(dep) /\ "squad_status" \in Listed
    /\ "squad_memory_write" \in Listed =>
          /\ \A t \in Destinations(dep) : t.backend = "table" \/ HasPlace(dep, t)
          /\ DefaultOf(dep) \in {t.name : t \in Destinations(dep)}
          /\ On(dep, "memoryOverflowEnabled") => On(dep, "storageAccount")
    /\ "squad_render_pptx" \in Listed => On(dep, "storageAccount") /\ On(dep, "renderScriptsDir")
    /\ "squad_backlog" \in Listed => On(dep, "endpointAllowed")

\* http-core.ts:948: an unknown destination is rejected and never falls back
\* silently to the default, which would write where the caller did not ask for.
NeverSilentDefault == \A t \in Tenants : \A w \in memory[t] : w[2] \in {"", w[1]}

\* What the policy sees: a session with its end, a request past its checks as a
\* grant, and the ends of sessions that were asked for.
Session == [s \in Sids |->
              IF s \notin minted THEN [state |-> "unused"]
              ELSE IF Known(s) THEN [state |-> "live", owner |-> sessions[s].owner,
                                     until |-> sessions[s].lastSeen + IdleTime]
              ELSE [state |-> "over"]]
Grant == [c \in Conns |-> IF conn[c].pc = "working"
                         THEN [right |-> conn[c].does, tenant |-> conn[c].tenant]
                         ELSE [right |-> "none"]]
EndAsked == {conn[c].sid : c \in {x \in Conns : /\ conn[x].pc = "verifying"
                                               /\ conn[x].ask.method = "DELETE"}} \ {NoSid}

\* What is done through the boundary is what AccessPolicy allows: see there.
Policy == INSTANCE AccessPolicy WITH
    Tenants <- Tenants, Identities <- Callers, Places <- Landings,
    serving <- up, offered <- Offered, background <- ~DriveOnPoll(dep), endAsked <- EndAsked,
    session <- Session, grant <- Grant
ImplementsPolicy == Policy!Spec
===============================================================================
