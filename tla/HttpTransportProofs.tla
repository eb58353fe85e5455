-------------------------- MODULE HttpTransportProofs --------------------------
(***************************************************************************)
(* Theorems about HttpTransport, for every set of deployments, callers,    *)
(* requests, sessions and runs and any bounds.                             *)
(*                                                                         *)
(* BoundaryInv says what a request in flight stands for: it is there only  *)
(* while the process is, it passed the checks made before its token was    *)
(* verified, and what it is let do is a right, of its token's tenant, at a *)
(* place the deployment has.                                               *)
(***************************************************************************)
EXTENDS HttpTransport, TLAPS

USE ServedAssumption, DeploymentsAssumption, BoundsAssumption, NullsAssumption

Sessions == {Gone} \cup [kept : {TRUE}, owner : Identities, lastSeen : Nat]
Requests == [pc : {"verifying"}, ask : Asks, sid : Sids \cup {NoSid}, run : Runs \cup {NoRun}]
Names == {""} \cup UNION {NamesOf(x) : x \in Served}
Calls == [pc : {"working"}, does : Rights, tenant : Tenants, run : Runs \cup {NoRun},
          target : {a.target : a \in Asks}, into : SUBSET Names]
Holds == [pc : {"holding"}, run : Runs]
ConnStates == {AtRest} \cup Requests \cup Calls \cup Holds
RunStates == {NotRun} \cup [status : {"waiting", "released", "driven"}, tenant : Tenants]

TypeInv ==
    /\ dep \in Deployments /\ up \in BOOLEAN /\ now \in 0..MaxTime /\ crashes \in 0..MaxCrashes
    /\ sessions \in [Sids -> Sessions] /\ minted \subseteq Sids
    /\ conn \in [Conns -> ConnStates]
    /\ run \in [Runs -> RunStates] /\ held \subseteq Runs
    /\ memory \in [Tenants -> SUBSET Landings]

KeptIsMinted == \A s \in Sids : Known(s) => up /\ s \in minted /\ sessions[s].lastSeen <= now
InFlight == \A c \in Conns : conn[c] # AtRest => up /\ dep \in Served
WasAdmitted == \A c \in Conns : conn[c].pc = "verifying" => Admitted(conn[c].ask)

BoundaryInv ==
    /\ TypeInv
    /\ KeptIsMinted /\ InFlight /\ WasAdmitted
    /\ up => WebStarts(dep)
-----------------------------------------------------------------------------
(* Operators. *)

LEMMA Bounds == IdleTime \in Nat /\ MaxTime \in Nat /\ MaxCrashes \in Nat
  OBVIOUS

\* A session that is kept has an owner and an age.
LEMMA KeptSession ==
    ASSUME NEW x \in Sessions, x.kept
    PROVE  x \in [kept : {TRUE}, owner : Identities, lastSeen : Nat]
  <1>1. Gone.kept = FALSE  BY DEF Gone
  <1>2. x # Gone  BY <1>1
  <1> QED  BY <1>2 DEF Sessions

\* What a connection is.
LEMMA ConnFields ==
    ASSUME TypeInv, NEW c \in Conns
    PROVE  \/ conn[c] = AtRest /\ conn[c].pc = "idle"
           \/ conn[c] \in Requests /\ conn[c].pc = "verifying"
           \/ conn[c] \in Calls /\ conn[c].pc = "working"
           \/ conn[c] \in Holds /\ conn[c].pc = "holding"
  BY DEF TypeInv, ConnStates, AtRest, Requests, Calls, Holds

\* A token that is being verified is one of those the requests carry.
LEMMA TokenIsCarried ==
    ASSUME TypeInv, NEW c \in Conns, conn[c].pc = "verifying"
    PROVE  /\ conn[c].ask \in Asks /\ conn[c].sid \in Sids \cup {NoSid}
           /\ conn[c].run \in Runs \cup {NoRun}
           /\ Token(c) \in Tokens /\ Token(c).tenant \in Tenants
           /\ Identity(Token(c)) \in Identities
  BY ConnFields DEF Requests, Calls, Holds, AtRest, Token, Tokens, Tenants, Identities

\* What a call is let do is a right.
LEMMA DispatchGivesRight ==
    ASSUME NEW a PROVE Dispatch(a) \in Rights \cup {"nothing"}
  <1>1. MemoryCall(a) \in {"write", "read", "nothing"}  BY DEF MemoryCall
  <1>2. BusinessCall(a) \in {"advise", "nothing"}  BY DEF BusinessCall
  <1>3. RenderCall(a) \in {"render", "nothing"}  BY DEF RenderCall
  <1>4. StatusCall(a) \in {"poll", "nothing"}  BY DEF StatusCall
  <1>5. CatalogCall(a) \in {"run", "federate", "advise", "nothing"}  BY DEF CatalogCall
  <1>6. ResourceCall(a) \in {"read", "nothing"}  BY DEF ResourceCall
  <1>7. ToolCall(a) \in Rights \cup {"nothing"}
    BY <1>1, <1>2, <1>3, <1>4, <1>5 DEF ToolCall, Rights
  <1> QED  BY <1>6, <1>7 DEF Dispatch, Rights

\* A write lands at a destination of the deployment, or at the single one.
LEMMA DestinationIsNamed ==
    ASSUME dep \in Served, WebStarts(dep), NEW a PROVE Destination(a) \subseteq Names
  <1>1. NamesOf(dep) \subseteq Names  BY DEF Names
  <1>2. DefaultOf(dep) \in Names
    BY <1>1 DEF DefaultOf, WebStarts, Accepted, TargetsAccepted, Names
  <1> QED  BY <1>1, <1>2 DEF Destination

\* A request past its checks becomes a call, or rests.
LEMMA WorkingTypes ==
    ASSUME TypeInv, NEW c \in Conns, conn[c].pc = "verifying",
           dep \in Served, WebStarts(dep),
           NEW does \in Rights \cup {"nothing"}, Working(c, does)
    PROVE  /\ conn' = [conn EXCEPT ![c] = conn'[c]]
           /\ conn'[c] = IF does = "nothing" THEN AtRest
                         ELSE [pc |-> "working", does |-> does, tenant |-> Token(c).tenant,
                               run |-> conn[c].run, target |-> conn[c].ask.target,
                               into |-> IF does = "write" THEN Destination(conn[c].ask) ELSE {}]
           /\ conn'[c] \in {AtRest} \cup Calls
  <1>1. conn' = [conn EXCEPT ![c] =
            IF does = "nothing" THEN AtRest
            ELSE [pc |-> "working", does |-> does, tenant |-> Token(c).tenant,
                  run |-> conn[c].run, target |-> conn[c].ask.target,
                  into |-> IF does = "write" THEN Destination(conn[c].ask) ELSE {}]]
    BY DEF Working, Answer, Goto
  <1>2. Destination(conn[c].ask) \subseteq Names  BY DestinationIsNamed
  <1> QED  BY <1>1, <1>2, TokenIsCarried DEF TypeInv, Calls

\* What one connection becomes disturbs no other.
LEMMA ConnStep ==
    ASSUME BoundaryInv, UNCHANGED <<dep, up>>, NEW c \in Conns,
           NEW v, conn' = [conn EXCEPT ![c] = v],
           v \in ConnStates,
           v # AtRest => up /\ dep \in Served,
           v \in Requests => Admitted(v.ask)
    PROVE  /\ conn' \in [Conns -> ConnStates]
           /\ InFlight' /\ WasAdmitted'
  <1>1. conn' \in [Conns -> ConnStates]
    BY DEF BoundaryInv, TypeInv
  <1>2. \A d \in Conns : conn'[d] = IF d = c THEN v ELSE conn[d]
    BY DEF BoundaryInv, TypeInv
  <1>3. InFlight'
    BY <1>2 DEF BoundaryInv, InFlight
  <1>4. WasAdmitted'
    <2>1. ASSUME NEW d \in Conns, (conn[d].pc = "verifying")'
          PROVE  Admitted(conn[d].ask)'
      <3>1. CASE d = c
        <4>1. v \in Requests  BY <1>2, <2>1, <3>1 DEF ConnStates, AtRest, Calls, Holds
        <4> QED  BY <1>2, <3>1, <4>1 DEF Admitted, Gated, On
      <3>2. CASE d # c
        <4>1. conn'[d] = conn[d]  BY <1>2, <3>2
        <4>2. Admitted(conn[d].ask)  BY <2>1, <4>1 DEF BoundaryInv, WasAdmitted
        <4> QED  BY <4>1, <4>2 DEF Admitted, Gated, On
      <3> QED  BY <3>1, <3>2
    <2> QED  BY <2>1 DEF WasAdmitted
  <1> QED  BY <1>1, <1>3, <1>4
-----------------------------------------------------------------------------
(* Steps. *)

LEMMA BoundaryInit == Init => BoundaryInv
  <1> SUFFICES ASSUME Init PROVE BoundaryInv
    OBVIOUS
  <1>1. TypeInv
    <2>1. now \in 0..MaxTime /\ crashes \in 0..MaxCrashes  BY Bounds DEF Init
    <2>2. sessions \in [Sids -> Sessions] /\ run \in [Runs -> RunStates]
      BY DEF Init, Sessions, RunStates
    <2> QED  BY <2>1, <2>2 DEF Init, TypeInv, ConnStates
  <1> QED  BY <1>1 DEF Init, BoundaryInv, KeptIsMinted, InFlight, WasAdmitted, Known, Gone, AtRest

LEMMA ProcessStep == BoundaryInv /\ (Boot \/ Crash \/ Tick) => BoundaryInv'
  <1> SUFFICES ASSUME BoundaryInv, Boot \/ Crash \/ Tick PROVE BoundaryInv'
    OBVIOUS
  <1> USE DEF BoundaryInv
  <1>1. CASE Boot
    <2>1. TypeInv'  BY <1>1 DEF Boot, TypeInv, engine
    <2>2. KeptIsMinted'  BY <1>1 DEF Boot, KeptIsMinted, Known
    <2>3. InFlight'  BY <1>1 DEF Boot, InFlight
    <2>4. WasAdmitted'  BY <1>1 DEF Boot, WasAdmitted, Admitted, Gated, On
    <2>5. WebStarts(dep)'  BY <1>1 DEF Boot
    <2> QED  BY <2>1, <2>2, <2>3, <2>4, <2>5
  <1>2. CASE Crash
    <2>1. crashes' \in 0..MaxCrashes  BY <1>2, Bounds DEF Crash, TypeInv
    <2>2. sessions' \in [Sids -> Sessions]  BY <1>2 DEF Crash, Sessions
    <2>3. TypeInv'  BY <1>2, <2>1, <2>2 DEF Crash, TypeInv, ConnStates, engine
    <2>4. KeptIsMinted'
      <3>1. \A s \in Sids : sessions'[s].kept = FALSE  BY <1>2 DEF Crash, Gone
      <3> QED  BY <3>1 DEF KeptIsMinted, Known
    <2>5. InFlight'  BY <1>2 DEF Crash, InFlight
    <2>6. WasAdmitted'  BY <1>2 DEF Crash, WasAdmitted, AtRest
    <2>7. ~up'  BY <1>2 DEF Crash
    <2> QED  BY <2>3, <2>4, <2>5, <2>6, <2>7
  <1>3. CASE Tick
    <2>1. TypeInv'  BY <1>3 DEF Tick, TypeInv, engine
    <2>2. KeptIsMinted'
      <3>1. \A s \in Sids : Known(s) => sessions[s].lastSeen \in Nat
        <4> SUFFICES ASSUME NEW s \in Sids, Known(s) PROVE sessions[s].lastSeen \in Nat
          OBVIOUS
        <4>1. sessions[s] \in Sessions /\ sessions[s].kept  BY DEF TypeInv, Known
        <4>2. sessions[s] \in [kept : {TRUE}, owner : Identities, lastSeen : Nat]
          BY <4>1, KeptSession
        <4> QED  BY <4>2
      <3> QED  BY <1>3, <3>1, Bounds DEF Tick, KeptIsMinted, Known, TypeInv
    <2>3. InFlight'  BY <1>3 DEF Tick, InFlight
    <2>4. WasAdmitted'  BY <1>3 DEF Tick, WasAdmitted, Admitted, Gated, On
    <2> QED  BY <1>3, <2>1, <2>2, <2>3, <2>4 DEF Tick
  <1> QED  BY <1>1, <1>2, <1>3

\* What the map of sessions becomes: one session is kept from now on, or is
\* gone, or nothing happens.
LEMMA SessionTypes ==
    ASSUME BoundaryInv, UNCHANGED <<up, now>>, minted' \subseteq Sids, minted \subseteq minted',
           up, NEW s, NEW who \in Identities,
           \/ UNCHANGED sessions
           \/ Delete(s)
           \/ Known(s) /\ sessions' = [sessions EXCEPT ![s].lastSeen = now]
           \/ s \in Sids /\ Create(s, who)
    PROVE  sessions' \in [Sids -> Sessions] /\ KeptIsMinted'
  <1> USE DEF BoundaryInv, TypeInv
  <1>1. CASE UNCHANGED sessions  BY <1>1 DEF KeptIsMinted, Known
  <1>2. CASE Delete(s)
    <2>1. \A x \in Sids : sessions'[x] = IF x = s THEN Gone ELSE sessions[x]  BY <1>2 DEF Delete
    <2>2. sessions' \in [Sids -> Sessions]  BY <1>2 DEF Delete, Sessions
    <2>3. \A x \in Sids : sessions'[x].kept => sessions'[x] = sessions[x]
      <3>1. Gone.kept = FALSE  BY DEF Gone
      <3> QED  BY <2>1, <3>1
    <2> QED  BY <2>2, <2>3 DEF KeptIsMinted, Known
  <1>3. CASE Known(s) /\ sessions' = [sessions EXCEPT ![s].lastSeen = now]
    <2>1. s \in Sids /\ sessions[s] \in [kept : {TRUE}, owner : Identities, lastSeen : Nat]
      BY <1>3, KeptSession DEF Known
    <2>2. now \in Nat  BY Bounds
    <2>3. sessions' \in [Sids -> Sessions]  BY <1>3, <2>1, <2>2 DEF Sessions
    <2>4. \A x \in Sids : sessions'[x] = IF x = s THEN [sessions[s] EXCEPT !.lastSeen = now]
                                         ELSE sessions[x]
      BY <1>3, <2>1
    <2>5. sessions'[s].lastSeen = now  BY <2>1, <2>4
    <2>6. up /\ s \in minted  BY <1>3, <2>1 DEF KeptIsMinted
    <2> QED  BY <2>2, <2>3, <2>4, <2>5, <2>6 DEF KeptIsMinted, Known
  <1>4. CASE s \in Sids /\ Create(s, who)
    <2>1. sessions' = [sessions EXCEPT ![s] = [kept |-> TRUE, owner |-> who, lastSeen |-> now]]
          /\ minted' = minted \cup {s}
      BY <1>4 DEF Create
    <2>2. now \in Nat  BY Bounds
    <2>3. sessions' \in [Sids -> Sessions]  BY <1>4, <2>1, <2>2 DEF Sessions
    <2> QED  BY <1>4, <2>1, <2>2, <2>3 DEF KeptIsMinted, Known
  <1> QED  BY <1>1, <1>2, <1>3, <1>4

\* What validate does to the map.
LEMMA ValidateCases ==
    ASSUME NEW s, NEW who, Validate(s, who)
    PROVE  \/ Known(s) /\ IdleTooLong(s) /\ Delete(s)
           \/ Valid(s, who) /\ sessions' = [sessions EXCEPT ![s].lastSeen = now]
           \/ ~Known(s) /\ UNCHANGED sessions
           \/ Known(s) /\ ~IdleTooLong(s) /\ sessions[s].owner # who /\ UNCHANGED sessions
  BY DEF Validate, Valid

LEMMA HandleStep ==
    ASSUME BoundaryInv, NEW c \in Conns, Handle(c)
    PROVE  BoundaryInv'
  <1> USE DEF BoundaryInv
  <1>1. UNCHANGED <<dep, up, now, engine, crashes>>
    BY DEF Handle, Arrive, Refuse, Bare, Initialize, Serve, Approve
  <1>2. \A d \in Deployments : UNCHANGED dep => WebStarts(dep)' = WebStarts(dep)
    OBVIOUS
  <1>3. SUFFICES /\ conn' \in [Conns -> ConnStates]
                 /\ InFlight' /\ WasAdmitted'
                 /\ sessions' \in [Sids -> Sessions] /\ minted' \subseteq Sids /\ KeptIsMinted'
    BY <1>1 DEF TypeInv, engine
  <1>4. CASE conn[c].pc = "verifying"
    <2> USE <1>4
    <2>1. up /\ dep \in Served /\ WebStarts(dep)
      BY DEF InFlight, AtRest
    <2>2. ASSUME Answer(c) PROVE /\ conn' \in [Conns -> ConnStates]
                                 /\ InFlight' /\ WasAdmitted'
      BY <1>1, <2>2, ConnStep DEF Answer, Goto, Requests, AtRest, ConnStates
    <2>3. ASSUME NEW does \in Rights \cup {"nothing"}, Working(c, does)
          PROVE  /\ conn' \in [Conns -> ConnStates]
                 /\ InFlight' /\ WasAdmitted'
      <3>1. conn' = [conn EXCEPT ![c] = conn'[c]] /\ conn'[c] \in {AtRest} \cup Calls
        BY <2>1, <2>3, WorkingTypes
      <3>2. conn'[c] \notin Requests  BY <3>1 DEF AtRest, Requests, Calls
      <3> QED  BY <1>1, <2>1, <3>1, <3>2, ConnStep DEF ConnStates
    <2>4. Identity(Token(c)) \in Identities  BY TokenIsCarried
    <2>5. CASE Refuse(c)
      BY <1>1, <2>1, <2>2, <2>4, <2>5, SessionTypes DEF Refuse, TypeInv
    <2>6. CASE Bare(c)
      BY <1>1, <2>1, <2>2, <2>4, <2>6, SessionTypes DEF Bare, TypeInv
    <2>7. CASE Initialize(c)
      <3>1. PICK s \in Sids \ minted : Create(s, Identity(Token(c)))
        BY <2>7 DEF Initialize
      <3>2. minted' = minted \cup {s}  BY <3>1 DEF Create
      <3> QED  BY <1>1, <2>1, <2>2, <2>4, <2>7, <3>1, <3>2, SessionTypes DEF Initialize, TypeInv
    <2>8. CASE Serve(c)
      <3>1. sessions' \in [Sids -> Sessions] /\ minted' \subseteq Sids /\ KeptIsMinted'
        BY <1>1, <2>1, <2>4, <2>8, ValidateCases, SessionTypes DEF Serve, TypeInv, Valid
      <3> QED  BY <2>2, <2>3, <2>8, <3>1, DispatchGivesRight DEF Serve
    <2>9. CASE Approve(c)
      <3>1. \E does \in Rights \cup {"nothing"} : Working(c, does)
        BY <2>9 DEF Approve, Rights
      <3> QED  BY <1>1, <2>1, <2>3, <2>4, <2>9, <3>1, SessionTypes DEF Approve, TypeInv
    <2>10. ~Arrive(c)  BY DEF Arrive, AtRest
    <2> QED  BY <2>5, <2>6, <2>7, <2>8, <2>9, <2>10 DEF Handle
  <1>5. CASE conn[c].pc # "verifying"
    <2>1. Arrive(c)
      BY <1>5 DEF Handle, Refuse, Bare, Initialize, Serve, Approve, Posted, Verifying
    <2>2. UNCHANGED <<sessions, minted>> /\ up /\ dep \in Served  BY <2>1 DEF Arrive
    <2>3. \E v : /\ conn' = [conn EXCEPT ![c] = v]
                 /\ v \in {AtRest} \cup Requests
                 /\ v \in Requests => Admitted(v.ask)
      <3>1. PICK a \in Asks, s \in Sids \cup {NoSid}, r \in Runs \cup {NoRun} :
                IF Admitted(a) THEN Goto(c, [pc |-> "verifying", ask |-> a, sid |-> s, run |-> r])
                               ELSE Answer(c)
        BY <2>1 DEF Arrive, OrNone, ToldRuns, TypeInv
      <3>2. CASE Admitted(a)
        <4> DEFINE q == [pc |-> "verifying", ask |-> a, sid |-> s, run |-> r]
        <4>1. q \in Requests /\ q.ask = a  BY DEF Requests
        <4>2. conn' = [conn EXCEPT ![c] = q]  BY <3>1, <3>2 DEF Goto
        <4> QED  BY <3>2, <4>1, <4>2
      <3>3. CASE ~Admitted(a)
        <4>1. conn' = [conn EXCEPT ![c] = AtRest]  BY <3>1, <3>3 DEF Goto, Answer
        <4>2. AtRest \notin Requests  BY DEF Requests, AtRest
        <4> QED  BY <4>1, <4>2
      <3> QED  BY <3>2, <3>3
    <2> QED  BY <1>1, <2>2, <2>3, ConnStep DEF TypeInv, ConnStates, KeptIsMinted, Known
  <1> QED  BY <1>4, <1>5

\* A call of the engine or of a store ends the request, or goes on to write the
\* hold; it takes a run one status further, or adds to the memory of its tenant.
LEMMA EffectStep ==
    ASSUME BoundaryInv, NEW c \in Conns, Effect(c)
    PROVE  BoundaryInv'
  <1> USE DEF BoundaryInv
  <1>1. /\ UNCHANGED <<dep, up, now, sessions, minted, crashes>>
        /\ conn[c] \in IF HoldRun(c) THEN Holds ELSE Calls
    BY ConnFields DEF Effect, StartRun, HoldRun, ReleaseRun, PollRun, WriteMemory, Finish, Does,
                      AtRest, Requests, Calls, Holds
  <1>2. /\ conn' \in [Conns -> ConnStates]
        /\ InFlight' /\ WasAdmitted'
    <2>1. PICK v \in {AtRest} \cup Holds : conn' = [conn EXCEPT ![c] = v]
      BY DEF Effect, StartRun, HoldRun, ReleaseRun, PollRun, WriteMemory, Finish,
             Answer, Goto, Holds
    <2>2. v \in ConnStates /\ v \notin Requests
      BY DEF ConnStates, AtRest, Requests, Holds
    <2>3. up /\ dep \in Served
      BY <1>1 DEF InFlight, AtRest, Calls, Holds
    <2> QED  BY <1>1, <2>1, <2>2, <2>3, ConnStep
  <1>3. KeptIsMinted'  BY <1>1 DEF KeptIsMinted, Known
  <1>4. SUFFICES /\ run' \in [Runs -> RunStates] /\ held' \subseteq Runs
                 /\ memory' \in [Tenants -> SUBSET Landings]
    BY <1>1, <1>2, <1>3 DEF TypeInv
  <1>5. CASE StartRun(c)
    <2>1. conn[c].tenant \in Tenants
      BY <1>1, <1>5, ConnFields DEF StartRun, Does, AtRest, Requests, Calls, Holds
    <2> QED  BY <1>5, <2>1 DEF StartRun, TypeInv, RunStates
  <1>6. CASE ReleaseRun(c) \/ PollRun(c)
    <2>1. /\ conn[c].run \in Runs /\ run[conn[c].run] \in RunStates
          /\ run[conn[c].run].status \in {"waiting", "released"}
      BY <1>6, ConnFields DEF ReleaseRun, PollRun, Does, Owned, TypeInv, Status,
                              AtRest, Requests, Calls, Holds
    <2>2. run[conn[c].run] \in [status : {"waiting", "released", "driven"}, tenant : Tenants]
      BY <2>1 DEF RunStates, NotRun
    <2>3. /\ \/ run' = [run EXCEPT ![conn[c].run].status = "released"]
             \/ run' = [run EXCEPT ![conn[c].run].status = "driven"]
          /\ UNCHANGED <<held, memory>>
      BY <1>6 DEF ReleaseRun, PollRun
    <2> QED  BY <2>1, <2>2, <2>3 DEF TypeInv, RunStates
  <1>7. CASE WriteMemory(c)
    <2>1. PICK p \in conn[c].into :
             memory' = [memory EXCEPT ![conn[c].tenant] = @ \cup {<<p, conn[c].target>>}]
      BY <1>7 DEF WriteMemory
    <2>2. conn[c] \in Calls
      BY <1>7, ConnFields DEF WriteMemory, Does, AtRest, Requests, Holds
    <2>3. <<p, conn[c].target>> \in Landings /\ conn[c].tenant \in Tenants
      BY <2>2 DEF Calls, Landings, Names
    <2> QED  BY <1>7, <2>1, <2>3 DEF WriteMemory, TypeInv
  <1>8. CASE Finish(c)
    BY <1>8 DEF Finish, engine, TypeInv
  <1>9. CASE HoldRun(c)
    BY <1>1, <1>9 DEF HoldRun, Holds, TypeInv
  <1> QED  BY <1>5, <1>6, <1>7, <1>8, <1>9 DEF Effect

LEMMA WorkerStep ==
    ASSUME BoundaryInv, NEW r \in Runs, WorkerDrives(r)
    PROVE  BoundaryInv'
  <1> USE DEF BoundaryInv
  <1>1. /\ UNCHANGED <<dep, up, now, sessions, minted, conn, held, memory, crashes>>
        /\ run' = [run EXCEPT ![r].status = "driven"]
        /\ run[r].status \in {"waiting", "released"}
    BY DEF WorkerDrives, Status
  <1>2. run[r] \in [status : {"waiting", "released", "driven"}, tenant : Tenants]
    BY <1>1 DEF TypeInv, RunStates, NotRun
  <1>3. run' \in [Runs -> RunStates]  BY <1>1, <1>2 DEF TypeInv, RunStates
  <1>4. TypeInv' /\ InFlight' /\ KeptIsMinted'
    BY <1>1, <1>3 DEF TypeInv, InFlight, KeptIsMinted, Known
  <1>5. WasAdmitted'  BY <1>1 DEF WasAdmitted, Admitted, Gated, On
  <1> QED  BY <1>1, <1>4, <1>5

LEMMA BoundaryNext == BoundaryInv /\ [Next]_vars => BoundaryInv'
  <1> SUFFICES ASSUME BoundaryInv, [Next]_vars PROVE BoundaryInv'
    OBVIOUS
  <1>1. CASE UNCHANGED vars
    <2>1. UNCHANGED <<dep, up, now, sessions, minted, conn, run, held, memory, crashes>>
      BY <1>1 DEF vars, engine
    <2>2. TypeInv' /\ InFlight' /\ KeptIsMinted'
      BY <2>1 DEF BoundaryInv, TypeInv, InFlight, KeptIsMinted, Known
    <2>3. WasAdmitted'  BY <2>1 DEF BoundaryInv, WasAdmitted, Admitted, Gated, On
    <2> QED  BY <2>1, <2>2, <2>3 DEF BoundaryInv
  <1> QED  BY <1>1, ProcessStep, HandleStep, EffectStep, WorkerStep DEF Next

LEMMA BoundaryInductive == Spec => []BoundaryInv
  BY BoundaryInit, BoundaryNext, PTL DEF Spec
-----------------------------------------------------------------------------
(* Types, and what is listed. *)

LEMMA InvHasTypes == BoundaryInv => TypeOK
  <1> SUFFICES ASSUME BoundaryInv PROVE TypeOK
    OBVIOUS
  <1> USE DEF BoundaryInv
  <1>1. /\ dep.set \subseteq Flags /\ up \in BOOLEAN /\ now \in 0..MaxTime
        /\ crashes \in 0..MaxCrashes /\ minted \subseteq Sids /\ DOMAIN memory = Tenants
        /\ held \subseteq Runs
    BY DEF TypeInv
  <1>2. ASSUME NEW s \in Sids, Known(s)
        PROVE  /\ up /\ s \in minted /\ sessions[s].lastSeen \in 0..now
               /\ sessions[s].owner \in Identities
    <2>1. sessions[s] \in [kept : {TRUE}, owner : Identities, lastSeen : Nat]
      BY <1>2, KeptSession DEF TypeInv, Known
    <2> QED  BY <1>2, <2>1, Bounds DEF KeptIsMinted, TypeInv
  <1>3. ASSUME NEW c \in Conns
        PROVE  /\ conn[c].pc \in {"idle", "verifying", "working", "holding"}
               /\ conn[c].pc = "working" => up /\ conn[c].does \in Rights
    BY <1>3, ConnFields DEF InFlight, AtRest, Requests, Calls, Holds
  <1>4. ASSUME NEW r \in Runs
        PROVE  /\ Status(r) \in {"none", "waiting", "released", "driven"}
               /\ run[r] # NotRun => run[r].tenant \in Tenants
    <2>1. run[r] \in RunStates  BY DEF TypeInv
    <2> QED  BY <2>1 DEF RunStates, NotRun, Status
  <1> QED  BY <1>1, <1>2, <1>3, <1>4 DEF TypeOK

\* Every variable has its type; a session is kept only by a process that is up,
\* and was minted no later than it was last seen (SessionStore, handle).
THEOREM BoundaryTypeCorrect == Spec => []TypeOK
  BY BoundaryInductive, InvHasTypes, PTL

\* What the settings of a process that started guarantee.
LEMMA AcceptedIsBacked == BoundaryInv => ListedIsBacked
  <1> SUFFICES ASSUME BoundaryInv, up PROVE ListedIsBacked
    BY DEF ListedIsBacked
  <1>1. WebStarts(dep) /\ dep \in Deployments  BY DEF BoundaryInv, TypeInv
  <1>2. Accepted(dep) /\ CipherBuilt(dep)  BY <1>1 DEF WebStarts
  <1>3. ASSUME Listed \cap Pipelines # {}
        PROVE  /\ On(dep, IF dep.runStateBackend = "table" THEN "storageAccount" ELSE "runStateDir")
               /\ HasDriver(dep) /\ "squad_status" \in Listed
    <2>1. Gated
      BY <1>3 DEF Listed, Exposed, Advisory, Pipelines, MemoryTools, BusinessTools
    <2>2. /\ On(dep, IF dep.runStateBackend = "table" THEN "storageAccount" ELSE "runStateDir")
          /\ On(dep, "workerEnabled") => dep.runStateBackend = "table"
      BY <1>2, <2>1 DEF Accepted, RunStateAccepted, Gated
    <2>3. WorkerStarts(dep)  BY <1>2, <2>1 DEF WorkerStarts, CipherBuilt, Gated
    <2> QED  BY <2>1, <2>2, <2>3 DEF HasDriver, DriveOnPoll, Listed
  <1>4. ASSUME "squad_memory_write" \in Listed
        PROVE  /\ \A t \in Destinations(dep) : t.backend = "table" \/ HasPlace(dep, t)
               /\ DefaultOf(dep) \in {t.name : t \in Destinations(dep)}
               /\ On(dep, "memoryOverflowEnabled") => On(dep, "storageAccount")
    <2>1. Broker
      BY <1>4 DEF Listed, Advisory, Pipelines, MemoryTools, BusinessTools
    <2>2. On(dep, PlaceOf(dep.memoryBackend))
      BY <1>2, <2>1 DEF Accepted, MemoryAccepted, Broker
    <2>3. On(dep, "memoryOverflowEnabled") => On(dep, "storageAccount")
      BY <1>2 DEF Accepted, OptionsAccepted, Given, On
    <2>4. CASE dep.memoryTargets = {}
      <3>1. Single(dep).own = TRUE  BY <2>2 DEF Single, On
      <3>2. Single(dep).name = ""  BY DEF Single
      <3> QED  BY <2>3, <2>4, <3>1, <3>2 DEF Destinations, DefaultOf, HasPlace
    <2>5. CASE dep.memoryTargets # {}
      <3>1. TargetsWellFormed(dep) /\ dep.memoryDefaultTarget \in NamesOf(dep)
        BY <1>2, <2>5 DEF Accepted, TargetsAccepted
      <3>2. \A t \in dep.memoryTargets : t.backend \in {"file", "table", "graph"}
        BY <1>1 DEF TargetSpec, Kinds
      <3> QED
        BY <2>3, <2>5, <3>1, <3>2 DEF Destinations, DefaultOf, HasPlace, TargetsWellFormed, NamesOf
    <2> QED  BY <2>4, <2>5
  <1>5. ASSUME "squad_render_pptx" \in Listed
        PROVE  On(dep, "storageAccount") /\ On(dep, "renderScriptsDir")
    <2>1. On(dep, "enableRenderPptx")
      BY <1>5 DEF Listed, Advisory, Pipelines, MemoryTools, BusinessTools
    <2> QED  BY <1>2, <2>1 DEF Accepted, RenderAccepted, Given, On
  <1>6. ASSUME "squad_backlog" \in Listed PROVE On(dep, "endpointAllowed")
    <2>1. On(dep, "enableBusinessTools")
      BY <1>6 DEF Listed, Advisory, Pipelines, MemoryTools, BusinessTools
    <2> QED  BY <1>2, <2>1 DEF Accepted, OptionsAccepted, EndpointsAccepted
  <1> QED  BY <1>3, <1>4, <1>5, <1>6 DEF ListedIsBacked

\* Whatever an operator sets, a process that started lists no tool without what
\* stands behind it (loadOperatorConfig, buildHttpHandler, tools/list).
THEOREM ListedToolsAreBacked == Spec => []ListedIsBacked
  BY BoundaryInductive, AcceptedIsBacked, PTL
-----------------------------------------------------------------------------
(* The policy: what it sees of a state. *)

\* What a call is let do is offered, and its token has a scope for it.
LEMMA DispatchIsAllowed ==
    ASSUME NEW a, Dispatch(a) # "nothing"
    PROVE  /\ Dispatch(a) \in Offered /\ Dispatch(a) # "release"
           /\ Dispatch(a) \in DOMAIN Policy!Needs
           /\ a.token.scopes \cap Policy!Needs[Dispatch(a)] # {}
  <1> DEFINE Allowed(d) == /\ d \in Offered /\ d # "release" /\ d \in DOMAIN Policy!Needs
                           /\ a.token.scopes \cap Policy!Needs[d] # {}
  <1>1. ASSUME a.tool \in MemoryTools, MemoryCall(a) # "nothing" PROVE Allowed(MemoryCall(a))
    <2>1. Broker /\ MayUse(a.token, a.tool)  BY <1>1 DEF MemoryCall
    <2>2. CASE a.tool \in {"squad_memory_write", "squad_memory_sync"}
      <3>1. MemoryCall(a) = "write"  BY <1>1, <2>2 DEF MemoryCall
      <3>2. "Squad.MemoryWrite" \in a.token.scopes  BY <2>1, <2>2 DEF MayUse, TOOL_SCOPES
      <3> QED  BY <2>1, <3>1, <3>2 DEF Offered, Policy!Needs
    <2>3. CASE a.tool \in {"squad_memory_read", "squad_history"}
      <3>1. MemoryCall(a) = "read"  BY <1>1, <2>3 DEF MemoryCall
      <3>2. "Squad.Memory" \in a.token.scopes  BY <2>1, <2>3 DEF MayUse, TOOL_SCOPES
      <3> QED  BY <2>1, <3>1, <3>2 DEF Offered, Policy!Needs
    <2> QED  BY <1>1, <2>2, <2>3 DEF MemoryTools
  <1>2. ASSUME a.tool \in BusinessTools, BusinessCall(a) # "nothing" PROVE Allowed(BusinessCall(a))
    <2>1. BusinessCall(a) = "advise" /\ MayUse(a.token, a.tool)  BY <1>2 DEF BusinessCall
    <2>2. "Squad.Business" \in a.token.scopes \/ "Squad.Backlog" \in a.token.scopes
      BY <1>2, <2>1 DEF BusinessTools, MayUse, TOOL_SCOPES
    <2> QED  BY <2>1, <2>2 DEF Offered, Policy!Needs
  <1>3. ASSUME a.tool = "squad_render_pptx", RenderCall(a) # "nothing" PROVE Allowed(RenderCall(a))
    <2>1. /\ RenderCall(a) = "render" /\ On(dep, "enableRenderPptx")
          /\ "Squad.Render" \in a.token.scopes
      BY <1>3 DEF RenderCall, MayUse, TOOL_SCOPES
    <2> QED  BY <2>1 DEF Offered, Policy!Needs
  <1>4. ASSUME a.tool = "squad_status", StatusCall(a) # "nothing" PROVE Allowed(StatusCall(a))
    <2>1. StatusCall(a) = "poll" /\ Gated /\ "Squad.Run" \in a.token.scopes
      BY <1>4 DEF StatusCall, MayUse, TOOL_SCOPES
    <2> QED  BY <2>1 DEF Offered, Policy!Needs
  <1>5. ASSUME CatalogCall(a) # "nothing" PROVE Allowed(CatalogCall(a))
    <2>1. Exposed(a.tool) /\ MayUse(a.token, a.tool)  BY <1>5 DEF CatalogCall
    <2>2. CASE a.tool \in Pipelines
      <3>1. Gated  BY <2>1, <2>2 DEF Exposed, Advisory, Pipelines
      <3>2. \/ CatalogCall(a) = "run" /\ "Squad.Run" \in a.token.scopes
            \/ CatalogCall(a) = "federate" /\ "Squad.Federate" \in a.token.scopes
        BY <1>5, <2>1, <2>2 DEF CatalogCall, Pipelines, MayUse, TOOL_SCOPES
      <3> QED  BY <3>1, <3>2 DEF Offered, Policy!Needs
    <2>3. CASE a.tool \in Advisory
      <3>1. CatalogCall(a) = "advise"  BY <1>5, <2>3 DEF CatalogCall, Advisory
      <3>2. \E x \in {"Squad.Research", "Squad.Review", "Squad.Plan", "Squad.Architect"} :
               x \in a.token.scopes
        BY <2>1, <2>3 DEF MayUse, TOOL_SCOPES, Advisory
      <3> QED  BY <3>1, <3>2 DEF Offered, Policy!Needs
    <2> QED  BY <2>1, <2>2, <2>3 DEF Exposed
  <1>6. ASSUME ResourceCall(a) # "nothing" PROVE Allowed(ResourceCall(a))
    <2>1. ResourceCall(a) = "read" /\ Broker /\ "Squad.Memory" \in a.token.scopes
      BY <1>6 DEF ResourceCall, MayUse, TOOL_SCOPES
    <2> QED  BY <2>1 DEF Offered, Policy!Needs
  <1> HIDE DEF Allowed
  <1>7. ASSUME ToolCall(a) # "nothing" PROVE Allowed(ToolCall(a))
    BY <1>1, <1>2, <1>3, <1>4, <1>5, <1>7 DEF ToolCall
  <1>8. Allowed(Dispatch(a))
    BY <1>6, <1>7 DEF Dispatch
  <1> QED  BY <1>8 DEF Allowed

\* Only sessions are asked to end.
LEMMA AskedEndsAreSessions == /\ TypeInv => EndAsked \subseteq Sids
                              /\ TypeInv' => (EndAsked \subseteq Sids)'
  <1>1. TypeInv => EndAsked \subseteq Sids
    <2> SUFFICES ASSUME TypeInv, NEW c \in Conns, conn[c].pc = "verifying", conn[c].sid # NoSid
                 PROVE  conn[c].sid \in Sids
      BY DEF EndAsked
    <2> QED  BY TokenIsCarried
  <1> QED  BY <1>1, PTL

\* A grant is a request past its checks.
LEMMA GrantsOf ==
    ASSUME TypeInv, NEW c \in Conns
    PROVE  /\ Grant[c] = Policy!NoGrant <=> conn[c].pc # "working"
           /\ conn[c].pc = "working" =>
                 Grant[c] = [right |-> conn[c].does, tenant |-> conn[c].tenant]
           /\ conn[c].pc # "working" => Grant[c] = Policy!NoGrant
  <1>1. conn[c].pc = "working" => conn[c].does \in Rights
    BY ConnFields DEF Calls, Requests, Holds, AtRest
  <1>2. ASSUME conn[c].pc = "working" PROVE Grant[c].right # "none"
    BY <1>1, <1>2 DEF Grant, Rights
  <1> QED  BY <1>2 DEF Grant, Policy!NoGrant

\* What is granted changes with the request it belongs to.
LEMMA GrantChange ==
    ASSUME TypeInv, NEW c \in Conns, NEW v, conn' = [conn EXCEPT ![c] = v]
    PROVE  Grant' = [Grant EXCEPT ![c] = IF v.pc = "working"
                                        THEN [right |-> v.does, tenant |-> v.tenant]
                                        ELSE Policy!NoGrant]
  BY DEF Grant, TypeInv, Policy!NoGrant

LEMMA GrantKept ==
    ASSUME TypeInv, NEW c \in Conns, conn[c].pc # "working",
           NEW v, conn' = [conn EXCEPT ![c] = v], v.pc # "working"
    PROVE  Grant' = Grant
  <1>1. Grant' = [Grant EXCEPT ![c] = Policy!NoGrant]  BY GrantChange
  <1> QED  BY <1>1, GrantsOf DEF Grant

\* Nothing that the policy follows changed, but for the ends that are asked for.
LEMMA QuietStep ==
    ASSUME BoundaryInv, BoundaryInv', UNCHANGED <<dep, up, now, Session, Grant, run, held, memory>>
    PROVE  Policy!Environment
  <1>1. Offered' = Offered /\ DriveOnPoll(dep)' = DriveOnPoll(dep)
    BY DEF Offered, Broker, Gated, On, DriveOnPoll
  <1>2. EndAsked' \subseteq Sids
    <2>1. TypeInv'  BY DEF BoundaryInv
    <2> QED  BY <2>1, AskedEndsAreSessions
  <1>3. ASSUME ~up, NEW c \in Conns PROVE Grant[c] = Policy!NoGrant
    <2>1. TypeInv /\ conn[c].pc # "working"  BY <1>3 DEF BoundaryInv, InFlight, AtRest
    <2> QED  BY <2>1, GrantsOf
  <1>4. Grant' = [c \in Conns |-> IF up' THEN Grant[c] ELSE Policy!NoGrant]
    BY <1>3 DEF Grant
  <1>5. Session' = [s \in Sids |-> IF up /\ ~up' /\ Policy!Live(s) THEN Policy!Over ELSE Session[s]]
    BY DEF Session
  <1>6. now' >= now  BY Bounds DEF BoundaryInv, TypeInv
  <1> QED  BY <1>1, <1>2, <1>4, <1>5, <1>6 DEF Policy!Environment, BoundaryInv, TypeInv

\* A session as the policy sees it.
LEMMA SessionOf ==
    ASSUME BoundaryInv, NEW s \in Sids
    PROVE  /\ Known(s) => Session[s] = [state |-> "live", owner |-> sessions[s].owner,
                                        until |-> sessions[s].lastSeen + IdleTime]
           /\ s \notin minted => Session[s] = [state |-> "unused"]
           /\ s \in minted /\ ~Known(s) => Session[s] = Policy!Over
           /\ Policy!Live(s) <=> Known(s)
           /\ Known(s) => /\ Session[s].owner = sessions[s].owner
                          /\ Session[s].until = sessions[s].lastSeen + IdleTime
                          /\ sessions[s].lastSeen \in Nat
  <1>1. Known(s) => s \in minted  BY DEF BoundaryInv, KeptIsMinted
  <1>2. ASSUME Known(s) PROVE sessions[s].lastSeen \in Nat
    <2>1. sessions[s] \in [kept : {TRUE}, owner : Identities, lastSeen : Nat]
      BY <1>2, KeptSession DEF Known, BoundaryInv, TypeInv
    <2> QED  BY <2>1
  <1>3. Known(s) => /\ Session[s].owner = sessions[s].owner
                    /\ Session[s].until = sessions[s].lastSeen + IdleTime
    BY <1>1 DEF Session
  <1>4. Policy!Live(s) <=> Known(s)
    BY <1>1 DEF Session, Policy!Live
  <1> QED  BY <1>1, <1>2, <1>3, <1>4 DEF Session, Policy!Over
-----------------------------------------------------------------------------
(* Every step is one the policy allows, or is none of its business. *)

PolicyStep == /\ Policy!Act /\ UNCHANGED <<now, up, Offered, DriveOnPoll(dep)>>
              /\ EndAsked' \subseteq Sids

LEMMA PolicyProcess ==
    ASSUME BoundaryInv, BoundaryInv', Boot \/ Crash \/ Tick
    PROVE  Policy!Environment
  <1> USE DEF BoundaryInv
  <1>1. Offered' = Offered /\ DriveOnPoll(dep)' = DriveOnPoll(dep)
    BY DEF Boot, Crash, Tick, Offered, Broker, Gated, On, DriveOnPoll
  <1>2. EndAsked' \subseteq Sids
    <2>1. TypeInv'  OBVIOUS
    <2> QED  BY <2>1, AskedEndsAreSessions
  <1>3. UNCHANGED <<run, held, memory>>  BY DEF Boot, Crash, Tick, engine
  <1>4. now' >= now  BY Bounds DEF Boot, Crash, Tick, TypeInv
  <1>5. SUFFICES
          /\ Grant' = [c \in Conns |-> IF up' THEN Grant[c] ELSE Policy!NoGrant]
          /\ Session' = [s \in Sids |-> IF up /\ ~up' /\ Policy!Live(s) THEN Policy!Over
                                        ELSE Session[s]]
    BY <1>1, <1>2, <1>3, <1>4 DEF Policy!Environment, TypeInv
  <1>6. CASE Boot \/ Tick
    <2>1. up' /\ Grant' = Grant  BY <1>6 DEF Boot, Tick, Grant
    <2>2. Session' = Session  BY <1>6 DEF Boot, Tick, Session, Known
    <2> QED  BY <2>1, <2>2 DEF Grant, Session
  <1>7. CASE Crash
    <2>1. /\ up /\ ~up' /\ minted' = minted
          /\ conn' = [c \in Conns |-> AtRest] /\ sessions' = [s \in Sids |-> Gone]
      BY <1>7 DEF Crash
    <2>2. Grant' = [c \in Conns |-> Policy!NoGrant]
      BY <2>1 DEF Grant, AtRest, Policy!NoGrant
    <2>3. \A s \in Sids : ~Known(s)'  BY <2>1 DEF Known, Gone
    <2>4. Session' = [s \in Sids |-> IF s \notin minted THEN [state |-> "unused"]
                                     ELSE Policy!Over]
      BY <2>1, <2>3 DEF Session, Policy!Over
    <2>5. \A s \in Sids : Session'[s] = IF Policy!Live(s) THEN Policy!Over ELSE Session[s]
      <3> SUFFICES ASSUME NEW s \in Sids
                   PROVE  Session'[s] = IF Policy!Live(s) THEN Policy!Over ELSE Session[s]
        OBVIOUS
      <3>1. Known(s) => s \in minted  BY DEF KeptIsMinted
      <3> QED  BY <2>4, <3>1, SessionOf
    <2> QED  BY <2>1, <2>2, <2>4, <2>5
  <1> QED  BY <1>6, <1>7

\* A session that is deleted was kept and ended, or is none.
LEMMA DeleteEnds ==
    ASSUME BoundaryInv, NEW s, Delete(s), UNCHANGED minted
    PROVE  /\ Known(s) => Session' = [Session EXCEPT ![s] = Policy!Over]
           /\ ~Known(s) => Session' = Session
  <1>1. \A x \in Sids : sessions'[x] = IF x = s THEN Gone ELSE sessions[x]  BY DEF Delete
  <1>2. \A x \in Sids : Known(x)' <=> Known(x) /\ x # s
    <2>1. Gone.kept = FALSE  BY DEF Gone
    <2> QED  BY <1>1, <2>1 DEF Known
  <1>3. \A x \in Sids : Session'[x] = IF x = s /\ Known(s) THEN Policy!Over ELSE Session[x]
    <2> SUFFICES ASSUME NEW x \in Sids
                 PROVE  Session'[x] = IF x = s /\ Known(s) THEN Policy!Over ELSE Session[x]
      OBVIOUS
    <2>1. CASE x = s
      <3>1. Known(s) => s \in minted  BY <2>1 DEF BoundaryInv, KeptIsMinted
      <3> QED  BY <1>2, <2>1, <3>1 DEF Session, Policy!Over
    <2>2. CASE x # s  BY <1>1, <1>2, <2>2 DEF Session
    <2> QED  BY <2>1, <2>2
  <1>4. Session' = [x \in Sids |-> Session'[x]] /\ Session = [x \in Sids |-> Session[x]]
    BY DEF Session
  <1>5. CASE Known(s)
    <2>1. s \in Sids  BY <1>5 DEF Known
    <2> QED  BY <1>3, <1>4, <1>5, <2>1
  <1>6. CASE ~Known(s)  BY <1>3, <1>4, <1>6
  <1> QED  BY <1>5, <1>6

LEMMA KeepExtends ==
    ASSUME BoundaryInv, NEW s, Known(s), sessions' = [sessions EXCEPT ![s].lastSeen = now],
           UNCHANGED minted
    PROVE  Session' = [Session EXCEPT ![s].until = now + IdleTime]
  <1>1. s \in Sids /\ sessions[s] \in [kept : {TRUE}, owner : Identities, lastSeen : Nat]
    BY KeptSession DEF Known, BoundaryInv, TypeInv
  <1>2. \A x \in Sids : sessions'[x] = IF x = s THEN [sessions[s] EXCEPT !.lastSeen = now]
                                       ELSE sessions[x]
    BY <1>1 DEF BoundaryInv, TypeInv
  <1>3. s \in minted  BY <1>1 DEF BoundaryInv, KeptIsMinted
  <1>4. \A x \in Sids : x # s => Session'[x] = Session[x]
    BY <1>2 DEF Session, Known
  <1>5. Session'[s] = [state |-> "live", owner |-> sessions[s].owner, until |-> now + IdleTime]
    <2>1. sessions'[s] = [sessions[s] EXCEPT !.lastSeen = now]  BY <1>1, <1>2
    <2>2. sessions'[s].owner = sessions[s].owner /\ sessions'[s].lastSeen = now
      BY <1>1, <2>1
    <2>3. sessions'[s].kept  BY <1>1, <2>1
    <2>4. Known(s)'  BY <1>1, <2>3 DEF Known
    <2> QED  BY <1>1, <1>3, <2>2, <2>4 DEF Session
  <1>6. Session[s] = [state |-> "live", owner |-> sessions[s].owner,
                      until |-> sessions[s].lastSeen + IdleTime]
    BY <1>1, SessionOf
  <1>7. Session' = [x \in Sids |-> Session'[x]] /\ Session = [x \in Sids |-> Session[x]]
    BY DEF Session
  <1> QED  BY <1>1, <1>4, <1>5, <1>6, <1>7

\* A request past its checks is a grant of its token's tenant.
LEMMA WorkingGrants ==
    ASSUME BoundaryInv, NEW c \in Conns, conn[c].pc = "verifying", NEW does, Working(c, does)
    PROVE  /\ does = "nothing" => Grant' = Grant
           /\ does # "nothing" =>
                 Grant' = [Grant EXCEPT ![c] = [right |-> does, tenant |-> Token(c).tenant]]
  <1>1. CASE does = "nothing"
    BY <1>1, GrantKept DEF Working, Answer, Goto, AtRest, BoundaryInv
  <1>2. CASE does # "nothing"
    <2> DEFINE v == [pc |-> "working", does |-> does, tenant |-> Token(c).tenant,
                     run |-> conn[c].run, target |-> conn[c].ask.target,
                     into |-> IF does = "write" THEN Destination(conn[c].ask) ELSE {}]
    <2>1. conn' = [conn EXCEPT ![c] = v]  BY <1>2 DEF Working, Goto
    <2>2. v.pc = "working" /\ v.does = does /\ v.tenant = Token(c).tenant  OBVIOUS
    <2> HIDE DEF v
    <2> QED  BY <1>2, <2>1, <2>2, GrantChange DEF BoundaryInv
  <1> QED  BY <1>1, <1>2

LEMMA PolicyHandle ==
    ASSUME BoundaryInv, BoundaryInv', NEW c \in Conns, Handle(c)
    PROVE  Policy!Environment \/ PolicyStep
  <1>1. UNCHANGED <<dep, up, now, run, held, memory, Offered, DriveOnPoll(dep)>>
    BY DEF Handle, Arrive, Refuse, Bare, Initialize, Serve, Approve, engine,
           Offered, Broker, Gated, On, DriveOnPoll
  <1>2. EndAsked \subseteq Sids /\ EndAsked' \subseteq Sids
    BY AskedEndsAreSessions DEF BoundaryInv
  <1>3. ASSUME UNCHANGED <<Session, Grant>> PROVE Policy!Environment
    BY <1>1, <1>3, QuietStep
  <1>4. CASE conn[c].pc # "verifying"
    <2>1. Arrive(c)
      BY <1>4 DEF Handle, Refuse, Bare, Initialize, Serve, Approve, Posted, Verifying
    <2>2. Session' = Session  BY <2>1 DEF Arrive, Session, Known
    <2>3. \E v : conn' = [conn EXCEPT ![c] = v] /\ v.pc # "working"
      <3>1. PICK a \in Asks : \E s, r :
                IF Admitted(a) THEN Goto(c, [pc |-> "verifying", ask |-> a, sid |-> s, run |-> r])
                               ELSE Answer(c)
        BY <2>1 DEF Arrive
      <3>2. CASE Admitted(a)
        <4>0. PICK s, r : Goto(c, [pc |-> "verifying", ask |-> a, sid |-> s, run |-> r])
          BY <3>1, <3>2
        <4> DEFINE q == [pc |-> "verifying", ask |-> a, sid |-> s, run |-> r]
        <4>1. q.pc = "verifying"  OBVIOUS
        <4>2. conn' = [conn EXCEPT ![c] = q]  BY <4>0 DEF Goto
        <4> QED  BY <4>1, <4>2
      <3>3. CASE ~Admitted(a)
        <4>1. conn' = [conn EXCEPT ![c] = AtRest]  BY <3>1, <3>3 DEF Goto, Answer
        <4>2. AtRest.pc = "idle"  BY DEF AtRest
        <4> QED  BY <4>1, <4>2
      <3> QED  BY <3>2, <3>3
    <2>4. conn[c].pc # "working"  BY <2>1 DEF Arrive, AtRest
    <2>5. Grant' = Grant  BY <2>3, <2>4, GrantKept DEF BoundaryInv
    <2> QED  BY <1>3, <2>2, <2>5
  <1>5. CASE conn[c].pc = "verifying"
    <2> USE <1>5
    <2>1. /\ conn[c].ask \in Asks /\ conn[c].sid \in Sids \cup {NoSid} /\ Token(c) \in Tokens
      BY TokenIsCarried DEF BoundaryInv
    <2>2. ASSUME Authentic(Token(c))
          PROVE  [who |-> Identity(Token(c)), scopes |-> Token(c).scopes] \in Callers
      BY <2>1, <2>2 DEF Callers
    <2>3. ASSUME Answer(c) PROVE Grant' = Grant
      <3>1. conn' = [conn EXCEPT ![c] = AtRest]  BY <2>3 DEF Goto, Answer
      <3>2. AtRest.pc = "idle"  BY DEF AtRest
      <3> QED  BY <3>1, <3>2, GrantKept DEF BoundaryInv
    <2>4. CASE Refuse(c)
      <3>1. Session' = Session  BY <2>4 DEF Refuse, Session, Known
      <3> QED  BY <1>3, <2>3, <2>4, <3>1 DEF Refuse
    <2>5. CASE Bare(c)
      <3>1. Grant' = Grant /\ minted' = minted  BY <2>3, <2>5 DEF Bare
      <3>2. CASE conn[c].ask.method = "DELETE" /\ Known(conn[c].sid)
        <4> DEFINE s == conn[c].sid
        <4>1. s \in Sids /\ Policy!Live(s)  BY <3>2, SessionOf DEF Known
        <4>2. s \in EndAsked  BY <3>2, <4>1 DEF EndAsked
        <4>3. Session' = [Session EXCEPT ![s] = Policy!Over]
          BY <2>5, <3>1, <3>2, DeleteEnds DEF Bare
        <4>4. Policy!End(s)  BY <1>1, <3>1, <4>1, <4>2, <4>3 DEF Policy!End
        <4>5. Policy!SessionStep  BY <4>1, <4>4 DEF Policy!SessionStep
        <4> QED  BY <1>1, <1>2, <4>5 DEF PolicyStep, Policy!Act
      <3>3. CASE conn[c].ask.method = "DELETE" /\ ~Known(conn[c].sid)
        BY <1>3, <2>5, <3>1, <3>3, DeleteEnds DEF Bare
      <3>4. CASE conn[c].ask.method # "DELETE"
        <4>1. Session' = Session  BY <2>5, <3>4 DEF Bare, Session, Known
        <4> QED  BY <1>3, <3>1, <4>1
      <3> QED  BY <3>2, <3>3, <3>4
    <2>6. CASE Initialize(c)
      <3> DEFINE who == Identity(Token(c))
      <3>1. PICK s \in Sids \ minted : Create(s, who)  BY <2>6 DEF Initialize
      <3>2. /\ minted' = minted \cup {s}
            /\ sessions' = [sessions EXCEPT ![s] = [kept |-> TRUE, owner |-> who, lastSeen |-> now]]
        BY <3>1 DEF Create
      <3>3. Session' = [Session EXCEPT ![s] = [state |-> "live", owner |-> who,
                                               until |-> now + IdleTime]]
        <4>1. \A x \in Sids : sessions'[x] = IF x = s
                                             THEN [kept |-> TRUE, owner |-> who, lastSeen |-> now]
                                             ELSE sessions[x]
          BY <3>2 DEF BoundaryInv, TypeInv
        <4>2. \A x \in Sids : x # s => Session'[x] = Session[x]
          BY <3>2, <4>1 DEF Session, Known
        <4>3. Known(s)'  BY <4>1 DEF Known
        <4>4. Session'[s] = [state |-> "live", owner |-> who, until |-> now + IdleTime]
          BY <3>2, <4>1, <4>3 DEF Session
        <4>5. Session' = [x \in Sids |-> Session'[x]] /\ Session = [x \in Sids |-> Session[x]]
          BY DEF Session
        <4> QED  BY <4>2, <4>4, <4>5
      <3>4. Grant' = Grant  BY <2>3, <2>6 DEF Initialize
      <3>5. Session[s].state = "unused"  BY <3>1 DEF Session
      <3>6. Policy!Open(s, who)  BY <1>1, <3>3, <3>4, <3>5 DEF Policy!Open
      <3>7. [who |-> who, scopes |-> Token(c).scopes] \in Callers
        BY <2>2, <2>6 DEF Initialize, Posted
      <3>8. Policy!SessionStep  BY <3>1, <3>6, <3>7 DEF Policy!SessionStep
      <3> QED  BY <1>1, <1>2, <3>8 DEF PolicyStep, Policy!Act
    <2>7. CASE Serve(c)
      <3> DEFINE who == Identity(Token(c))
                 s == conn[c].sid
                 does == Dispatch(conn[c].ask)
      <3>1. /\ Validate(s, who) /\ minted' = minted /\ Authentic(Token(c))
            /\ IF Valid(s, who) THEN Working(c, does) ELSE Answer(c)
        BY <2>7 DEF Serve, Posted
      <3>2. CASE Known(s) /\ IdleTooLong(s) /\ Delete(s)
        <4>1. s \in Sids /\ Policy!Live(s)  BY <3>2, SessionOf DEF Known
        <4>2. Session' = [Session EXCEPT ![s] = Policy!Over]  BY <3>1, <3>2, DeleteEnds
        <4>3. Grant' = Grant  BY <2>3, <3>1, <3>2 DEF Valid
        <4>4. now > Session[s].until
          <5>1. now \in Nat  BY Bounds DEF BoundaryInv, TypeInv
          <5>2. Session[s].until = sessions[s].lastSeen + IdleTime /\ sessions[s].lastSeen \in Nat
            BY <3>2, <4>1, SessionOf
          <5>3. now - sessions[s].lastSeen > IdleTime  BY <3>2 DEF IdleTooLong
          <5> HIDE DEF s
          <5> QED  BY <5>1, <5>2, <5>3, Bounds
        <4>5. Policy!End(s)  BY <1>1, <4>1, <4>2, <4>3, <4>4 DEF Policy!End
        <4>6. Policy!SessionStep  BY <4>1, <4>5 DEF Policy!SessionStep
        <4> QED  BY <1>1, <1>2, <4>6 DEF PolicyStep, Policy!Act
      <3>3. CASE Valid(s, who) /\ sessions' = [sessions EXCEPT ![s].lastSeen = now]
        <4>1. s \in Sids /\ Known(s) /\ Policy!Live(s)
          BY <3>3, SessionOf DEF Known, Valid
        <4>2. Session' = [Session EXCEPT ![s].until = now + IdleTime]
          BY <3>1, <3>3, <4>1, KeepExtends
        <4>3. Session[s].owner = who /\ now <= Session[s].until
          <5>1. now \in Nat  BY Bounds DEF BoundaryInv, TypeInv
          <5>2. /\ Session[s].until = sessions[s].lastSeen + IdleTime
                /\ Session[s].owner = sessions[s].owner
                /\ sessions[s].lastSeen \in Nat
            BY <4>1, SessionOf
          <5>3. ~(now - sessions[s].lastSeen > IdleTime) /\ sessions[s].owner = who
            BY <3>3 DEF IdleTooLong, Valid
          <5> HIDE DEF s, who
          <5> QED  BY <5>1, <5>2, <5>3, Bounds
        <4>4. Working(c, does)  BY <3>1, <3>3
        <4>5. PICK i \in Callers : i.who = who /\ i.scopes = Token(c).scopes
          BY <2>2, <3>1
        <4>6. \E right \in DOMAIN Policy!Needs : Policy!Use(s, i.who, i.scopes, c, right)
          <5>1. CASE does = "nothing"
            <6>1. Grant' = Grant  BY <4>4, <5>1, WorkingGrants
            <6>2. Policy!Use(s, i.who, i.scopes, c, "read")
              BY <1>1, <4>1, <4>2, <4>3, <4>5, <6>1 DEF Policy!Use
            <6> QED  BY <6>2 DEF Policy!Needs
          <5>2. CASE does # "nothing"
            <6>1. Grant' = [Grant EXCEPT ![c] = [right |-> does, tenant |-> who.tenant]]
              BY <4>4, <5>2, WorkingGrants DEF Identity
            <6>2. /\ does \in Offered /\ does # "release" /\ does \in DOMAIN Policy!Needs
                  /\ Token(c).scopes \cap Policy!Needs[does] # {}
              BY <5>2, DispatchIsAllowed DEF Token
            <6> HIDE DEF does
            <6>3. Policy!Use(s, i.who, i.scopes, c, does)
              BY <1>1, <4>1, <4>2, <4>3, <4>5, <6>1, <6>2 DEF Policy!Use
            <6> QED  BY <6>2, <6>3
          <5> QED  BY <5>1, <5>2
        <4>7. Policy!SessionStep  BY <4>1, <4>3, <4>5, <4>6 DEF Policy!SessionStep
        <4> QED  BY <1>1, <1>2, <4>7 DEF PolicyStep, Policy!Act
      <3>4. CASE UNCHANGED sessions /\ ~Valid(s, who)
        <4>1. Session' = Session  BY <3>1, <3>4 DEF Session, Known
        <4>2. Grant' = Grant  BY <2>3, <3>1, <3>4
        <4> QED  BY <1>3, <4>1, <4>2
      <3> HIDE DEF who, s, does
      <3> QED  BY <3>1, <3>2, <3>3, <3>4, ValidateCases DEF Valid
    <2>8. CASE Approve(c)
      <3>1. Session' = Session  BY <2>8 DEF Approve, Session, Known
      <3>2. CASE MayApprove(Token(c)) /\ conn[c].run # NoRun
        <4>1. Grant' = [Grant EXCEPT ![c] = [right |-> "release", tenant |-> Token(c).tenant]]
          BY <2>8, <3>2, WorkingGrants DEF Approve
        <4>2. Gated  BY <2>8 DEF Approve, Verifying, BoundaryInv, WasAdmitted, Admitted
        <4>3. "release" \in Offered  BY <4>2 DEF Offered
        <4>4. PICK i \in Callers : i.who = Identity(Token(c)) /\ i.scopes = Token(c).scopes
          BY <2>2, <2>8 DEF Approve
        <4>5. Policy!Operate(i.who, i.scopes, c)
          BY <1>1, <3>1, <3>2, <4>1, <4>3, <4>4
             DEF Policy!Operate, Policy!Needs, MayApprove, Identity
        <4> QED  BY <1>1, <1>2, <4>5 DEF PolicyStep, Policy!Act
      <3>3. CASE ~(MayApprove(Token(c)) /\ conn[c].run # NoRun)
        <4>1. Working(c, "nothing")  BY <2>8, <3>3 DEF Approve
        <4>2. Grant' = Grant  BY <4>1, WorkingGrants
        <4> QED  BY <1>3, <3>1, <4>2
      <3> QED  BY <3>2, <3>3
    <2>9. ~Arrive(c)  BY DEF Arrive, AtRest
    <2> QED  BY <2>4, <2>5, <2>6, <2>7, <2>8, <2>9 DEF Handle
  <1> QED  BY <1>4, <1>5

\* The write of the hold uses no grant.
LEMMA PolicyHold ==
    ASSUME BoundaryInv, BoundaryInv', NEW c \in Conns, HoldRun(c)
    PROVE  Policy!Environment \/ PolicyStep
  <1>1. /\ UNCHANGED <<dep, up, now, sessions, minted, run, memory, crashes>>
        /\ conn[c].pc = "holding" /\ conn' = [conn EXCEPT ![c] = AtRest]
        /\ conn[c].run \in Runs
        /\ held' = held \cup {conn[c].run} \/ UNCHANGED held
    BY ConnFields DEF HoldRun, Answer, Goto, AtRest, Requests, Calls, Holds, BoundaryInv
  <1>2. /\ Session' = Session /\ Offered' = Offered /\ DriveOnPoll(dep)' = DriveOnPoll(dep)
    BY <1>1 DEF Session, Known, Offered, Broker, Gated, On, DriveOnPoll
  <1>3. Grant' = Grant
    <2>1. AtRest.pc = "idle"  BY DEF AtRest
    <2> QED  BY <1>1, <2>1, GrantKept DEF BoundaryInv
  <1>4. CASE UNCHANGED held  BY <1>1, <1>2, <1>3, <1>4, QuietStep
  <1>5. CASE held' = held \cup {conn[c].run}
    <2>1. Policy!Hold(conn[c].run)  BY <1>1, <1>2, <1>3, <1>5 DEF Policy!Hold
    <2>2. EndAsked' \subseteq Sids  BY AskedEndsAreSessions DEF BoundaryInv
    <2> QED  BY <1>1, <1>2, <2>1, <2>2 DEF PolicyStep, Policy!Act
  <1> QED  BY <1>1, <1>4, <1>5

LEMMA PolicyEffect ==
    ASSUME BoundaryInv, BoundaryInv', NEW c \in Conns, Effect(c), ~HoldRun(c)
    PROVE  PolicyStep
  <1>1. /\ UNCHANGED <<dep, up, now, sessions, minted, crashes>>
        /\ conn[c] \in Calls
    BY ConnFields DEF Effect, StartRun, ReleaseRun, PollRun, WriteMemory, Finish, Does,
                      AtRest, Requests, Holds, BoundaryInv
  <1>2. /\ conn[c].pc = "working" /\ conn[c].does \in Rights /\ conn[c].tenant \in Tenants
        /\ conn[c].run \in Runs \cup {NoRun}
    BY <1>1 DEF Calls
  <1>3. /\ Grant[c] = [right |-> conn[c].does, tenant |-> conn[c].tenant]
        /\ Grant[c] # Policy!NoGrant
        /\ Grant[c].right = conn[c].does /\ Grant[c].tenant = conn[c].tenant
    BY <1>2, GrantsOf DEF BoundaryInv
  <1>4. Session' = Session /\ Offered' = Offered /\ DriveOnPoll(dep)' = DriveOnPoll(dep)
    BY <1>1 DEF Session, Known, Offered, Broker, Gated, On, DriveOnPoll
  <1>5. EndAsked' \subseteq Sids
    BY AskedEndsAreSessions DEF BoundaryInv
  <1>6. Policy!Spend(c)
    <2>1. \E v : conn' = [conn EXCEPT ![c] = v] /\ v.pc # "working"
      <3>1. PICK v \in {AtRest} \cup Holds : conn' = [conn EXCEPT ![c] = v]
        BY DEF Effect, StartRun, ReleaseRun, PollRun, WriteMemory, Finish, Answer, Goto, Holds
      <3>2. v.pc \in {"idle", "holding"}  BY DEF AtRest, Holds
      <3> QED  BY <3>1, <3>2
    <2>2. Grant' = [Grant EXCEPT ![c] = Policy!NoGrant]
      BY <2>1, GrantChange DEF BoundaryInv
    <2> QED  BY <1>4, <2>2 DEF Policy!Spend
  <1>7. SUFFICES Policy!GrantStep
    BY <1>1, <1>4, <1>5 DEF PolicyStep, Policy!Act
  <1>8. CASE StartRun(c)
    <2>1. PICK r \in Runs : /\ run[r] = NotRun
                            /\ run' = [run EXCEPT ![r] = [status |-> "waiting", tenant |-> conn[c].tenant]]
      BY <1>8 DEF StartRun
    <2>2. Grant[c].right \in {"run", "federate"}  BY <1>3, <1>8 DEF StartRun, Does
    <2>3. run[r].status = "none" /\ UNCHANGED <<held, memory>>  BY <1>8, <2>1 DEF StartRun, NotRun
    <2>4. Policy!Start(c, r, Grant[c].tenant)
      BY <1>3, <1>6, <2>1, <2>2, <2>3 DEF Policy!Start, Policy!Granted
    <2> QED  BY <1>3, <2>4 DEF Policy!GrantStep
  <1>9. CASE ReleaseRun(c)
    <2>1. conn[c].run \in Runs  BY <1>2, <1>9 DEF ReleaseRun, Owned
    <2>2. Policy!Release(c, conn[c].run)
      BY <1>3, <1>6, <1>9 DEF ReleaseRun, Does, Owned, Status, Policy!Release, Policy!Granted
    <2> QED  BY <1>3, <2>1, <2>2 DEF Policy!GrantStep
  <1>10. CASE PollRun(c)
    <2>1. conn[c].run \in Runs  BY <1>2, <1>10 DEF PollRun, Owned
    <2>2. Policy!Granted(c, {"poll"}, run[conn[c].run].tenant)
      BY <1>3, <1>10 DEF PollRun, Does, Owned, Policy!Granted
    <2>3. Policy!DriveOnPoll(c, conn[c].run)
      BY <1>6, <1>10, <2>2 DEF PollRun, Status, Policy!DriveOnPoll, Policy!Driven
    <2> QED  BY <1>3, <2>1, <2>3 DEF Policy!GrantStep
  <1>11. CASE WriteMemory(c)
    <2>1. PICK p \in conn[c].into :
             memory' = [memory EXCEPT ![conn[c].tenant] = @ \cup {<<p, conn[c].target>>}]
      BY <1>11 DEF WriteMemory
    <2>2. <<p, conn[c].target>> \in Landings
      BY <1>1 DEF Calls, Landings, Names
    <2>3. Policy!Write(c, Grant[c].tenant, <<p, conn[c].target>>)
      BY <1>3, <1>6, <1>11, <2>1 DEF WriteMemory, Does, Policy!Write, Policy!Granted
    <2> QED  BY <1>3, <2>2, <2>3 DEF Policy!GrantStep
  <1>12. CASE Finish(c)
    <2>1. Policy!Drop(c)  BY <1>3, <1>6, <1>12 DEF Finish, engine, Policy!Drop
    <2> QED  BY <1>3, <2>1 DEF Policy!GrantStep
  <1> QED  BY <1>8, <1>9, <1>10, <1>11, <1>12 DEF Effect

LEMMA PolicyWorker ==
    ASSUME BoundaryInv, NEW r \in Runs, WorkerDrives(r)
    PROVE  PolicyStep
  <1>1. /\ UNCHANGED <<dep, up, now, sessions, minted, conn, held, memory, crashes>>
        /\ ~DriveOnPoll(dep) /\ run' = [run EXCEPT ![r].status = "driven"]
        /\ run[r].status = "released" \/ (run[r].status = "waiting" /\ r \notin held)
    BY DEF WorkerDrives, Status
  <1>2. /\ Session' = Session /\ Grant' = Grant /\ Offered' = Offered /\ EndAsked' = EndAsked
        /\ DriveOnPoll(dep)' = DriveOnPoll(dep)
    BY <1>1 DEF Session, Known, Grant, Offered, Broker, Gated, On, EndAsked, DriveOnPoll
  <1>3. Policy!DriveInBackground(r)
    BY <1>1, <1>2 DEF Policy!DriveInBackground, Policy!Driven
  <1>4. EndAsked' \subseteq Sids  BY <1>2, AskedEndsAreSessions DEF BoundaryInv
  <1> QED  BY <1>1, <1>2, <1>3, <1>4 DEF PolicyStep, Policy!Act

LEMMA PolicyInit == Init => Policy!Init
  <1> SUFFICES ASSUME Init PROVE Policy!Init
    OBVIOUS
  <1>1. Offered \subseteq DOMAIN Policy!Needs  BY DEF Offered, Policy!Needs
  <1>2. EndAsked = {}  BY DEF Init, EndAsked, AtRest
  <1>3. Session = [s \in Sids |-> [state |-> "unused"]]  BY DEF Init, Session
  <1>4. Grant = [c \in Conns |-> Policy!NoGrant]  BY DEF Init, Grant, AtRest, Policy!NoGrant
  <1> QED  BY <1>1, <1>2, <1>3, <1>4 DEF Init, NotRun, Policy!Init

LEMMA PolicyNext == BoundaryInv /\ [Next]_vars => [Policy!Next]_(Policy!vars)
  <1> SUFFICES ASSUME BoundaryInv, [Next]_vars PROVE [Policy!Next]_(Policy!vars)
    OBVIOUS
  <1>1. BoundaryInv'  BY BoundaryNext
  <1>2. CASE UNCHANGED vars
    <2>1. UNCHANGED <<dep, up, now, sessions, minted, conn, run, held, memory, crashes>>
      BY <1>2 DEF vars, engine
    <2>2. /\ Session' = Session /\ Grant' = Grant /\ Offered' = Offered /\ EndAsked' = EndAsked
          /\ DriveOnPoll(dep)' = DriveOnPoll(dep)
      BY <2>1 DEF Session, Known, Grant, Offered, Broker, Gated, On, EndAsked, DriveOnPoll
    <2> QED  BY <2>1, <2>2 DEF Policy!vars
  <1>3. CASE Next
    <2>1. Policy!Environment \/ PolicyStep
      BY <1>1, <1>3, PolicyProcess, PolicyHandle, PolicyHold, PolicyEffect, PolicyWorker DEF Next
    <2> QED  BY <2>1 DEF PolicyStep, Policy!Next
  <1> QED  BY <1>2, <1>3

\* Whatever is done through the boundary, AccessPolicy allows: a session ends only
\* for a reason and never comes back, what is done was granted on a live session
\* of the caller's and a scope, or to an operator, and a run is driven by a poll of
\* its tenant once an operator of its tenant released it, or by a worker, which
\* takes one that nobody released only while its record does not say that it is
\* held (SessionStore, handle, handleToolCall, handleAdminApprove, driveClaimable).
THEOREM BoundaryKeepsPolicy == Spec => ImplementsPolicy
  BY PolicyInit, PolicyNext, BoundaryInductive, PTL DEF Spec, ImplementsPolicy, Policy!Spec
===============================================================================
