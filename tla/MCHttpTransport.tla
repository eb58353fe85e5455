--------------------------- MODULE MCHttpTransport ---------------------------
(* An instance of HttpTransport for TLC: a deployment with everything set  *)
(* and any two of its switches flipped, a bare one and any one flipped; and *)
(* the requests of two callers of a tenant, one of another, and strangers.  *)
EXTENDS HttpTransport, TLC

Everything == Flags \ {"wildcardOrigin", "badProject", "badKey"}
Bare0 == {"audience", "jwksUri", "remotePipelineEnabled", "runStateDir"}
Flips == {{f, g} : f \in Flags, g \in Flags} \cup {{}}
Flip(base, f) == (base \ f) \cup (f \ base)

Spec1(name, kind, own) == [name |-> name, backend |-> kind, own |-> own]
TargetSets == {{}, {Spec1("main", "file", TRUE), Spec1("other", "graph", TRUE)},
               {Spec1("main", "table", FALSE), Spec1("main", "file", TRUE)},
               {Spec1("main", "graph", FALSE)}, {Spec1("", "file", TRUE)}}

MCDeployments ==
    [set : {Flip(Everything, f) : f \in Flips} \cup {Flip(Bare0, {f}) : f \in Flags} \cup {Bare0},
     runStateBackend : {"file", "table"}, memoryBackend : Kinds,
     memoryTargets : TargetSets, memoryDefaultTarget : {"main", "gone"}]

Plain(set, runs, targets) ==
    [set |-> set, runStateBackend |-> runs, memoryBackend |-> "file",
     memoryTargets |-> targets, memoryDefaultTarget |-> "main"]
Two == {Spec1("main", "file", TRUE), Spec1("other", "graph", TRUE)}
MCServed == {Plain(Everything \ {"memoryOverflowEnabled"}, "table", Two),
             Plain(Bare0, "file", {})}
OverflowServed == {Plain(Everything, "table", Two)}

Caller(tenant, subject, scopes) ==
    [verifies |-> TRUE, aud |-> {"squad"}, issuer |-> "entra", tenant |-> tenant,
     subject |-> subject, scopes |-> scopes]
Alice == Caller("t1", "alice", {"Squad.Run", "Squad.Memory", "Squad.MemoryWrite"})
Bob   == Caller("t1", "bob", {"Squad.Operate"})
Carol == Caller("t2", "carol", {"Squad.Run", "Squad.Memory", "Squad.Operate"})
Other == [Alice EXCEPT !.aud = {"mail"}]
Foreign == [Alice EXCEPT !.issuer = "other"]

Ask(token, rpc, tool) ==
    [token |-> token, https |-> TRUE, size |-> "fits", origin |-> "none", path |-> "/mcp",
     method |-> "POST", rpc |-> rpc, tool |-> tool, target |-> "", wellFormed |-> TRUE]
Tool(token, tool) == Ask(token, "tools/call", tool)
Admin(token) == [Ask(token, "", "") EXCEPT !.path = "/admin/approve"]

MCAsks ==
    {Ask(t, "initialize", "") : t \in {Alice, Carol, Other, Foreign}}
    \cup {Tool(Alice, "squad_run"), Tool(Alice, "squad_status"), Tool(Carol, "squad_status"),
          [Tool(Alice, "squad_memory_write") EXCEPT !.target = "other"],
          Tool(Carol, "squad_memory_sync"), Ask(Carol, "resources/list", ""),
          [Tool(Alice, "squad_research") EXCEPT !.origin = "foreign"],
          [Ask(Bob, "", "") EXCEPT !.method = "DELETE"],
          Admin(Alice), Admin(Bob), Admin(Carol)}
OverflowAsks ==
    {Ask(Alice, "initialize", "")}
    \cup {[Tool(Alice, "squad_memory_write") EXCEPT !.target = x] : x \in {"", "other", "typo"}}

CONSTANTS c1, c2
Symmetric == Permutations({c1, c2})
===============================================================================
