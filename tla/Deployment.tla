------------------------------ MODULE Deployment ------------------------------
(***************************************************************************)
(* What an operator sets, which settings the processes accept at boot, and *)
(* what they build from them.                                              *)
(*                                                                         *)
(* A deployment d is a record: d.set holds the switches that are on and    *)
(* the values that are given, the other fields hold the choices.  A target *)
(* is declared with its own directory, account or drive when "own" holds.  *)
(***************************************************************************)
EXTENDS FiniteSets

\* "wildcardOrigin", "badProject" and "badKey" are values of the wrong form.
Flags == {"audience", "wildcardOrigin", "modelEndpoint", "endpointAllowed", "jwksUri",
          "remotePipelineEnabled", "workerEnabled", "advisoryAutopilotEnabled", "runStateDir",
          "storageAccount", "enableRenderPptx", "renderPythonPath", "renderScriptsDir",
          "enableMemory", "memoryDir", "memoryGraphDriveId", "memoryAutoEnabled", "badProject",
          "enableArtifacts", "enableBusinessTools", "memoryOverflowEnabled",
          "memoryOverflowContainer", "badKey"}
Kinds == {"file", "table", "graph"}

TargetSpec(names) == [name : names, backend : Kinds, own : BOOLEAN]

Given(d, fs) == fs \subseteq d.set
On(d, f) == f \in d.set
-----------------------------------------------------------------------------
(* loadOperatorConfig: the combinations that are refused. *)

EndpointsAccepted(d) ==
    /\ On(d, "audience") /\ ~On(d, "wildcardOrigin")
    /\ On(d, "modelEndpoint") => On(d, "endpointAllowed")

\* Mutant: the worker is accepted over the directory of one replica.
RunStateAcceptedAnyStore(d) ==
    /\ On(d, "remotePipelineEnabled") =>
          On(d, IF d.runStateBackend = "table" THEN "storageAccount" ELSE "runStateDir")
    /\ On(d, "workerEnabled") => On(d, "remotePipelineEnabled")

RunStateAccepted(d) ==
    /\ On(d, "remotePipelineEnabled") =>
          On(d, IF d.runStateBackend = "table" THEN "storageAccount" ELSE "runStateDir")
    /\ On(d, "workerEnabled") => On(d, "remotePipelineEnabled") /\ d.runStateBackend = "table"

RenderAccepted(d) ==
    On(d, "enableRenderPptx") =>
        Given(d, {"storageAccount", "renderPythonPath", "renderScriptsDir"})

\* What a memory store needs of the global settings.
PlaceOf(kind) == CASE kind = "table" -> "storageAccount"
                   [] kind = "file"  -> "memoryDir"
                   [] kind = "graph" -> "memoryGraphDriveId"

MemoryAccepted(d) == On(d, "enableMemory") => On(d, PlaceOf(d.memoryBackend))

\* parseMemoryTargets: names are well formed and distinct, and a directory or
\* a drive is the target's own; an account is not asked for.
TargetsWellFormed(d) ==
    /\ \A t \in d.memoryTargets : /\ t.name # ""
                                  /\ t.backend \in {"file", "graph"} => t.own
    /\ \A t, u \in d.memoryTargets : t.name = u.name => t = u

NamesOf(d) == {t.name : t \in d.memoryTargets}

TargetsAccepted(d) ==
    /\ TargetsWellFormed(d)
    /\ d.memoryTargets # {} => /\ On(d, "enableMemory")
                               /\ d.memoryDefaultTarget \in NamesOf(d)

OptionsAccepted(d) ==
    /\ ~On(d, "badProject")
    /\ On(d, "memoryAutoEnabled") => On(d, "enableMemory")
    /\ On(d, "enableArtifacts") => On(d, "enableMemory")
    /\ On(d, "advisoryAutopilotEnabled") => On(d, "remotePipelineEnabled")
    /\ On(d, "enableBusinessTools") => On(d, "modelEndpoint")
    /\ On(d, "memoryOverflowEnabled") =>
          Given(d, {"enableMemory", "storageAccount", "memoryOverflowContainer"})

Accepted(d) ==
    /\ EndpointsAccepted(d) /\ RunStateAccepted(d) /\ RenderAccepted(d)
    /\ MemoryAccepted(d) /\ TargetsAccepted(d) /\ OptionsAccepted(d)
-----------------------------------------------------------------------------
(* buildRunStateStack, buildSquadMemoryStack, buildHttpHandler, buildWorker. *)

\* The cipher of a stack is built from the key, which must be a key.
CipherBuilt(d) ==
    On(d, "remotePipelineEnabled") \/ On(d, "enableMemory") => ~On(d, "badKey")

WebStarts(d) == Accepted(d) /\ On(d, "jwksUri") /\ CipherBuilt(d)

\* The worker loads the same settings; it refuses to start without a run-state stack.
WorkerStarts(d) == Accepted(d) /\ On(d, "remotePipelineEnabled") /\ ~On(d, "badKey")

\* A store of the given kind has somewhere to keep what it is given: the
\* target's own place or, for a table or a directory, the global one.
HasPlace(d, t) == t.own \/ (t.backend # "graph" /\ On(d, PlaceOf(t.backend)))

\* The destinations behind the memory store: those declared, or a single one.
Single(d) == [name |-> "", backend |-> d.memoryBackend, own |-> On(d, PlaceOf(d.memoryBackend))]
Destinations(d) == IF d.memoryTargets = {} THEN {Single(d)} ELSE d.memoryTargets

\* Where a call that reaches the whole store ends up.
DefaultOf(d) == IF d.memoryTargets = {} THEN "" ELSE d.memoryDefaultTarget

\* asTargetedStore recognises a targeted store only when it is the outermost one.
Selectable(d) == d.memoryTargets # {} /\ ~On(d, "memoryOverflowEnabled")

DriveOnPoll(d) == ~On(d, "workerEnabled")

\* The process that drives an approved run: a replica of the web tier that is
\* polled, or a worker that sees the same records.
HasDriver(d) == DriveOnPoll(d) \/ (WorkerStarts(d) /\ d.runStateBackend = "table")

===============================================================================
