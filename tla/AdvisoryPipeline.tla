-------------------------- MODULE AdvisoryPipeline --------------------------
(***************************************************************************)
(* One advisory run: the gate's judgement of its roster, the roster the    *)
(* project was seeded with, the plan, and the pipeline that executes it    *)
(* stage by stage, pausing, halting or failing on the way.                 *)
(*                                                                         *)
(* The members of a council are dispatched together and answer in any      *)
(* order; every other stage is one completion.  Between a completion and   *)
(* the next stage the section is persisted and the decision is logged:     *)
(* those are calls of stores, and each is a step of its own.               *)
(*                                                                         *)
(* A section is the index of its stage in the plan.                        *)
(***************************************************************************)
EXTENDS AdvisoryRouting

CONSTANTS
    Requests,       \* the requests clients make
    Tools,          \* the tools a run is started through: [gates, catchAll, tier,
                    \* role], role being "none" when the request is routed
    Casts,          \* the sets of agents that may be deployed
    NoProfile,      \* a project without a team.md
    AutopilotRelease, \* advisoryAutopilotEnabled
    Prices,         \* what a completion may cost; 0 is an unreported usage
    CeilingUsd      \* the run's cost ceiling, when it is metered

ASSUME RequestsAssumption == \A r \in Requests : r.mode \in RawModes
ASSUME CostAssumption == Prices \subseteq Nat /\ CeilingUsd \in Nat
ASSUME ReleaseAssumption == AutopilotRelease \in BOOLEAN
ASSUME NoProfileAssumption == NoProfile \notin ProfileNames

VARIABLES
    req,        \* the request
    tool,       \* the tool it came through
    driveMode,  \* the mode the caller of the pipeline passes, "none" for none
    metered,    \* a RunCostLedger is wired
    finalHold,  \* a final hold is wired, and would hold
    cast,       \* the agents deployed
    driver,     \* who drives the runs that clients start: "replica", where
                \* polls do, or "worker", which has no recorder
    team,       \* the profile in the project's team.md
    approved,   \* an operator approved the run
    profile,    \* the profile the run is planned with
    plan,       \* the ordered stages
    pc,         \* where the pipeline is
    next,       \* index of the stage at hand
    opinions,   \* the council members that have answered
    verdict,    \* the council verdict, "none" before one
    conditions, \* its conditions
    readiness,  \* the intake verdict, "none" before one
    sections,   \* stages: the sections produced
    prior,      \* priorArtifact: the section handed to the next stage, 0 for none
    spent,      \* RunCostLedger.spent, or what it would hold
    consumed,   \* what the backend really charged
    usage,      \* what the result's usage list adds up to
    charged,    \* what was added to the tenant's monthly spend
    persisted,  \* the sections in the run record
    stored,     \* the verdict in the run record
    outcome     \* the outcome reported, "none" while it runs

inputs == <<req, tool, driveMode, metered, finalHold, cast, driver>>
roster == <<team, approved, profile, plan>>
judged == <<opinions, verdict, conditions, readiness>>
record == <<persisted, stored>>
money  == <<spent, consumed, usage>>
vars   == <<inputs, roster, pc, next, judged, sections, prior, money, charged,
            record, outcome>>

Running == {"check", "stage", "council", "verdict", "persist", "decide", "advance"}
PC == {"gate", "held", "queued", "open", "charge", "paused", "finish", "ended"} \cup Running
Outcome == {"none", "completed", "held", "halted", "failed", "complete"}

Init ==
    /\ req \in Requests /\ tool \in Tools /\ cast \in Casts
    /\ driveMode \in {"none", "autopilot"}
    /\ metered \in BOOLEAN /\ finalHold \in BOOLEAN /\ driver \in {"replica", "worker"}
    /\ team \in ProfileNames \cup {NoProfile}
    /\ approved = FALSE /\ profile = ResolveProfile(req.profile) /\ plan = <<>>
    /\ pc = "gate" /\ next = 1
    /\ opinions = {} /\ verdict = "none" /\ conditions = {} /\ readiness = "none"
    /\ sections = <<>> /\ prior = 0
    /\ spent = 0 /\ consumed = 0 /\ usage = 0 /\ charged = 0
    /\ persisted = <<>> /\ stored = "none"
    /\ outcome = "none"

Stage   == plan[next]
runMode == NormalizeAdvisoryMode(IF driveMode = "none" THEN req.mode ELSE driveMode)
Goto(where) == pc' = where /\ outcome' = outcome
End(result) == pc' = "charge" /\ outcome' = result
-----------------------------------------------------------------------------
(* Before the pipeline. *)

\* startHttpRun: the gate judges the roster of the profile the caller named, and
\* holds the run or queues it.  An ungated tool is dispatched at once.
Classify ==
    /\ pc = "gate"
    /\ Goto(IF ~Gated(tool) THEN "open"
            ELSE IF Proceeds(tool, FALSE, AutopilotRelease, IsAdvisoryOnly(profile))
                 THEN "queued" ELSE "held")
    /\ UNCHANGED <<inputs, roster, next, judged, sections, prior, money, charged, record>>

\* An operator approves the run out-of-band, and a poll or the worker drives it.
\* A poll asks for the approval of a queued run, too.
Approve ==
    /\ pc \in {"held", "queued"}
    /\ approved' = TRUE
    /\ Goto("open")
    /\ UNCHANGED <<inputs, team, profile, plan, next, judged, sections, prior, money,
                   charged, record>>

\* The worker does not: a queued run is a running one without a lease.
WorkerDrives ==
    /\ pc = "queued" /\ driver = "worker"
    /\ Goto("open")
    /\ UNCHANGED <<inputs, roster, next, judged, sections, prior, money, charged, record>>

\* Another run of the project is the first to seed its team.md.
OtherRunSeeds ==
    /\ team = NoProfile /\ pc \in {"gate", "held", "queued", "open"}
    /\ team' \in ProfileNames
    /\ UNCHANGED <<inputs, approved, profile, plan, pc, next, judged, sections, prior,
                   money, charged, record, outcome>>

\* A replica has a run recorder; a worker is built without one.
Recorded == driver = "replica" \/ ~Gated(tool)

\* withMemory opens the ledger: an existing team.md wins over the profile the
\* caller named, and the plan is made from the profile that won.
Open ==
    /\ pc = "open"
    /\ team' = IF Recorded /\ team = NoProfile THEN profile ELSE team
    /\ profile' = IF Recorded THEN team' ELSE profile
    /\ plan' = IF tool.role = "none" THEN PlanAdvisoryStages(req, profile', cast)
               ELSE <<Persona(tool.role)>>
    /\ Goto("check")
    /\ UNCHANGED <<inputs, approved, next, judged, sections, prior, money, charged, record>>
-----------------------------------------------------------------------------
(* The stage loop. *)

\* Mutant: the ceiling is only looked at once it has been passed.
LateCheck == spent <= CeilingUsd
Affordable == spent < CeilingUsd

\* The ceiling is checked before the stage, and before any call.
Check ==
    /\ pc = "check"
    /\ IF next > Len(plan) THEN Goto("finish")
       ELSE IF metered /\ ~Affordable THEN End("halted")
       ELSE Goto("stage")
    /\ UNCHANGED <<inputs, roster, next, judged, sections, prior, money, charged, record>>

\* Mutant: the first section is what every stage is handed.
HandOnFirst == prior' = IF prior = 0 THEN next ELSE prior

\* A section is pushed, and handed to the next stage unless it is an offer.
Push   == sections' = Append(sections, next)
HandOn == prior' = next

OfferExtension ==
    /\ pc = "stage" /\ Stage.kind = "extension"
    /\ Push
    /\ Goto("persist")
    /\ UNCHANGED <<inputs, roster, next, judged, prior, money, charged, record>>

DispatchCouncil ==
    /\ pc = "stage" /\ Stage.kind = "council"
    /\ opinions' = {}
    /\ Goto("council")
    /\ UNCHANGED <<inputs, roster, next, verdict, conditions, readiness, sections, prior,
                   money, charged, record>>

\* A member's completion arrives.  What it cost is on the backend's bill now,
\* and in the ledger only once every member has answered.
MemberAnswers(role, finding, price) ==
    /\ pc = "council" /\ Contains(Stage.members, role)
    /\ \A o \in opinions : o.agent # role
    /\ opinions' = opinions \cup
          {[agent |-> role, verdict |-> ParseMemberVerdict(finding),
            conditions |-> finding.conditions, price |-> price]}
    /\ consumed' = consumed + price
    /\ UNCHANGED <<inputs, roster, pc, next, verdict, conditions, readiness, sections, prior,
                   spent, usage, charged, record, outcome>>

\* What the member of a role has cost: nothing until it has answered.
Price(ops, role) ==
    LET own == {o \in ops : o.agent = role}
    IN  IF own = {} THEN 0 ELSE (CHOOSE o \in own : TRUE).price

LastMember == Last(Stage.members)
Total(ops) == SumOf([i \in DOMAIN Stage.members |-> Price(ops, Stage.members[i])])

\* Mutant: the ledger, as the result does, keeps one member's usage.
LastUsage == Price(opinions, LastMember)
RecordLastUsage == spent' = spent + LastUsage

RecordCouncilUsage == spent' = spent + Total(opinions)

\* Mutant: it waits for as many answers as the request touches lenses.
AllLensesAnswered == Cardinality(opinions) = Cardinality(CrossedCouncilDomains(req.words))
AllAnswered       == Cardinality(opinions) = Len(Stage.members)

\* Every member has answered.  The result carries the usage of the last one.
Synthesize ==
    /\ pc = "council" /\ AllAnswered
    /\ verdict' = SynthesizeVerdict(opinions)
    /\ conditions' = SynthesizeConditions(opinions)
    /\ RecordCouncilUsage
    /\ usage' = usage + LastUsage
    /\ Push
    /\ HandOn
    /\ Goto("persist")
    /\ UNCHANGED <<inputs, roster, next, opinions, readiness, consumed, charged, record>>

\* A persona completes; an intake validator's text carries its verdict, and a
\* text without a readable one counts as Ready-With-Gaps.
IntakeVerdicts == {"Ready", "Ready-With-Gaps", "Not-Ready"}
PersonaAnswers(price, intake) ==
    /\ pc = "stage" /\ Stage.kind = "persona"
    /\ consumed' = consumed + price
    /\ spent' = spent + price
    /\ usage' = usage + price
    /\ Push
    /\ HandOn
    /\ readiness' = IF Stage.role = "intake-validator" THEN intake ELSE readiness
    /\ Goto("persist")
    /\ UNCHANGED <<inputs, roster, next, opinions, verdict, conditions, charged, record>>

\* A completion fails: the pipeline throws, and the run is failed.
BackendFails ==
    /\ \/ pc = "stage" /\ Stage.kind = "persona"
       \/ pc = "council" /\ Cardinality(opinions) < Len(Stage.members)
    /\ pc' = "ended" /\ outcome' = "failed"
    /\ UNCHANGED <<inputs, roster, next, judged, sections, prior, money, charged, record>>

PersistStage ==
    /\ pc = "persist"
    /\ persisted' = Append(persisted, next)
    /\ Goto(IF Stage.kind = "council" THEN "verdict" ELSE "decide")
    /\ UNCHANGED <<inputs, roster, next, judged, sections, prior, money, charged, stored>>

PersistVerdict ==
    /\ pc = "verdict"
    /\ stored' = verdict
    /\ Goto("decide")
    /\ UNCHANGED <<inputs, roster, next, judged, sections, prior, money, charged, persisted>>

\* A call of the run store throws.
PersistFails ==
    /\ pc \in {"persist", "verdict"}
    /\ pc' = "ended" /\ outcome' = "failed"
    /\ UNCHANGED <<inputs, roster, next, judged, sections, prior, money, charged, record>>

Halts ==
    \/ Stage.kind = "council" /\ verdict = "Stop"
    \/ Stage.kind = "persona" /\ Stage.role = "intake-validator" /\ readiness = "Not-Ready"

TwoFurther == next + 2
NextIndex == next + 1

\* The decision is logged (a failing ledger is swallowed), then the run halts,
\* pauses or goes on.
Decide ==
    /\ pc = "decide"
    /\ IF Halts THEN End("halted") /\ next' = next
       ELSE /\ next' = NextIndex
            /\ Goto(IF runMode = "interactive" /\ next < Len(plan) THEN "paused" ELSE "check")
    /\ UNCHANGED <<inputs, roster, judged, sections, prior, money, charged, record>>

\* The pipeline is called again with the resume token; no entry point does.
Resume ==
    /\ pc = "paused"
    /\ Goto("check")
    /\ UNCHANGED <<inputs, roster, next, judged, sections, prior, money, charged, record>>

Finish ==
    /\ pc = "finish"
    /\ End(IF finalHold THEN "held" ELSE "completed")
    /\ UNCHANGED <<inputs, roster, next, judged, sections, prior, money, charged, record>>

\* executeAdvisoryRun, which drives in autopilot, charges the usage list to
\* the tenant and completes the run, whatever the outcome of the pipeline was.
Charge ==
    /\ pc = "charge"
    /\ charged' = IF driveMode = "autopilot" THEN usage ELSE charged
    /\ pc' = "ended" /\ UNCHANGED outcome
    /\ UNCHANGED <<inputs, roster, next, judged, sections, prior, money, record>>

Council ==
    \/ DispatchCouncil
    \/ \E role \in CouncilRoles, finding \in Finding, price \in Prices :
          MemberAnswers(role, finding, price)
    \/ Synthesize
PersonaStage == \E price \in Prices, intake \in IntakeVerdicts :
                    PersonaAnswers(price, intake)
Pipeline ==
    \/ Classify \/ WorkerDrives \/ Open \/ Check \/ OfferExtension \/ Council \/ PersonaStage
    \/ PersistStage \/ PersistVerdict \/ Decide \/ Finish \/ Charge
Failure == BackendFails \/ PersistFails

Next == Pipeline \/ Approve \/ Resume \/ OtherRunSeeds \/ Failure

Spec == Init /\ [][Next]_vars

\* The server and the worker go on; nobody has to approve or to resume a run.
FairSpec == Spec /\ WF_vars(Pipeline \/ Failure)
-----------------------------------------------------------------------------
\* The types of the variables.
TypeOK ==
    /\ req \in Requests /\ tool \in Tools /\ cast \in Casts
    /\ driveMode \in RawModes /\ {metered, finalHold, approved} \subseteq BOOLEAN
    /\ driver \in {"replica", "worker"}
    /\ team \in ProfileNames \cup {NoProfile} /\ profile \in ProfileNames
    /\ pc \in PC /\ next \in 1..(Len(plan) + 1)
    /\ \A i \in DOMAIN plan : plan[i].kind \in {"persona", "council", "extension"}
    /\ \A o \in opinions : o.verdict \in VerdictClass /\ o.conditions \subseteq Conditions
    /\ {verdict, stored} \subseteq VerdictClass \cup {"none"}
    /\ readiness \in IntakeVerdicts \cup {"none"}
    /\ ToSet(sections) \cup ToSet(persisted) \subseteq DOMAIN plan
    /\ prior \in 0..Len(plan)
    /\ {spent, consumed, usage, charged} \subseteq Nat
    /\ outcome \in Outcome

\* The verdict is the most restrictive of the members', in whatever order they
\* answered, and no condition a member raised is lost on the way to a verdict
\* that is not Go.  It rests on every lens the request touches, except one whose
\* agent is not deployed, although the roster that seats the council is the one
\* the project was seeded with and not the one the client asked for.  A finished
\* run leaves that verdict in its record.
Severity(class) == CASE class = "Go" -> 0 [] class = "Go-With-Conditions" -> 1
                     [] class = "Stop" -> 2
VerdictMostRestrictive ==
    /\ verdict # "none" =>
          /\ \A o \in opinions : Severity(o.verdict) <= Severity(verdict)
          /\ \E o \in opinions : o.verdict = verdict
          /\ verdict # "Go" =>
                \A o \in opinions : \A c \in o.conditions : <<o.agent, c>> \in conditions
          /\ \A o \in opinions : o.conditions # {} => verdict # "Go"
          /\ {o.agent : o \in opinions} =
                {r \in ToSet(RolesOf(CrossedCouncilDomains(req.words))) :
                    Resolves(AgentName(r), cast)}
    /\ outcome \in {"completed", "held", "halted"} => stored = verdict

\* The sections, and those of the run record, are the stages of the plan in
\* order and once each, across pauses and failures; a run that ends without a
\* failure has persisted all it produced; and what the council judges is the
\* section of the plan stage.
SectionsFollowPlan ==
    /\ sections = [i \in 1..Len(sections) |-> i]
    /\ IsPrefix(persisted, sections)
    /\ outcome \in {"completed", "held", "halted"} => persisted = sections
    /\ outcome = "completed" => Len(sections) = Len(plan)
    /\ pc = "council" /\ Resolves(AgentName("lead"), cast) => plan[prior].role = "lead"

\* Outside a council the cost ledger holds what the backend really charged.
SpendIsRecorded == pc # "council" /\ outcome # "failed" => spent = consumed

\* No call is made by a run that has reached its ceiling, nor by one that a Stop
\* or a Not-Ready has ended, not even when it is resumed, nor by a gated run that
\* nobody approved, unless the roster it is planned with is an advisory one,
\* whatever roster the gate judged.
CallsArePermitted ==
    [][consumed' # consumed => /\ ~metered \/ spent < CeilingUsd
                               /\ verdict # "Stop" /\ readiness # "Not-Ready"
                               /\ approved \/ ~Gated(tool) \/ IsAdvisoryOnly(profile)]_vars

\* The run waits for an operator, or for a client to resume it.
Waits == \/ pc \in {"held", "paused"}
         \/ pc = "queued" /\ driver = "replica"

\* A run is over, or some person has to act on it, again and again: once it is
\* driven, no council, offer, failure or resumption leaves it in between.
RunEnds == []<>(pc = "ended" \/ Waits)
=============================================================================
