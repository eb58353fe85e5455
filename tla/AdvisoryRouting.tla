--------------------------- MODULE AdvisoryRouting ---------------------------
(***************************************************************************)
(* How a request becomes an ordered advisory plan: the roster tables, the  *)
(* profile they seed, the task-fit council, the human gate's judgement of  *)
(* the roster, and the verdicts read from the members' findings.           *)
(*                                                                         *)
(* Data.  A request is the set of the keywords it holds, a persona is the  *)
(* agent it belongs to, a table is the sequence of its rows.               *)
(***************************************************************************)
EXTENDS Filtering, FiniteSets, SequencesExt

CONSTANTS
    ProfileRows,   \* Squad Profiles: rows [name, roles], roles in roster order
    IntentRows,    \* Default Routing Rules: the patterns of each row
    CatalogRows,   \* Cast Catalog: rows [role, primary]
    ThinCharter,   \* the Primary cell of a role without an installable agent
    HeroAgents,    \* agents whose paraphrased charter is built in
    Conditions     \* conditions a council member may raise

DefaultProfile == "default"
Spine == {"researcher", "lead", "tester"}

\* Every profile of the shipped roster seeds research, plan and review.
ASSUME SpineAssumption ==
    \A i \in DOMAIN ProfileRows : Spine \subseteq ToSet(ProfileRows[i].roles)
ASSUME DefaultAssumption ==
    \E i \in DOMAIN ProfileRows : ProfileRows[i].name = DefaultProfile
-----------------------------------------------------------------------------
(* The roster tables. *)

ProfileNames == {ProfileRows[i].name : i \in DOMAIN ProfileRows}

\* A later row of a name replaces the earlier one, and scribe is in every
\* profile whether its row says so or not.
Profiles ==
    [n \in ProfileNames |->
        LET rows  == SelectSeq(ProfileRows, LAMBDA row : row.name = n)
            roles == Last(rows).roles
        IN  IF Contains(roles, "scribe") THEN roles ELSE Append(roles, "scribe")]

\* The first installable row of a role wins.
Installable == SelectSeq(CatalogRows, LAMBDA row : row.primary # ThinCharter)
RosterMap ==
    [r \in {Installable[i].role : i \in DOMAIN Installable} |->
        Head(SelectSeq(Installable, LAMBDA row : row.role = r)).primary]

AgentName(role) == IF role \in DOMAIN RosterMap THEN RosterMap[role] ELSE role

\* A deployed file carries the agent's name and has a body.
OnDisk(agent, cast) == agent \in cast

\* An agent resolves when it is deployed, or is a hero.
Resolves(agent, cast) == OnDisk(agent, cast) \/ agent \in HeroAgents

ResolveProfile(requested) ==
    IF requested \in ProfileNames THEN requested ELSE DefaultProfile
Seeded(profile) == ToSet(Profiles[profile])

DeliverableProducingRoles ==
    <<"analyst", "product-owner", "designer", "experimenter", "presenter",
      "technical-writer", "data-scientist">>
DeliverableRoles(profile) == Kept(DeliverableProducingRoles, Seeded(profile))
FansOut(profile) == Len(DeliverableRoles(profile)) >= 2
HasIntakeGate(profile) == "intake-validator" \in Seeded(profile)
-----------------------------------------------------------------------------
(* The human gate. *)

ImpactfulRoles == {"backlog-executor", "deployer", "iac-author", "azure-diagnose"}
IsAdvisoryOnly(profile) == Seeded(profile) \cap ImpactfulRoles = {}

Gated(tool) == tool.gates \/ tool.catchAll \/ tool.tier \in {"confirm", "escalate"}

Proceeds(tool, destructive, enabled, advisoryOnly) ==
    \/ ~(Gated(tool) \/ destructive)
    \/ enabled /\ advisoryOnly /\ ~destructive
-----------------------------------------------------------------------------
(* The council. *)

Lenses == {"architecture", "security", "cost", "product", "rai"}
CouncilLenses ==
    <<[lens |-> "architecture", role |-> "architect"],
      [lens |-> "security",     role |-> "security"],
      [lens |-> "cost",         role |-> "cost-manager"],
      [lens |-> "product",      role |-> "product-owner"],
      [lens |-> "rai",          role |-> "rai"]>>
CouncilDomains ==
    [architecture |-> {"architecture", "architectural", "system design", "component",
                       "design tradeoff"},
     security     |-> {"security", "secure", "threat", "vulnerability", "stride"},
     cost         |-> {"cost", "budget", "pricing", "finops", "spend"},
     product      |-> {"product", "requirement", "backlog", "prd", "brd", "user story",
                       "roadmap", "epic"},
     rai          |-> {"responsible ai", "rai", "fairness", "harm", "bias"}]
CrossedCouncilDomains(words) == {lens \in Lenses : CouncilDomains[lens] \cap words # {}}

CouncilRoles == {CouncilLenses[i].role : i \in DOMAIN CouncilLenses}
RolesOf(lenses) ==
    LET touched == Kept(CouncilLenses, [lens : lenses, role : CouncilRoles])
    IN  [i \in DOMAIN touched |-> touched[i].role]

NoCouncil == [engaged |-> FALSE, members |-> <<>>, extension |-> <<>>, notProposed |-> {}]

Triggered(lenses) == Cardinality(lenses \ {"rai"}) >= 2 \/ "rai" \in lenses

\* One member per lens touched; a needed role that is not seeded makes the
\* council an offer to extend the roster, and nobody is dispatched.
PlanCouncil(lenses, seeded) ==
    IF ~Triggered(lenses) THEN NoCouncil
    ELSE LET needed    == RolesOf(lenses)
             extension == Kept(needed, CouncilRoles \ seeded)
         IN  [engaged     |-> extension = <<>>,
              members     |-> IF extension = <<>> THEN needed ELSE <<>>,
              extension   |-> extension,
              notProposed |-> ToSet(RolesOf(Lenses \ lenses))]

\* A finding: its own markers and the conditions it raises.
Finding == [stop : BOOLEAN, conditional : BOOLEAN, conditions : SUBSET Conditions]
ParseMemberVerdict(f) ==
    IF f.stop THEN "Stop"
    ELSE IF f.conditional \/ f.conditions # {} THEN "Go-With-Conditions"
    ELSE "Go"

VerdictClass == {"Go", "Go-With-Conditions", "Stop"}

\* Mutant: the last opinion to arrive decides between conditions and stop.
MajorityVerdict(opinions) ==
    LET verdicts == {o.verdict : o \in opinions}
    IN  IF "Go-With-Conditions" \in verdicts THEN "Go-With-Conditions"
        ELSE IF "Stop" \in verdicts THEN "Stop" ELSE "Go"

SynthesizeVerdict(opinions) ==
    LET verdicts == {o.verdict : o \in opinions}
    IN  IF "Stop" \in verdicts THEN "Stop"
        ELSE IF "Go-With-Conditions" \in verdicts THEN "Go-With-Conditions"
        ELSE "Go"

\* Conditions keep the member that raised them; a Go carries none.
AggregateConditions(opinions) ==
    UNION {{<<o.agent, c>> : c \in o.conditions} : o \in opinions}
SynthesizeConditions(opinions) ==
    IF SynthesizeVerdict(opinions) = "Go" THEN {} ELSE AggregateConditions(opinions)
-----------------------------------------------------------------------------
(* The plan. *)

RawModes == {"none", "interactive", "autopilot", "autonomous"}
NormalizeAdvisoryMode(raw) ==
    IF raw \in {"autopilot", "autonomous"} THEN raw ELSE "interactive"

ResearchKeywords == {"research", "investigate", "explore", "find out"}
OtherRowMatched(words) ==
    \E i \in DOMAIN IntentRows :
        "research" \notin IntentRows[i] /\ IntentRows[i] \cap words # {}

\* A mode, or a profile that fans out, is never a single-stage run.
ResearchOnly(req, profile) ==
    /\ req.words \cap ResearchKeywords # {}
    /\ ~OtherRowMatched(req.words)
    /\ CrossedCouncilDomains(req.words) = {}
    /\ req.mode = "none" /\ ~FansOut(profile)

BacklogWanted(fanned) == ~Contains(fanned, "product-owner")

When(condition, stage) == IF condition THEN <<stage>> ELSE <<>>

Persona(role) == [kind |-> "persona", role |-> role, members |-> <<>>, offer |-> <<>>,
                  notProposed |-> {}]
CouncilStage(members, offer, notProposed) ==
    [kind |-> IF offer = <<>> THEN "council" ELSE "extension", role |-> "council",
     members |-> members, offer |-> offer, notProposed |-> notProposed]

\* route followed by planAdvisoryStages.  A role whose persona is not deployed
\* is dropped; the backlog role comes from the roster map, not from the profile.
PlanAdvisoryStages(req, profile, cast) ==
    LET castable(role) == Resolves(AgentName(role), cast)
        persona(role)  == When(castable(role), Persona(role))
        seeded         == Seeded(profile)
        intake         == IF HasIntakeGate(profile) THEN persona("intake-validator") ELSE <<>>
        council        == PlanCouncil(CrossedCouncilDomains(req.words), seeded)
        seats          == Kept(council.members, {r \in CouncilRoles : castable(r)})
        fanned         == IF FansOut(profile)
                          THEN Kept(DeliverableRoles(profile),
                                    {r \in Seeded(profile) : castable(r)})
                          ELSE <<>>
    IN  IF ResearchOnly(req, profile) THEN intake \o persona("researcher")
        ELSE intake \o persona("researcher") \o persona("lead")
             \o When(council.engaged /\ seats # <<>>,
                     CouncilStage(seats, <<>>, council.notProposed))
             \o When(council.extension # <<>>,
                     CouncilStage(<<>>, council.extension, council.notProposed))
             \o [i \in DOMAIN fanned |-> Persona(fanned[i])]
             \o persona("tester")
             \o When(/\ BacklogWanted(fanned)
                     /\ "product-owner" \in DOMAIN RosterMap
                     /\ castable("product-owner"),
                     Persona("product-owner"))
=============================================================================
