------------------------- MODULE MCAdvisoryPipeline -------------------------
(* An instance of AdvisoryPipeline for TLC: a cut of the shipped roster. *)
EXTENDS AdvisoryPipeline

CONSTANT c1

Row(name, roles) == [name |-> name, roles |-> roles]
Rosters ==
    <<Row("default",  <<"researcher", "lead", "tester", "scribe">>),
      Row("security", <<"researcher", "lead", "tester">>),
      Row("security", <<"researcher", "lead", "tester", "security", "rai">>),
      Row("azure",    <<"researcher", "lead", "tester", "deployer", "architect",
                        "security", "scribe">>),
      Row("product",  <<"researcher", "lead", "tester", "analyst", "product-owner",
                        "intake-validator", "scribe">>)>>

Agent(role, primary) == [role |-> role, primary |-> primary]
Catalog ==
    <<Agent("researcher", "Squad Researcher"), Agent("lead", "Planner"),
      Agent("tester", "Squad Reviewer"), Agent("architect", "Architect"),
      Agent("security", "-"), Agent("security", "Security Planner"),
      Agent("security", "Threat Modeler"), Agent("rai", "RAI Planner"),
      Agent("analyst", "BRD Builder"), Agent("product-owner", "Backlog Manager"),
      Agent("intake-validator", "Intake Validator"), Agent("cost-manager", "Cost Planner")>>
Heroes == {"Squad Researcher", "Squad Reviewer"}

FullCast == {Catalog[i].primary : i \in DOMAIN Catalog}
DeployedCasts == {{}, FullCast \ {"Architect"}, FullCast}

Intents == <<{"research", "explore"}, {"plan", "sequence"}, {"security", "threat"}>>

Ask(words, raw, name) == [words |-> words, mode |-> raw, profile |-> name]
MixedRequests ==
    {Ask({"explore"}, "none", "default"),
     Ask({"explore", "plan"}, "none", "unheard-of"),
     Ask({"system design", "stride", "threat"}, "none", "azure"),
     Ask({"fairness"}, "autopilot", "security"),
     Ask({"roadmap"}, "interactive", "product")}

SquadTools ==
    {[gates |-> TRUE, catchAll |-> TRUE, tier |-> "confirm", role |-> "none"],
     [gates |-> FALSE, catchAll |-> FALSE, tier |-> "auto", role |-> "lead"]}
=============================================================================
