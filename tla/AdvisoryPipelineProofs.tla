----------------------- MODULE AdvisoryPipelineProofs -----------------------
(***************************************************************************)
(* Theorems about AdvisoryPipeline, for every roster, catalog, request,    *)
(* cast and price.                                                         *)
(*                                                                         *)
(* What the plan of a run looks like is proved of PlanAdvisoryStages; the  *)
(* invariants of the run are then built on it one by one: its types, its   *)
(* sections, its verdict, its money.                                       *)
(***************************************************************************)
EXTENDS AdvisoryPipeline, DataFacts, SequenceTheorems

(* The plan. *)

StageRoles ==
    {"intake-validator", "researcher", "lead", "tester", "product-owner", "council"}
        \cup ToSet(DeliverableProducingRoles) \cup {t.role : t \in Tools}
Stages == [kind : {"persona", "council", "extension"}, role : StageRoles,
           members : Seq(CouncilRoles), offer : Seq(CouncilRoles),
           notProposed : SUBSET CouncilRoles]

Distinct(s) == \A i, k \in 1..Len(s) : s[i] = s[k] => i = k

\* The lenses the words of a request touch, as far as their agents are there.
Seats(words, there) ==
    {r \in ToSet(RolesOf(CrossedCouncilDomains(words))) : Resolves(AgentName(r), there)}

\* The council of a plan: its only one, seated by the request and the cast,
\* after the plan stage if there is a lead.
CouncilFits(p, i, words, there) ==
    /\ p[i].members # <<>> /\ Distinct(p[i].members)
    /\ ToSet(p[i].members) = Seats(words, there)
    /\ \A j \in 1..Len(p) : p[j].kind = "council" => j = i
    /\ Resolves(AgentName("lead"), there) =>
          i > 1 /\ p[i - 1].kind = "persona" /\ p[i - 1].role = "lead"

WellPlanned(p, words, there) ==
    /\ p \in Seq(Stages)
    /\ \A i \in 1..Len(p) : p[i].kind = "council" => CouncilFits(p, i, words, there)

\* Stages without a council.
Plain(p) == p \in Seq(Stages) /\ \A i \in 1..Len(p) : p[i].kind # "council"

LEMMA LensesAreFive ==
    /\ CouncilLenses \in Seq([lens : Lenses, role : CouncilRoles])
    /\ Len(CouncilLenses) = 5
    /\ \A i, k \in 1..5 : CouncilLenses[i].role = CouncilLenses[k].role => i = k
  <1>1. Len(CouncilLenses) = 5 /\ DOMAIN CouncilLenses = 1..5  BY DEF CouncilLenses
  <1>2. \A i \in 1..5 : i = 1 \/ i = 2 \/ i = 3 \/ i = 4 \/ i = 5  OBVIOUS
  <1>3. /\ CouncilLenses[1].role = "architect" /\ CouncilLenses[2].role = "security"
        /\ CouncilLenses[3].role = "cost-manager" /\ CouncilLenses[4].role = "product-owner"
        /\ CouncilLenses[5].role = "rai"
    BY DEF CouncilLenses
  <1>4. \A i, k \in 1..5 : CouncilLenses[i].role = CouncilLenses[k].role => i = k
    BY <1>2, <1>3
  <1>5. \A i \in 1..5 : CouncilLenses[i].role \in CouncilRoles  BY <1>1 DEF CouncilRoles
  <1>6. CouncilLenses \in Seq([lens : Lenses, role : CouncilRoles])
    <2>1. {"architect", "security", "cost-manager", "product-owner", "rai"} \subseteq CouncilRoles
      BY <1>2, <1>3, <1>5
    <2> QED  BY <2>1 DEF CouncilLenses, Lenses
  <1> QED  BY <1>1, <1>4, <1>6

\* One role for each lens touched.
LEMMA RolesAreDistinct ==
    ASSUME NEW lenses
    PROVE  RolesOf(lenses) \in Seq(CouncilRoles) /\ Distinct(RolesOf(lenses))
  <1> DEFINE T == [lens : Lenses, role : CouncilRoles]
             S == [lens : lenses, role : CouncilRoles]
             touched == Kept(CouncilLenses, S)
  <1>1. /\ touched \in Seq(T)
        /\ \A j \in 1..Len(touched) : \E i \in 1..5 : touched[j] = CouncilLenses[i]
        /\ Distinct(touched)
    <2>1. CouncilLenses \in Seq(T) /\ Len(CouncilLenses) = 5
          /\ \A i, k \in 1..5 : CouncilLenses[i].role = CouncilLenses[k].role => i = k
      BY LensesAreFive
    <2>2. \A i, k \in 1..Len(CouncilLenses) : CouncilLenses[i] = CouncilLenses[k] => i = k
      BY <2>1
    <2> DEFINE rows == CouncilLenses
    <2>3. rows \in Seq(T) /\ Len(rows) = 5
          /\ \A i, k \in 1..Len(rows) : rows[i] = rows[k] => i = k
      BY <2>1, <2>2
    <2> HIDE DEF T, S, rows
    <2>4. Kept(rows, S) \in Seq(T)  BY <2>3, KeptFacts
    <2>5. \A j \in 1..Len(Kept(rows, S)) :
              Kept(rows, S)[j] \in S /\ \E i \in 1..Len(rows) : Kept(rows, S)[j] = rows[i]
      BY <2>3, KeptFacts
    <2>6. \A i, k \in 1..Len(Kept(rows, S)) : Kept(rows, S)[i] = Kept(rows, S)[k] => i = k
      BY <2>3, KeptFacts
    <2> QED  BY <2>3, <2>4, <2>5, <2>6 DEF Distinct, rows
  <1> DEFINE roles == [i \in DOMAIN touched |-> touched[i].role]
  <1>2. RolesOf(lenses) = roles  BY DEF RolesOf
  <1>3. DOMAIN touched = 1..Len(touched) /\ Len(touched) \in Nat  BY <1>1
  <1> HIDE DEF touched
  <1>4. ASSUME NEW i \in 1..Len(touched) PROVE touched[i].role \in CouncilRoles
    <2>1. touched[i] \in T
      <3> HIDE DEF T
      <3> QED  BY <1>1, ElementOfSeq
    <2> QED  BY <2>1
  <1>5. roles \in Seq(CouncilRoles) /\ Len(roles) = Len(touched)  BY <1>3, <1>4
  <1>6. ASSUME NEW i \in 1..Len(roles), NEW k \in 1..Len(roles), roles[i] = roles[k]
        PROVE  i = k
    <2>1. touched[i].role = touched[k].role  BY <1>3, <1>5, <1>6
    <2>2. PICK u \in 1..5 : touched[i] = CouncilLenses[u]  BY <1>1, <1>5
    <2>3. PICK v \in 1..5 : touched[k] = CouncilLenses[v]  BY <1>1, <1>5
    <2>4. u = v  BY <2>1, <2>2, <2>3, LensesAreFive
    <2> QED  BY <1>1, <1>5, <2>2, <2>3, <2>4 DEF Distinct
  <1> QED  BY <1>2, <1>5, <1>6 DEF Distinct

LEMMA PersonaIsStage ==
    ASSUME NEW role \in StageRoles
    PROVE  Persona(role) \in Stages /\ Persona(role).kind = "persona" /\ Persona(role).role = role
  BY DEF Persona, Stages

LEMMA PlainAppend ==
    ASSUME NEW p, NEW q, Plain(p), Plain(q)
    PROVE  Plain(p \o q)
  <1>1. p \in Seq(Stages) /\ q \in Seq(Stages)  BY DEF Plain
  <1>2. /\ p \o q \in Seq(Stages) /\ Len(p \o q) = Len(p) + Len(q)
        /\ \A i \in 1..(Len(p) + Len(q)) :
              (p \o q)[i] = IF i <= Len(p) THEN p[i] ELSE q[i - Len(p)]
    BY <1>1, ConcatProperties
  <1> DEFINE m == Len(p)
             n == Len(q)
  <1>3. m \in Nat /\ n \in Nat  BY <1>1
  <1>4. ASSUME NEW i \in 1..(m + n) PROVE (p \o q)[i].kind # "council"
    <2>1. CASE i <= m
      <3>1. (p \o q)[i] = p[i] /\ i \in 1..m  BY <1>2, <1>3, <2>1
      <3> QED  BY <3>1 DEF Plain
    <2>2. CASE ~(i <= m)
      <3>1. (p \o q)[i] = q[i - m] /\ i - m \in 1..n  BY <1>2, <1>3, <2>2
      <3> QED  BY <3>1 DEF Plain
    <2> QED  BY <2>1, <2>2
  <1> QED  BY <1>2, <1>4 DEF Plain

\* Stages without a council may follow.
LEMMA PlanAppend ==
    ASSUME NEW p, NEW q, NEW words, NEW there, WellPlanned(p, words, there), Plain(q)
    PROVE  WellPlanned(p \o q, words, there)
  <1>1. p \in Seq(Stages) /\ q \in Seq(Stages)  BY DEF Plain, WellPlanned
  <1> DEFINE r == p \o q
             m == Len(p)
             n == Len(q)
  <1>2. /\ r \in Seq(Stages) /\ Len(r) = m + n
        /\ \A i \in 1..(m + n) : r[i] = IF i <= m THEN p[i] ELSE q[i - m]
    BY <1>1, ConcatProperties
  <1>3. m \in Nat /\ n \in Nat  BY <1>1
  <1> HIDE DEF r
  <1>4. \A i \in 1..m : r[i] = p[i] /\ i \in 1..(m + n)  BY <1>2, <1>3
  <1>5. ASSUME NEW i \in 1..(m + n), r[i].kind = "council"
        PROVE  i \in 1..m /\ p[i].kind = "council"
    <2>1. CASE i <= m  BY <1>3, <1>4, <1>5, <2>1
    <2>2. CASE ~(i <= m)
      <3>1. r[i] = q[i - m] /\ i - m \in 1..n  BY <1>2, <1>3, <2>2
      <3> QED  BY <1>5, <3>1 DEF Plain
    <2> QED  BY <2>1, <2>2
  <1>6. ASSUME NEW i \in 1..Len(r), r[i].kind = "council"
        PROVE  CouncilFits(r, i, words, there)
    <2>1. i \in 1..m /\ p[i].kind = "council" /\ r[i] = p[i]  BY <1>2, <1>4, <1>5, <1>6
    <2>2. CouncilFits(p, i, words, there)  BY <2>1 DEF WellPlanned
    <2>3. \A j \in 1..Len(r) : r[j].kind = "council" => j = i  BY <1>2, <1>5, <2>2 DEF CouncilFits
    <2>4. Resolves(AgentName("lead"), there) =>
              i > 1 /\ r[i - 1].kind = "persona" /\ r[i - 1].role = "lead"
      <3> SUFFICES ASSUME Resolves(AgentName("lead"), there)
                   PROVE  i > 1 /\ r[i - 1].kind = "persona" /\ r[i - 1].role = "lead"
        OBVIOUS
      <3>1. i > 1 /\ p[i - 1].kind = "persona" /\ p[i - 1].role = "lead"
        BY <2>2 DEF CouncilFits
      <3>2. i - 1 \in 1..m  BY <1>3, <2>1, <3>1
      <3> QED  BY <1>4, <3>1, <3>2
    <2> QED  BY <2>1, <2>2, <2>3, <2>4 DEF CouncilFits
  <1> QED  BY <1>2, <1>6 DEF WellPlanned, r

LEMMA PlainIsWellPlanned ==
    ASSUME NEW p, NEW words, NEW there, Plain(p)
    PROVE  WellPlanned(p, words, there)
  BY DEF Plain, WellPlanned

\* A council may follow stages without one that end in the plan stage.
LEMMA CouncilAppend ==
    ASSUME NEW p, NEW s \in Stages, NEW words, NEW there, Plain(p), s.kind = "council",
           s.members # <<>>, Distinct(s.members), ToSet(s.members) = Seats(words, there),
           Resolves(AgentName("lead"), there) => Len(p) > 0 /\ p[Len(p)] = Persona("lead")
    PROVE  WellPlanned(p \o <<s>>, words, there)
  <1> DEFINE m == Len(p)
             r == p \o <<s>>
  <1>1. p \in Seq(Stages) /\ m \in Nat  BY DEF Plain
  <1>2. r \in Seq(Stages) /\ Len(r) = m + 1 /\ r[m + 1] = s /\ \A i \in 1..m : r[i] = p[i]
    <2>1. <<s>> \in Seq(Stages) /\ Len(<<s>>) = 1 /\ <<s>>[1] = s  OBVIOUS
    <2>2. /\ r \in Seq(Stages) /\ Len(r) = m + 1
          /\ \A i \in 1..(m + 1) : r[i] = IF i <= m THEN p[i] ELSE <<s>>[i - m]
      BY <1>1, <2>1, ConcatProperties
    <2>3. m + 1 \in 1..(m + 1) /\ ~(m + 1 <= m) /\ (m + 1) - m = 1
          /\ \A i \in 1..m : i \in 1..(m + 1) /\ i <= m
      BY <1>1
    <2> HIDE DEF m, r
    <2> QED  BY <2>1, <2>2, <2>3
  <1> HIDE DEF r
  <1>3. ASSUME NEW i \in 1..(m + 1), r[i].kind = "council" PROVE i = m + 1
    <2>1. CASE i \in 1..m  BY <1>2, <1>3, <2>1 DEF Plain
    <2> QED  BY <1>1, <2>1
  <1>4. CouncilFits(r, m + 1, words, there)
    <2>1. Resolves(AgentName("lead"), there) =>
              m + 1 > 1 /\ r[(m + 1) - 1].kind = "persona" /\ r[(m + 1) - 1].role = "lead"
      <3> SUFFICES ASSUME Resolves(AgentName("lead"), there)
                   PROVE  m + 1 > 1 /\ r[(m + 1) - 1].kind = "persona"
                          /\ r[(m + 1) - 1].role = "lead"
        OBVIOUS
      <3>1. m > 0 /\ p[m] = Persona("lead")  OBVIOUS
      <3>2. m \in 1..m /\ (m + 1) - 1 = m /\ m + 1 > 1  BY <1>1, <3>1
      <3>3. r[m] = Persona("lead")  BY <1>2, <3>1, <3>2
      <3> QED  BY <3>2, <3>3 DEF Persona
    <2> QED  BY <1>2, <1>3, <2>1 DEF CouncilFits
  <1> QED  BY <1>2, <1>3, <1>4 DEF WellPlanned, r

LEMMA WhenPlain ==
    ASSUME NEW c, NEW s \in Stages, s.kind # "council"
    PROVE  Plain(When(c, s))
  <1>1. CASE c
    <2>1. When(c, s) = <<s>>  BY <1>1 DEF When
    <2>2. <<s>> \in Seq(Stages) /\ Len(<<s>>) = 1 /\ <<s>>[1] = s  OBVIOUS
    <2>3. \A i \in 1..1 : i = 1  OBVIOUS
    <2> QED  BY <2>1, <2>2, <2>3 DEF Plain
  <1>2. CASE ~c
    <2>1. When(c, s) = <<>>  BY <1>2 DEF When
    <2> QED  BY <2>1, EmptySeq DEF Plain
  <1> QED  BY <1>1, <1>2

LEMMA PersonaPlain ==
    ASSUME NEW role \in StageRoles, NEW c
    PROVE  Plain(When(c, Persona(role)))
  BY PersonaIsStage, WhenPlain

LEMMA EmptyPlain == Plain(<<>>)
  BY EmptySeq DEF Plain

\* Of distinct roles some are kept.
LEMMA SomeRoles ==
    ASSUME NEW s \in Seq(CouncilRoles), Distinct(s), NEW S
    PROVE  /\ Kept(s, S) \in Seq(CouncilRoles)
           /\ Distinct(Kept(s, S))
           /\ ToSet(Kept(s, S)) = {r \in ToSet(s) : r \in S}
  <1> DEFINE q == Kept(s, S)
  <1>1. q \in Seq(CouncilRoles)  BY KeptFacts
  <1>2. \A j \in 1..Len(q) : q[j] \in S /\ \E i \in 1..Len(s) : q[j] = s[i]  BY KeptFacts
  <1>3. \A i \in 1..Len(s) : s[i] \in S => \E j \in 1..Len(q) : q[j] = s[i]  BY KeptFacts
  <1>4. (\A i, k \in 1..Len(s) : s[i] = s[k] => i = k)
           => \A i, k \in 1..Len(q) : q[i] = q[k] => i = k
    BY KeptFacts
  <1> HIDE DEF q
  <1>5. Distinct(q)  BY <1>4 DEF Distinct
  <1>6. DOMAIN q = 1..Len(q) /\ DOMAIN s = 1..Len(s)  BY <1>1
  <1>7. ToSet(q) = {r \in ToSet(s) : r \in S}
    <2>1. ASSUME NEW r \in ToSet(q) PROVE r \in ToSet(s) /\ r \in S
      <3>1. PICK j \in 1..Len(q) : r = q[j]  BY <1>6, <2>1 DEF ToSet
      <3>2. r \in S  BY <1>2, <3>1
      <3>3. PICK i \in 1..Len(s) : q[j] = s[i]  BY <1>2, <3>1
      <3> QED  BY <1>6, <3>1, <3>2, <3>3 DEF ToSet
    <2>2. ASSUME NEW r \in ToSet(s), r \in S PROVE r \in ToSet(q)
      <3>1. PICK i \in 1..Len(s) : r = s[i]  BY <1>6, <2>2 DEF ToSet
      <3>2. PICK j \in 1..Len(q) : q[j] = s[i]  BY <1>3, <2>2, <3>1
      <3> QED  BY <1>6, <3>1, <3>2 DEF ToSet
    <2> QED  BY <2>1, <2>2
  <1> QED  BY <1>1, <1>5, <1>7 DEF q

\* The sequence of personas of a sequence of roles.
LEMMA PersonasPlain ==
    ASSUME NEW s \in Seq(StageRoles)
    PROVE  Plain([i \in DOMAIN s |-> Persona(s[i])])
  <1> DEFINE q == [i \in DOMAIN s |-> Persona(s[i])]
  <1>1. DOMAIN s = 1..Len(s) /\ Len(s) \in Nat  OBVIOUS
  <1>2. \A i \in 1..Len(s) : Persona(s[i]) \in Stages /\ Persona(s[i]).kind = "persona"
    <2> SUFFICES ASSUME NEW i \in 1..Len(s)
                 PROVE  Persona(s[i]) \in Stages /\ Persona(s[i]).kind = "persona"
      OBVIOUS
    <2>1. s[i] \in StageRoles  BY ElementOfSeq
    <2> QED  BY <2>1, PersonaIsStage
  <1>3. q \in Seq(Stages) /\ Len(q) = Len(s)  BY <1>1, <1>2
  <1>4. \A i \in 1..Len(s) : q[i] = Persona(s[i])  BY <1>1
  <1> HIDE DEF q
  <1>5. Plain(q)  BY <1>2, <1>3, <1>4 DEF Plain
  <1> QED  BY <1>5 DEF q

\* planAdvisoryStages seats one council, of the deployed members of the lenses
\* that the request touches, and puts it behind the plan stage.
LEMMA PlansFit ==
    ASSUME NEW r, NEW name, NEW there
    PROVE  WellPlanned(PlanAdvisoryStages(r, name, there), r.words, there)
  <1> DEFINE castable(role) == Resolves(AgentName(role), there)
             persona(role)  == When(castable(role), Persona(role))
             intake         == IF HasIntakeGate(name) THEN persona("intake-validator") ELSE <<>>
             council        == PlanCouncil(CrossedCouncilDomains(r.words), Seeded(name))
             seats          == Kept(council.members, {x \in CouncilRoles : castable(x)})
             fanned         == IF FansOut(name)
                               THEN Kept(DeliverableRoles(name),
                                         {x \in Seeded(name) : castable(x)})
                               ELSE <<>>
             seated  == When(council.engaged /\ seats # <<>>,
                             CouncilStage(seats, <<>>, council.notProposed))
             offered == When(council.extension # <<>>,
                             CouncilStage(<<>>, council.extension, council.notProposed))
             spread  == [i \in DOMAIN fanned |-> Persona(fanned[i])]
             backlog == When(/\ BacklogWanted(fanned)
                             /\ "product-owner" \in DOMAIN RosterMap
                             /\ castable("product-owner"),
                             Persona("product-owner"))
             first == intake \o persona("researcher")
             front == first \o persona("lead")
  <1>1. PlanAdvisoryStages(r, name, there) =
           IF ResearchOnly(r, name) THEN first
           ELSE front \o seated \o offered \o spread \o persona("tester") \o backlog
    BY DEF PlanAdvisoryStages
  <1>2. {"intake-validator", "researcher", "lead", "tester", "product-owner"} \subseteq StageRoles
    BY DEF StageRoles
  <1>3. /\ Plain(intake) /\ Plain(persona("researcher")) /\ Plain(persona("lead"))
        /\ Plain(persona("tester")) /\ Plain(backlog)
    BY <1>2, PersonaPlain, EmptyPlain
  <1>4. Plain(spread)
    <2>1. DeliverableProducingRoles \in Seq(StageRoles)
      <3> DEFINE d == DeliverableProducingRoles
                 D == {"analyst", "product-owner", "designer", "experimenter", "presenter",
                       "technical-writer", "data-scientist"}
      <3>1. d \in Seq(D)  BY DEF DeliverableProducingRoles
      <3> HIDE DEF d, D
      <3>2. Len(d) \in Nat /\ d \in [1..Len(d) -> D]  BY <3>1
      <3>3. \A i \in 1..Len(d) : d[i] \in StageRoles  BY <3>2 DEF StageRoles, ToSet, d
      <3> QED  BY <3>2, <3>3 DEF d
    <2>2. DeliverableRoles(name) \in Seq(StageRoles)  BY <2>1, KeptFacts DEF DeliverableRoles
    <2>3. fanned \in Seq(StageRoles)
      <3>1. Kept(DeliverableRoles(name), {x \in Seeded(name) : castable(x)}) \in Seq(StageRoles)
        <4> DEFINE S == {x \in Seeded(name) : castable(x)}
        <4> HIDE DEF S
        <4>1. Kept(DeliverableRoles(name), S) \in Seq(StageRoles)  BY <2>2, KeptFacts
        <4> QED  BY <4>1 DEF S
      <3> QED  BY <3>1
    <2> HIDE DEF fanned
    <2> QED  BY <2>3, PersonasPlain
  <1> DEFINE needed == RolesOf(CrossedCouncilDomains(r.words))
             lacking == Kept(needed, CouncilRoles \ Seeded(name))
  <1>5. needed \in Seq(CouncilRoles) /\ Distinct(needed)  BY RolesAreDistinct
  <1>6. lacking \in Seq(CouncilRoles)  BY <1>5, SomeRoles
  <1>7. council.extension \in Seq(CouncilRoles) /\ council.notProposed \in SUBSET CouncilRoles
        /\ (council.engaged => council.members = needed)
    <2>1. ToSet(RolesOf(Lenses \ CrossedCouncilDomains(r.words))) \in SUBSET CouncilRoles
      <3>1. RolesOf(Lenses \ CrossedCouncilDomains(r.words)) \in Seq(CouncilRoles)
        BY RolesAreDistinct
      <3> QED  BY <3>1 DEF ToSet
    <2>2. CASE ~Triggered(CrossedCouncilDomains(r.words))
      <3>1. council = NoCouncil  BY <2>2 DEF PlanCouncil
      <3> QED  BY <3>1 DEF NoCouncil
    <2>3. CASE Triggered(CrossedCouncilDomains(r.words))
      <3>1. council = [engaged |-> lacking = <<>>,
                       members |-> IF lacking = <<>> THEN needed ELSE <<>>,
                       extension |-> lacking,
                       notProposed |-> ToSet(RolesOf(Lenses \ CrossedCouncilDomains(r.words)))]
        BY <2>3 DEF PlanCouncil
      <3> HIDE DEF council, lacking, needed
      <3> QED  BY <1>6, <2>1, <3>1
    <2> QED  BY <2>2, <2>3
  <1>8. Plain(offered)
    <2> DEFINE s == CouncilStage(<<>>, council.extension, council.notProposed)
    <2>1. CASE council.extension # <<>>
      <3> HIDE DEF council
      <3>1. s \in Stages /\ s.kind # "council"
        BY <1>7, <2>1 DEF CouncilStage, Stages, StageRoles
      <3> HIDE DEF s
      <3> QED  BY <3>1, WhenPlain DEF s
    <2>2. CASE ~(council.extension # <<>>)
      <3>1. offered = <<>>  BY <2>2 DEF When
      <3> QED  BY <3>1, EmptyPlain
    <2> QED  BY <2>1, <2>2
  <1>9. WellPlanned(front \o seated, r.words, there)
    <2>1. Plain(front)  BY <1>3, PlainAppend
    <2>2. castable("lead") => Len(front) > 0 /\ front[Len(front)] = Persona("lead")
      <3> SUFFICES ASSUME castable("lead")
                   PROVE  Len(front) > 0 /\ front[Len(front)] = Persona("lead")
        OBVIOUS
      <3>1. persona("lead") = <<Persona("lead")>>  BY DEF When
      <3>2. Plain(first)  BY <1>3, PlainAppend
      <3>3. first \in Seq(Stages) /\ <<Persona("lead")>> \in Seq(Stages)
        BY <1>2, <3>2, PersonaIsStage DEF Plain
      <3> HIDE DEF first
      <3> DEFINE x == Persona("lead")
      <3> HIDE DEF x
      <3>4. Len(first \o <<x>>) = Len(first) + 1 /\ (first \o <<x>>)[Len(first) + 1] = x
            /\ Len(first) \in Nat
        BY <3>3 DEF x
      <3> QED  BY <3>1, <3>4 DEF x
    <2>3. CASE council.engaged /\ seats # <<>>
      <3> DEFINE s == CouncilStage(seats, <<>>, council.notProposed)
      <3>1. seated = <<s>>  BY <2>3 DEF When
      <3>2. /\ seats \in Seq(CouncilRoles) /\ Distinct(seats)
            /\ ToSet(seats) = {x \in ToSet(needed) : x \in {y \in CouncilRoles : castable(y)}}
        <4>1. council.members = needed  BY <1>7, <2>3
        <4> DEFINE S == {x \in CouncilRoles : castable(x)}
        <4>2. seats = Kept(needed, S)  BY <4>1
        <4> HIDE DEF S, seats, needed
        <4>3. /\ seats \in Seq(CouncilRoles) /\ Distinct(seats)
              /\ ToSet(seats) = {x \in ToSet(needed) : x \in S}
          BY <1>5, <4>2, SomeRoles
        <4> QED  BY <4>3 DEF S
      <3>3. ToSet(needed) \subseteq CouncilRoles  BY <1>5 DEF ToSet
      <3>4. ToSet(seats) = Seats(r.words, there)  BY <3>2, <3>3 DEF Seats
      <3>5. s \in Stages /\ s.kind = "council" /\ s.members = seats
        <4> HIDE DEF seats, council
        <4> QED  BY <1>7, <3>2 DEF CouncilStage, Stages, StageRoles
      <3> HIDE DEF s, seats, front
      <3>6. WellPlanned(front \o <<s>>, r.words, there)
        BY <2>1, <2>2, <2>3, <3>2, <3>4, <3>5, CouncilAppend
      <3> QED  BY <3>1, <3>6
    <2>4. CASE ~(council.engaged /\ seats # <<>>)
      <3>1. seated = <<>>  BY <2>4 DEF When
      <3>2. Plain(front \o <<>>)  BY <2>1, EmptyPlain, PlainAppend
      <3> QED  BY <3>1, <3>2, PlainIsWellPlanned
    <2> QED  BY <2>3, <2>4
  <1>10. Plain(first)  BY <1>3, PlainAppend
  <1> HIDE DEF front, first, seated, offered, spread, backlog, persona
  <1>11. WellPlanned(front \o seated \o offered, r.words, there)  BY <1>8, <1>9, PlanAppend
  <1>12. WellPlanned(front \o seated \o offered \o spread, r.words, there)
    BY <1>4, <1>11, PlanAppend
  <1>13. WellPlanned(front \o seated \o offered \o spread \o persona("tester"), r.words, there)
    BY <1>3, <1>12, PlanAppend
  <1>14. WellPlanned(front \o seated \o offered \o spread \o persona("tester") \o backlog,
                     r.words, there)
    BY <1>3, <1>13, PlanAppend
  <1>15. WellPlanned(first, r.words, there)  BY <1>10, PlainIsWellPlanned
  <1> QED  BY <1>1, <1>14, <1>15
-----------------------------------------------------------------------------
(* The invariants. *)

Before     == {"gate", "held", "queued", "open"}
Unproduced == Before \cup {"check", "stage", "council", "paused", "finish"}
Produced   == {"persist", "verdict", "decide"}
Success    == {"completed", "held", "halted"}

\* Where the run is: the stage at hand is one of a plan that fits the request,
\* and there is an outcome only at the end.
StepInv ==
    /\ req \in Requests /\ tool \in Tools /\ cast \in Casts
    /\ driveMode \in RawModes /\ {metered, finalHold, approved} \subseteq BOOLEAN
    /\ team \in ProfileNames \cup {NoProfile} /\ profile \in ProfileNames
    /\ pc \in PC \ {"advance"}
    /\ WellPlanned(plan, req.words, cast)
    /\ pc \in Before => plan = <<>> /\ next = 1
    /\ next \in 1..(Len(plan) + 1)
    /\ pc \in {"stage", "council", "paused"} \cup Produced => next <= Len(plan)
    /\ pc \in {"council", "verdict"} => Stage.kind = "council"
    /\ pc = "finish" => next = Len(plan) + 1
    /\ pc \notin {"charge", "ended"} => outcome = "none"
    /\ pc = "charge" => outcome \in Success
    /\ pc = "ended" => outcome \in Success \cup {"failed"}

Upto(n) == [i \in 1..n |-> i]

\* n sections were produced, and m of them persisted.
Lengths(n, m) ==
    /\ n <= Len(plan) /\ m <= n
    /\ sections = Upto(n) /\ persisted = Upto(m)
    /\ pc \in Unproduced => n = next - 1 /\ m = n
    /\ pc = "persist" => n = next /\ m = next - 1
    /\ pc \in {"verdict", "decide"} => n = next /\ m = n
    /\ outcome \in Success => m = n
    /\ outcome = "completed" \/ pc = "finish" => n = Len(plan)

\* The section of the last stage is the one at hand, unless it is an offer.
HandedOn ==
    /\ prior \in 0..Len(plan)
    /\ pc \in Unproduced /\ next > 1 /\ plan[next - 1].kind # "extension" => prior = next - 1
    /\ pc \in Produced /\ Stage.kind # "extension" => prior = next

SectionsInv == (\E n, m \in Nat : Lengths(n, m)) /\ HandedOn

Opinions == [agent : CouncilRoles, verdict : VerdictClass, conditions : SUBSET Conditions,
             price : Prices]
OpinionsFit(ops) ==
    /\ IsFiniteSet(ops) /\ ops \subseteq Opinions
    /\ \A o, p \in ops : o.agent = p.agent => o = p
    /\ \A o \in ops : o.conditions # {} => o.verdict # "Go"
Agents(ops) == {o.agent : o \in ops}

\* The verdict is the one of the members' opinions, on all the seats.
Judged ==
    /\ \A o \in opinions : Severity(o.verdict) <= Severity(verdict)
    /\ \E o \in opinions : o.verdict = verdict
    /\ verdict # "Go" =>
          \A o \in opinions : \A c \in o.conditions : <<o.agent, c>> \in conditions
    /\ \A o \in opinions : o.conditions # {} => verdict # "Go"
    /\ Agents(opinions) = Seats(req.words, cast)

\* The council's turn has not come.
CouncilAhead ==
    \E i \in 1..Len(plan) : /\ plan[i].kind = "council"
                            /\ i > next \/ (i = next /\ pc \in Unproduced)

JudgedInv ==
    /\ OpinionsFit(opinions)
    /\ pc = "council" => Agents(opinions) \subseteq ToSet(Stage.members)
    /\ {verdict, stored} \subseteq VerdictClass \cup {"none"}
    /\ verdict # "none" => Judged
    /\ pc \in Before \/ CouncilAhead => verdict = "none"
    /\ stored # verdict => \/ outcome = "failed"
                          \/ (pc \in {"persist", "verdict"} /\ Stage.kind = "council")

\* A run that a Stop or a Not-Ready ended, or that cannot afford a call, is
\* not before one.
StopInv ==
    /\ readiness \in IntakeVerdicts \cup {"none"}
    /\ pc \in {"stage", "council"} => ~metered \/ Affordable
    /\ pc \in Unproduced => verdict # "Stop" /\ readiness # "Not-Ready"
    /\ pc \in Produced =>
          /\ verdict = "Stop" => Stage.kind = "council"
          /\ readiness = "Not-Ready" => Stage.kind = "persona" /\ Stage.role = "intake-validator"

\* A gated run that nobody approved is beyond the gate for its advisory roster
\* only, and no recorder changes that roster on it.
GateInv ==
    /\ driver \in {"replica", "worker"}
    /\ Gated(tool) /\ ~approved /\ pc \notin {"gate", "held"} =>
          IsAdvisoryOnly(profile) /\ (pc = "queued" \/ driver = "worker")

\* What the members that answered have cost is not in the ledger yet.
MoneyInv ==
    /\ {spent, consumed, usage, charged} \subseteq Nat
    /\ pc = "council" => consumed = spent + Total(opinions)
    /\ (pc # "council" /\ outcome # "failed") => consumed = spent
-----------------------------------------------------------------------------
(* The steps of the run. *)

LEMMA Steps ==
    ASSUME [Next]_vars
    PROVE  \/ Classify \/ (Approve \/ WorkerDrives) \/ OtherRunSeeds \/ Open \/ Check
           \/ OfferExtension \/ DispatchCouncil
           \/ \E role \in CouncilRoles, finding \in Finding, price \in Prices :
                  MemberAnswers(role, finding, price)
           \/ Synthesize
           \/ \E price \in Prices, intake \in IntakeVerdicts : PersonaAnswers(price, intake)
           \/ BackendFails \/ PersistStage \/ PersistVerdict \/ PersistFails \/ Decide
           \/ Resume \/ Finish \/ Charge \/ UNCHANGED vars
  BY DEF Next, Pipeline, Council, PersonaStage, Failure

LEMMA StepInit == Init => StepInv
  <1> SUFFICES ASSUME Init PROVE StepInv  OBVIOUS
  <1>1. /\ req \in Requests /\ tool \in Tools /\ cast \in Casts
        /\ driveMode \in RawModes /\ {metered, finalHold, approved} \subseteq BOOLEAN
        /\ team \in ProfileNames \cup {NoProfile}
    BY DEF Init, RawModes
  <1>2. profile \in ProfileNames
    BY DefaultAssumption DEF Init, ResolveProfile, ProfileNames
  <1>3. plan = <<>> /\ next = 1 /\ pc = "gate" /\ outcome = "none"  BY DEF Init
  <1>4. WellPlanned(plan, req.words, cast)  BY <1>3, EmptyPlain, PlainIsWellPlanned
  <1>5. Len(plan) = 0  BY <1>3
  <1> QED  BY <1>1, <1>2, <1>3, <1>4, <1>5 DEF StepInv, PC, Running, Before, Produced

LEMMA PlanLength == ASSUME StepInv PROVE plan \in Seq(Stages) /\ Len(plan) \in Nat /\ next \in Nat
  <1>1. plan \in Seq(Stages)  BY DEF StepInv, WellPlanned
  <1>2. Len(plan) \in Nat  BY <1>1
  <1>3. next \in 1..(Len(plan) + 1)  BY DEF StepInv
  <1> QED  BY <1>1, <1>2, <1>3

\* What StepInv says that no step but Open changes.
LEMMA StepKeep ==
    ASSUME StepInv, UNCHANGED <<inputs, roster, next>>
    PROVE  /\ req' \in Requests /\ tool' \in Tools /\ cast' \in Casts
           /\ driveMode' \in RawModes /\ {metered, finalHold, approved}' \subseteq BOOLEAN
           /\ team' \in ProfileNames \cup {NoProfile} /\ profile' \in ProfileNames
           /\ WellPlanned(plan, req.words, cast)'
           /\ next' \in 1..(Len(plan') + 1) /\ plan' = plan /\ next' = next /\ Stage' = Stage
  BY DEF StepInv, inputs, roster, Stage

\* A step goes to a place it may be at.
LEMMA StepMove ==
    ASSUME StepInv, UNCHANGED <<inputs, roster, next>>,
           pc' \in PC \ (Before \cup {"advance"}),
           pc' \in {"stage", "council", "paused"} \cup Produced => next <= Len(plan),
           pc' \in {"council", "verdict"} => Stage.kind = "council",
           pc' = "finish" => next = Len(plan) + 1,
           \/ pc' \notin {"charge", "ended"} /\ outcome' = "none"
           \/ pc' \in {"charge", "ended"} /\ outcome' \in Success
           \/ pc' = "ended" /\ outcome' = "failed"
    PROVE  StepInv'
  <1>1. outcome' \notin Success => outcome' \in {"none", "failed"}  OBVIOUS
  <1>2. pc' \notin Before /\ pc' \in PC \ {"advance"}  OBVIOUS
  <1>3. /\ pc' \notin {"charge", "ended"} => outcome' = "none"
        /\ pc' = "charge" => outcome' \in Success
        /\ pc' = "ended" => outcome' \in Success \cup {"failed"}
    BY DEF Success
  <1>4. /\ pc' \in {"stage", "council", "paused"} \cup Produced => next' <= Len(plan')
        /\ pc' \in {"council", "verdict"} => Stage.kind' = "council"
        /\ pc' = "finish" => next' = Len(plan') + 1
    BY StepKeep
  <1> QED  BY <1>2, <1>3, <1>4, StepKeep DEF StepInv

LEMMA StepNext == ASSUME StepInv, [Next]_vars PROVE StepInv'
  <1>0. Len(plan) \in Nat /\ next \in Nat  BY PlanLength
  <1>1. CASE Classify
    <2>1. UNCHANGED <<inputs, roster, next>>  BY <1>1 DEF Classify
    <2>2. pc = "gate" /\ pc' \in {"open", "queued", "held"} /\ outcome' = "none"
      BY <1>1 DEF Classify, StepInv, Goto
    <2> QED  BY <1>0, <2>1, <2>2, StepKeep DEF StepInv, PC, Running, Before, Produced
  <1>2. CASE Approve \/ WorkerDrives
    <2>1. /\ UNCHANGED <<inputs, team, profile, plan, next>> /\ approved' \in BOOLEAN
          /\ pc \in Before /\ pc' = "open" /\ outcome' = "none"
      BY <1>2 DEF Approve, WorkerDrives, roster, StepInv, Goto, Before
    <2>2. WellPlanned(plan, req.words, cast)'  BY <2>1 DEF StepInv, inputs
    <2> QED  BY <1>0, <2>1, <2>2
         DEF StepInv, Stage, inputs, PC, Running, Before, Produced
  <1>3. CASE OtherRunSeeds
    <2>1. WellPlanned(plan, req.words, cast)'  BY <1>3 DEF OtherRunSeeds, StepInv, inputs
    <2> QED  BY <1>0, <1>3, <2>1
         DEF OtherRunSeeds, StepInv, Stage, inputs, PC, Running, Before, Produced
  <1>4. CASE Open
    <2>1. WellPlanned(plan', req.words, cast)
      <3>1. CASE tool.role = "none"
        BY <1>4, <3>1, PlansFit DEF Open
      <3>2. CASE tool.role # "none"
        <4>1. tool.role \in StageRoles  BY DEF StepInv, StageRoles
        <4>2. plan' = <<Persona(tool.role)>>  BY <1>4, <3>2 DEF Open
        <4>3. Plain(When(TRUE, Persona(tool.role)))  BY <4>1, PersonaPlain
        <4>4. When(TRUE, Persona(tool.role)) = plan'  BY <4>2 DEF When
        <4> QED  BY <4>3, <4>4, PlainIsWellPlanned
      <3> QED  BY <3>1, <3>2
    <2>2. WellPlanned(plan, req.words, cast)'  BY <1>4, <2>1 DEF Open, inputs
    <2>3. Len(plan') \in Nat  BY <2>1 DEF WellPlanned
    <2>4. next' \in 1..(Len(plan') + 1)  BY <1>4, <2>3 DEF Open, StepInv, Before
    <2>5. team' \in ProfileNames \cup {NoProfile} /\ profile' \in ProfileNames
      BY <1>4 DEF Open, StepInv
    <2>6. pc' = "check" /\ outcome' = "none"  BY <1>4 DEF Open, StepInv, Goto
    <2>7. /\ req' = req /\ tool' = tool /\ cast' = cast /\ driveMode' = driveMode
          /\ metered' = metered /\ finalHold' = finalHold /\ approved' = approved
      BY <1>4 DEF Open, inputs
    <2>8. /\ req' \in Requests /\ tool' \in Tools /\ cast' \in Casts
          /\ driveMode' \in RawModes /\ {metered, finalHold, approved}' \subseteq BOOLEAN
      BY <2>7 DEF StepInv
    <2> QED  BY <2>2, <2>4, <2>5, <2>6, <2>8 DEF StepInv, PC, Running, Before, Produced
  <1>5. CASE Check
    <2>1. UNCHANGED <<inputs, roster, next>>  BY <1>5 DEF Check
    <2>2. \/ pc' = "finish" /\ next = Len(plan) + 1 /\ outcome' = "none"
          \/ pc' = "charge" /\ outcome' = "halted"
          \/ pc' = "stage" /\ next <= Len(plan) /\ outcome' = "none"
      BY <1>0, <1>5, PlanLength DEF Check, StepInv, Goto, End
    <2> QED  BY <1>0, <2>1, <2>2, StepMove DEF PC, Running, Before, Produced, Success
  <1>6. CASE OfferExtension
    <2>1. UNCHANGED <<inputs, roster, next>>  BY <1>6 DEF OfferExtension
    <2>2. pc' = "persist" /\ next <= Len(plan) /\ outcome' = "none"
      BY <1>6 DEF OfferExtension, StepInv, Goto
    <2> QED  BY <1>0, <2>1, <2>2, StepMove DEF PC, Running, Before, Produced, Success
  <1>7. CASE DispatchCouncil
    <2>1. UNCHANGED <<inputs, roster, next>>  BY <1>7 DEF DispatchCouncil
    <2>2. pc' = "council" /\ Stage.kind = "council" /\ next <= Len(plan) /\ outcome' = "none"
      BY <1>7 DEF DispatchCouncil, StepInv, Goto
    <2> QED  BY <1>0, <2>1, <2>2, StepMove DEF PC, Running, Before, Produced, Success
  <1>8. CASE \E role \in CouncilRoles, finding \in Finding, price \in Prices :
                MemberAnswers(role, finding, price)
    BY <1>0, <1>8, StepKeep DEF MemberAnswers, StepInv, PC, Running, Before, Produced, Success
  <1>9. CASE Synthesize
    <2>1. UNCHANGED <<inputs, roster, next>>  BY <1>9 DEF Synthesize
    <2>2. pc' = "persist" /\ next <= Len(plan) /\ outcome' = "none"
      BY <1>9 DEF Synthesize, StepInv, Goto
    <2> QED  BY <1>0, <2>1, <2>2, StepMove DEF PC, Running, Before, Produced, Success
  <1>10. CASE \E price \in Prices, intake \in IntakeVerdicts : PersonaAnswers(price, intake)
    <2>1. UNCHANGED <<inputs, roster, next>>  BY <1>10 DEF PersonaAnswers
    <2>2. pc' = "persist" /\ next <= Len(plan) /\ outcome' = "none"
      BY <1>10 DEF PersonaAnswers, StepInv, Goto
    <2> QED  BY <1>0, <2>1, <2>2, StepMove DEF PC, Running, Before, Produced, Success
  <1>11. CASE BackendFails
    BY <1>0, <1>11, StepKeep DEF BackendFails, StepInv, PC, Running, Before, Produced, Success
  <1>12. CASE PersistStage
    <2>1. UNCHANGED <<inputs, roster, next>>  BY <1>12 DEF PersistStage
    <2>2. next <= Len(plan) /\ outcome' = "none"
          /\ (pc' = "decide" \/ (pc' = "verdict" /\ Stage.kind = "council"))
      BY <1>12 DEF PersistStage, StepInv, Goto, Produced
    <2> QED  BY <1>0, <2>1, <2>2, StepMove DEF PC, Running, Before, Produced, Success
  <1>13. CASE PersistVerdict
    <2>1. UNCHANGED <<inputs, roster, next>>  BY <1>13 DEF PersistVerdict
    <2>2. pc' = "decide" /\ next <= Len(plan) /\ outcome' = "none"
      BY <1>13 DEF PersistVerdict, StepInv, Goto, Produced
    <2> QED  BY <1>0, <2>1, <2>2, StepMove DEF PC, Running, Before, Produced, Success
  <1>14. CASE PersistFails
    BY <1>0, <1>14, StepKeep DEF PersistFails, StepInv, PC, Running, Before, Produced, Success
  <1>15. CASE Decide
    <2>1. /\ req' = req /\ tool' = tool /\ cast' = cast /\ driveMode' = driveMode
          /\ metered' = metered /\ finalHold' = finalHold /\ approved' = approved
          /\ team' = team /\ profile' = profile /\ plan' = plan
      BY <1>15 DEF Decide, inputs, roster
    <2>2. next <= Len(plan) /\ outcome = "none" /\ pc = "decide"
      BY <1>15 DEF Decide, StepInv, Produced
    <2>3. WellPlanned(plan, req.words, cast)'  BY <2>1 DEF StepInv
    <2>4. CASE Halts
      <3>1. next' = next /\ pc' = "charge" /\ outcome' = "halted"
        BY <1>15, <2>4 DEF Decide, End
      <3> QED  BY <2>1, <2>3, <3>1 DEF StepInv, PC, Running, Before, Produced, Success
    <2>5. CASE ~Halts
      <3>1. next' = next + 1 /\ outcome' = "none"
            /\ (pc' = "check" \/ (pc' = "paused" /\ next < Len(plan)))
        BY <1>15, <2>2, <2>5 DEF Decide, Goto, NextIndex
      <3>2. next' \in 1..(Len(plan') + 1) /\ (pc' = "paused" => next' <= Len(plan'))
        BY <1>0, <2>1, <2>2, <3>1
      <3>3. /\ req' \in Requests /\ tool' \in Tools /\ cast' \in Casts
            /\ driveMode' \in RawModes /\ {metered, finalHold, approved}' \subseteq BOOLEAN
            /\ team' \in ProfileNames \cup {NoProfile} /\ profile' \in ProfileNames
        BY <2>1 DEF StepInv
      <3> QED  BY <2>3, <3>1, <3>2, <3>3 DEF StepInv, PC, Running, Before, Produced, Success
    <2> QED  BY <2>4, <2>5
  <1>16. CASE Resume
    <2>1. UNCHANGED <<inputs, roster, next>>  BY <1>16 DEF Resume
    <2>2. pc' = "check" /\ outcome' = "none"
      BY <1>16 DEF Resume, StepInv, Goto
    <2> QED  BY <1>0, <2>1, <2>2, StepMove DEF PC, Running, Before, Produced, Success
  <1>17. CASE Finish
    BY <1>0, <1>17, StepKeep DEF Finish, StepInv, End, PC, Running, Before, Produced, Success
  <1>18. CASE Charge
    BY <1>0, <1>18, StepKeep DEF Charge, StepInv, PC, Running, Before, Produced, Success
  <1>19. CASE UNCHANGED vars
    <2>1. WellPlanned(plan, req.words, cast)'  BY <1>19 DEF vars, inputs, roster, StepInv
    <2> QED  BY <1>19, <2>1 DEF vars, inputs, roster, StepInv, Stage
  <1> QED
    BY <1>1, <1>2, <1>3, <1>4, <1>5, <1>6, <1>7, <1>8, <1>9, <1>10, <1>11, <1>12, <1>13,
       <1>14, <1>15, <1>16, <1>17, <1>18, <1>19, Steps
-----------------------------------------------------------------------------
(* The sections follow the plan. *)

LEMMA UptoFacts ==
    ASSUME NEW n \in Nat
    PROVE  /\ Upto(n) \in Seq(Nat) /\ Len(Upto(n)) = n /\ ToSet(Upto(n)) \subseteq 1..n
           /\ Append(Upto(n), n + 1) = Upto(n + 1)
           /\ \A m \in 0..n : IsPrefix(Upto(m), Upto(n))
  <1>1. Upto(n) \in Seq(Nat) /\ Len(Upto(n)) = n /\ DOMAIN Upto(n) = 1..n  BY DEF Upto
  <1>2. ToSet(Upto(n)) \subseteq 1..n  BY <1>1 DEF ToSet, Upto
  <1>3. Append(Upto(n), n + 1) = Upto(n + 1)
    <2> DEFINE s == Append(Upto(n), n + 1)
               t == Upto(n + 1)
    <2>1. s \in Seq(Nat) /\ Len(s) = n + 1 /\ s[n + 1] = n + 1
          /\ \A i \in 1..n : s[i] = Upto(n)[i]
      BY <1>1, AppendProperties
    <2>2. t \in Seq(Nat) /\ Len(t) = n + 1 /\ \A i \in 1..(n + 1) : t[i] = i  BY DEF Upto
    <2>3. \A i \in 1..n : Upto(n)[i] = i  BY DEF Upto
    <2> HIDE DEF s, t
    <2>4. \A i \in 1..(n + 1) : s[i] = t[i]
      <3> TAKE i \in 1..(n + 1)
      <3>1. i = n + 1 \/ i \in 1..n  OBVIOUS
      <3> QED  BY <2>1, <2>2, <2>3, <3>1
    <2>5. s = t  BY <2>1, <2>2, <2>4, SeqEqual
    <2> QED  BY <2>5 DEF s, t
  <1>4. ASSUME NEW m \in 0..n PROVE IsPrefix(Upto(m), Upto(n))
    <2>1. m \in Nat /\ Len(Upto(m)) = m /\ Upto(m) \in Seq(Nat)  BY DEF Upto
    <2>2. \A i \in 1..m : i \in 1..n /\ Upto(n)[i] = i /\ Upto(m)[i] = i  BY DEF Upto
    <2>3. SubSeq(Upto(m), 1, m) = Upto(m)  BY <2>1, SubSeqFull
    <2> DEFINE s == SubSeq(Upto(n), 1, m)
    <2>4. s \in Seq(Nat) /\ Len(s) = m /\ \A i \in 1..m : s[i] = i
      <3>1. \A i \in 1..m : Upto(n)[i] \in Nat  BY <2>2
      <3>2. /\ s \in Seq(Nat) /\ Len(s) = IF 1 <= m THEN m - 1 + 1 ELSE 0
            /\ \A i \in 1..(m - 1 + 1) : s[i] = Upto(n)[1 + i - 1]
        BY <2>1, <3>1, SubSeqProperties
      <3>3. Len(s) = m  BY <2>1, <3>2
      <3>4. \A i \in 1..m : i \in 1..(m - 1 + 1) /\ 1 + i - 1 = i  BY <2>1
      <3> HIDE DEF s
      <3> QED  BY <2>2, <3>2, <3>3, <3>4
    <2> HIDE DEF s
    <2>5. s = Upto(m)  BY <2>1, <2>2, <2>4, SeqEqual
    <2>6. m <= n  BY <1>1
    <2> QED  BY <1>1, <2>1, <2>3, <2>5, <2>6 DEF IsPrefix, s
  <1> QED  BY <1>1, <1>2, <1>3, <1>4

LEMMA SectionsInit == Init => SectionsInv
  <1> SUFFICES ASSUME Init PROVE SectionsInv  OBVIOUS
  <1>1. /\ plan = <<>> /\ next = 1 /\ pc = "gate" /\ outcome = "none" /\ prior = 0
        /\ sections = <<>> /\ persisted = <<>>
    BY DEF Init
  <1>2. Upto(0) = <<>> /\ Len(plan) = 0  BY <1>1 DEF Upto
  <1>3. Lengths(0, 0)  BY <1>1, <1>2 DEF Lengths, Success
  <1>4. HandedOn  BY <1>1, <1>2 DEF HandedOn, Produced
  <1> QED  BY <1>3, <1>4 DEF SectionsInv

LEMMA SectionsNext == ASSUME StepInv, StepInv', SectionsInv, [Next]_vars PROVE SectionsInv'
  <1> USE DEF SectionsInv
  <1>p. Len(plan) \in Nat /\ next \in Nat /\ next >= 1 /\ next <= Len(plan) + 1
    BY PlanLength DEF StepInv
  <1>q. PICK n \in Nat, m \in Nat : Lengths(n, m)  OBVIOUS
  <1>h. HandedOn  OBVIOUS
  <1>1. CASE Classify
    <2>1. /\ plan' = plan /\ next' = next /\ sections' = sections
          /\ persisted' = persisted /\ prior' = prior
      BY <1>1 DEF Classify, roster, record, vars
    <2>2. pc = "gate" /\ pc' \in {"open", "queued", "held"} /\ outcome' = "none"
      BY <1>p, <1>1 DEF Classify, StepInv, Goto
    <2>3. Lengths(n, m)'
      BY <1>p, <1>q, <2>1, <2>2 DEF Lengths, Before, Unproduced, Produced, Success
    <2>4. HandedOn'
      BY <1>h, <1>p, <2>1, <2>2 DEF HandedOn, Stage, Before, Unproduced, Produced
    <2> QED  BY <2>3, <2>4
  <1>2. CASE Approve \/ WorkerDrives
    <2>1. /\ plan' = plan /\ next' = next /\ sections' = sections
          /\ persisted' = persisted /\ prior' = prior
      BY <1>2 DEF Approve, WorkerDrives, roster, record, vars
    <2>2. pc \in {"held", "queued"} /\ pc' = "open" /\ outcome' = "none"
      BY <1>p, <1>2 DEF Approve, WorkerDrives, StepInv, Goto
    <2>3. Lengths(n, m)'
      BY <1>p, <1>q, <2>1, <2>2 DEF Lengths, Before, Unproduced, Produced, Success
    <2>4. HandedOn'
      BY <1>h, <1>p, <2>1, <2>2 DEF HandedOn, Stage, Before, Unproduced, Produced
    <2> QED  BY <2>3, <2>4
  <1>3. CASE OtherRunSeeds
    <2>1. /\ plan' = plan /\ next' = next /\ sections' = sections
          /\ persisted' = persisted /\ prior' = prior
      BY <1>3 DEF OtherRunSeeds, roster, record, vars
    <2>2. pc' = pc /\ pc \in Before /\ outcome' = "none"
      BY <1>p, <1>3 DEF OtherRunSeeds, StepInv, Before
    <2>3. Lengths(n, m)'
      BY <1>p, <1>q, <2>1, <2>2 DEF Lengths, Before, Unproduced, Produced, Success
    <2>4. HandedOn'
      BY <1>h, <1>p, <2>1, <2>2 DEF HandedOn, Stage, Before, Unproduced, Produced
    <2> QED  BY <2>3, <2>4
  <1>4. CASE Open
    <2>1. /\ next' = next /\ sections' = sections /\ persisted' = persisted /\ prior' = prior
          /\ pc = "open" /\ pc' = "check" /\ outcome' = "none" /\ next = 1 /\ Len(plan) = 0
      BY <1>4 DEF Open, StepInv, Goto, record, Before
    <2>2. Len(plan') \in Nat  BY PlanLength DEF StepInv, WellPlanned
    <2>3. Lengths(n, m)'
      BY <1>p, <1>q, <2>1, <2>2 DEF Lengths, Unproduced, Before, Success
    <2>4. HandedOn'
      BY <1>h, <1>p, <2>1, <2>2 DEF HandedOn, Unproduced, Produced
    <2> QED  BY <2>3, <2>4
  <1>5. CASE Check
    <2>1. /\ plan' = plan /\ next' = next /\ sections' = sections
          /\ persisted' = persisted /\ prior' = prior
      BY <1>5 DEF Check, roster, record, vars
    <2>2. /\ pc = "check"
          /\ \/ pc' = "finish" /\ outcome' = "none" /\ next > Len(plan)
             \/ pc' = "charge" /\ outcome' = "halted"
             \/ pc' = "stage" /\ outcome' = "none"
      BY <1>p, <1>5 DEF Check, StepInv, Goto, End
    <2>3. Lengths(n, m)'
      BY <1>p, <1>q, <2>1, <2>2 DEF Lengths, Before, Unproduced, Produced, Success
    <2>4. HandedOn'
      BY <1>h, <1>p, <2>1, <2>2 DEF HandedOn, Stage, Before, Unproduced, Produced
    <2> QED  BY <2>3, <2>4
  <1>6. CASE OfferExtension
    <2>1. /\ plan' = plan /\ next' = next /\ persisted' = persisted
          /\ prior' = prior /\ Stage.kind = "extension"
          /\ sections' = Append(sections, next)
          /\ pc \in {"stage", "council"} /\ pc' = "persist" /\ outcome' = "none"
      BY <1>6 DEF OfferExtension, StepInv, Push, Goto, roster, record
    <2>2. n = next - 1 /\ m = n /\ sections = Upto(n) /\ persisted = Upto(m)
      BY <1>q, <2>1 DEF Lengths, Unproduced
    <2>3. sections' = Upto(n + 1) /\ n + 1 = next
      <3>1. n + 1 = next  BY <1>p, <2>2
      <3>2. Append(Upto(n), n + 1) = Upto(n + 1)  BY UptoFacts
      <3> QED  BY <2>1, <2>2, <3>1, <3>2
    <2>4. next <= Len(plan)  BY <2>1 DEF StepInv
    <2>5. n + 1 \in Nat /\ Lengths(n + 1, m)'
      BY <1>p, <2>1, <2>2, <2>3, <2>4 DEF Lengths, Unproduced, Before, Success
    <2>6. HandedOn'
      BY <1>h, <1>p, <2>1, <2>4 DEF HandedOn, Stage, Unproduced, Before, Produced
    <2> QED  BY <2>5, <2>6
  <1>7. CASE DispatchCouncil
    <2>1. /\ plan' = plan /\ next' = next /\ sections' = sections
          /\ persisted' = persisted /\ prior' = prior
      BY <1>7 DEF DispatchCouncil, roster, record, vars
    <2>2. pc = "stage" /\ pc' = "council" /\ outcome' = "none"
      BY <1>p, <1>7 DEF DispatchCouncil, StepInv, Goto
    <2>3. Lengths(n, m)'
      BY <1>p, <1>q, <2>1, <2>2 DEF Lengths, Before, Unproduced, Produced, Success
    <2>4. HandedOn'
      BY <1>h, <1>p, <2>1, <2>2 DEF HandedOn, Stage, Before, Unproduced, Produced
    <2> QED  BY <2>3, <2>4
  <1>8. CASE \E role \in CouncilRoles, finding \in Finding, price \in Prices :
                MemberAnswers(role, finding, price)
    <2>1. /\ plan' = plan /\ next' = next /\ sections' = sections
          /\ persisted' = persisted /\ prior' = prior
      BY <1>8 DEF MemberAnswers, roster, record, vars
    <2>2. pc = "council" /\ pc' = "council" /\ outcome' = "none"
      BY <1>p, <1>8 DEF MemberAnswers, StepInv
    <2>3. Lengths(n, m)'
      BY <1>p, <1>q, <2>1, <2>2 DEF Lengths, Before, Unproduced, Produced, Success
    <2>4. HandedOn'
      BY <1>h, <1>p, <2>1, <2>2 DEF HandedOn, Stage, Before, Unproduced, Produced
    <2> QED  BY <2>3, <2>4
  <1>9. CASE Synthesize
    <2>1. /\ plan' = plan /\ next' = next /\ persisted' = persisted /\ prior' = next
          /\ sections' = Append(sections, next)
          /\ pc \in {"stage", "council"} /\ pc' = "persist" /\ outcome' = "none"
      BY <1>9 DEF Synthesize, StepInv, Push, HandOn, Goto, roster, record
    <2>2. n = next - 1 /\ m = n /\ sections = Upto(n) /\ persisted = Upto(m)
      BY <1>q, <2>1 DEF Lengths, Unproduced
    <2>3. sections' = Upto(n + 1) /\ n + 1 = next
      <3>1. n + 1 = next  BY <1>p, <2>2
      <3>2. Append(Upto(n), n + 1) = Upto(n + 1)  BY UptoFacts
      <3> QED  BY <2>1, <2>2, <3>1, <3>2
    <2>4. next <= Len(plan)  BY <2>1 DEF StepInv
    <2>5. n + 1 \in Nat /\ Lengths(n + 1, m)'
      BY <1>p, <2>1, <2>2, <2>3, <2>4 DEF Lengths, Unproduced, Before, Success
    <2>6. HandedOn'
      BY <1>h, <1>p, <2>1, <2>4 DEF HandedOn, Stage, Unproduced, Before, Produced
    <2> QED  BY <2>5, <2>6
  <1>10. CASE \E price \in Prices, intake \in IntakeVerdicts : PersonaAnswers(price, intake)
    <2>1. /\ plan' = plan /\ next' = next /\ persisted' = persisted /\ prior' = next
          /\ sections' = Append(sections, next)
          /\ pc \in {"stage", "council"} /\ pc' = "persist" /\ outcome' = "none"
      BY <1>10 DEF PersonaAnswers, StepInv, Push, HandOn, Goto, roster, record
    <2>2. n = next - 1 /\ m = n /\ sections = Upto(n) /\ persisted = Upto(m)
      BY <1>q, <2>1 DEF Lengths, Unproduced
    <2>3. sections' = Upto(n + 1) /\ n + 1 = next
      <3>1. n + 1 = next  BY <1>p, <2>2
      <3>2. Append(Upto(n), n + 1) = Upto(n + 1)  BY UptoFacts
      <3> QED  BY <2>1, <2>2, <3>1, <3>2
    <2>4. next <= Len(plan)  BY <2>1 DEF StepInv
    <2>5. n + 1 \in Nat /\ Lengths(n + 1, m)'
      BY <1>p, <2>1, <2>2, <2>3, <2>4 DEF Lengths, Unproduced, Before, Success
    <2>6. HandedOn'
      BY <1>h, <1>p, <2>1, <2>4 DEF HandedOn, Stage, Unproduced, Before, Produced
    <2> QED  BY <2>5, <2>6
  <1>11. CASE BackendFails
    <2>1. /\ plan' = plan /\ next' = next /\ sections' = sections
          /\ persisted' = persisted /\ prior' = prior
      BY <1>11 DEF BackendFails, roster, record, vars
    <2>2. pc \in {"stage", "council"} /\ pc' = "ended" /\ outcome' = "failed"
      BY <1>p, <1>11 DEF BackendFails, StepInv
    <2>3. Lengths(n, m)'
      BY <1>p, <1>q, <2>1, <2>2 DEF Lengths, Before, Unproduced, Produced, Success
    <2>4. HandedOn'
      BY <1>h, <1>p, <2>1, <2>2 DEF HandedOn, Stage, Before, Unproduced, Produced
    <2> QED  BY <2>3, <2>4
  <1>12. CASE PersistStage
    <2>1. /\ plan' = plan /\ next' = next /\ sections' = sections /\ prior' = prior
          /\ persisted' = Append(persisted, next)
          /\ pc = "persist" /\ pc' \in {"verdict", "decide"} /\ outcome' = "none"
      BY <1>12 DEF PersistStage, StepInv, Goto, roster
    <2>2. n = next /\ m = next - 1 /\ persisted = Upto(m)
      BY <1>q, <2>1 DEF Lengths, Unproduced, Before
    <2>3. persisted' = Upto(m + 1) /\ m + 1 = next
      <3>1. m + 1 = next  BY <1>p, <2>2
      <3>2. Append(Upto(m), m + 1) = Upto(m + 1)  BY UptoFacts
      <3> QED  BY <2>1, <2>2, <3>1, <3>2
    <2>4. m + 1 \in Nat /\ Lengths(n, m + 1)'
      BY <1>p, <1>q, <2>1, <2>2, <2>3 DEF Lengths, Unproduced, Before, Success
    <2>5. HandedOn'
      BY <1>h, <1>p, <2>1 DEF HandedOn, Stage, Unproduced, Before, Produced
    <2> QED  BY <2>4, <2>5
  <1>13. CASE PersistVerdict
    <2>1. /\ plan' = plan /\ next' = next /\ sections' = sections
          /\ persisted' = persisted /\ prior' = prior
      BY <1>13 DEF PersistVerdict, roster, record, vars
    <2>2. pc = "verdict" /\ pc' = "decide" /\ outcome' = "none"
      BY <1>p, <1>13 DEF PersistVerdict, StepInv, Goto
    <2>3. Lengths(n, m)'
      BY <1>p, <1>q, <2>1, <2>2 DEF Lengths, Before, Unproduced, Produced, Success
    <2>4. HandedOn'
      BY <1>h, <1>p, <2>1, <2>2 DEF HandedOn, Stage, Before, Unproduced, Produced
    <2> QED  BY <2>3, <2>4
  <1>14. CASE PersistFails
    <2>1. /\ plan' = plan /\ next' = next /\ sections' = sections
          /\ persisted' = persisted /\ prior' = prior
      BY <1>14 DEF PersistFails, roster, record, vars
    <2>2. pc \in {"persist", "verdict"} /\ pc' = "ended" /\ outcome' = "failed"
      BY <1>p, <1>14 DEF PersistFails, StepInv
    <2>3. Lengths(n, m)'
      BY <1>p, <1>q, <2>1, <2>2 DEF Lengths, Before, Unproduced, Produced, Success
    <2>4. HandedOn'
      BY <1>h, <1>p, <2>1, <2>2 DEF HandedOn, Stage, Before, Unproduced, Produced
    <2> QED  BY <2>3, <2>4
  <1>15. CASE Decide
    <2>1. /\ plan' = plan /\ sections' = sections /\ persisted' = persisted /\ prior' = prior
          /\ pc = "decide"
          /\ \/ next' = next /\ pc' = "charge" /\ outcome' = "halted"
             \/ next' = next + 1 /\ pc' \in {"paused", "check"} /\ outcome' = "none"
      BY <1>15 DEF Decide, StepInv, Goto, End, NextIndex, roster, record
    <2>2. n = next /\ m = next  BY <1>q, <2>1 DEF Lengths, Unproduced, Before
    <2>3. Lengths(n, m)'
      BY <1>p, <1>q, <2>1, <2>2 DEF Lengths, Unproduced, Before, Success
    <2>4. HandedOn'
      <3>1. Stage.kind # "extension" => prior = next  BY <1>h, <2>1 DEF HandedOn, Produced
      <3>2. prior \in 0..Len(plan)  BY <1>h DEF HandedOn
      <3>3. CASE next' = next /\ pc' = "charge"
        BY <2>1, <3>2, <3>3 DEF HandedOn, Unproduced, Before, Produced
      <3>4. CASE next' = next + 1 /\ pc' \in {"paused", "check"}
        <4>1. next' - 1 = next /\ plan'[next' - 1] = Stage  BY <1>p, <2>1, <3>4 DEF Stage
        <4> QED  BY <2>1, <3>1, <3>2, <3>4, <4>1 DEF HandedOn, Unproduced, Before, Produced
      <3> QED  BY <2>1, <3>3, <3>4
    <2> QED  BY <2>3, <2>4
  <1>16. CASE Resume
    <2>1. /\ plan' = plan /\ next' = next /\ sections' = sections
          /\ persisted' = persisted /\ prior' = prior
      BY <1>16 DEF Resume, roster, record, vars
    <2>2. pc = "paused" /\ pc' = "check" /\ outcome' = "none"
      BY <1>p, <1>16 DEF Resume, StepInv, Goto
    <2>3. Lengths(n, m)'
      BY <1>p, <1>q, <2>1, <2>2 DEF Lengths, Before, Unproduced, Produced, Success
    <2>4. HandedOn'
      BY <1>h, <1>p, <2>1, <2>2 DEF HandedOn, Stage, Before, Unproduced, Produced
    <2> QED  BY <2>3, <2>4
  <1>17. CASE Finish
    <2>1. /\ plan' = plan /\ next' = next /\ sections' = sections
          /\ persisted' = persisted /\ prior' = prior
      BY <1>17 DEF Finish, roster, record, vars
    <2>2. pc = "finish" /\ pc' = "charge" /\ outcome' \in {"held", "completed"}
      BY <1>p, <1>17 DEF Finish, StepInv, End
    <2>3. Lengths(n, m)'
      BY <1>p, <1>q, <2>1, <2>2 DEF Lengths, Before, Unproduced, Produced, Success
    <2>4. HandedOn'
      BY <1>h, <1>p, <2>1, <2>2 DEF HandedOn, Stage, Before, Unproduced, Produced
    <2> QED  BY <2>3, <2>4
  <1>18. CASE Charge
    <2>1. /\ plan' = plan /\ next' = next /\ sections' = sections
          /\ persisted' = persisted /\ prior' = prior
      BY <1>18 DEF Charge, roster, record, vars
    <2>2. pc = "charge" /\ pc' = "ended" /\ outcome' = outcome
      BY <1>p, <1>18 DEF Charge, StepInv
    <2>3. Lengths(n, m)'
      BY <1>p, <1>q, <2>1, <2>2 DEF Lengths, Before, Unproduced, Produced, Success
    <2>4. HandedOn'
      BY <1>h, <1>p, <2>1, <2>2 DEF HandedOn, Stage, Before, Unproduced, Produced
    <2> QED  BY <2>3, <2>4
  <1>19. CASE UNCHANGED vars
    <2>1. /\ plan' = plan /\ next' = next /\ sections' = sections
          /\ persisted' = persisted /\ prior' = prior
      BY <1>19 DEF vars, roster, record, vars
    <2>2. pc' = pc /\ outcome' = outcome
      BY <1>p, <1>19 DEF vars, StepInv
    <2>3. Lengths(n, m)'
      BY <1>p, <1>q, <2>1, <2>2 DEF Lengths, Before, Unproduced, Produced, Success
    <2>4. HandedOn'
      BY <1>h, <1>p, <2>1, <2>2 DEF HandedOn, Stage, Before, Unproduced, Produced
    <2> QED  BY <2>3, <2>4
  <1> QED
    BY <1>1, <1>2, <1>3, <1>4, <1>5, <1>6, <1>7, <1>8, <1>9, <1>10, <1>11, <1>12, <1>13,
       <1>14, <1>15, <1>16, <1>17, <1>18, <1>19, Steps
-----------------------------------------------------------------------------
(* The verdict. *)

LEMMA StageFits ==
    ASSUME StepInv, next <= Len(plan)
    PROVE  /\ Stage \in Stages /\ next \in 1..Len(plan)
           /\ Stage.kind = "council" => CouncilFits(plan, next, req.words, cast)
  <1>1. next \in 1..Len(plan)  BY PlanLength DEF StepInv
  <1>2. Stage \in Stages  BY <1>1, PlanLength, ElementOfSeq DEF Stage
  <1> QED  BY <1>1, <1>2 DEF StepInv, WellPlanned, Stage

\* As many opinions as seats, each of another member: every seat has answered.
LEMMA SeatsAnswered ==
    ASSUME NEW ops, OpinionsFit(ops), NEW members \in Seq(CouncilRoles), Distinct(members),
           Agents(ops) \subseteq ToSet(members), Cardinality(ops) = Len(members)
    PROVE  Agents(ops) = ToSet(members)
  <1> DEFINE n == Len(members)
             A == Agents(ops)
             T == ToSet(members)
             f == [i \in 1..n |-> members[i]]
             g == [o \in ops |-> o.agent]
  <1>1. n \in Nat /\ DOMAIN members = 1..n  OBVIOUS
  <1>2. IsFiniteSet(1..n) /\ Cardinality(1..n) = n
    <2>1. 1 \in Int /\ n \in Int  BY <1>1
    <2>2. IsFiniteSet(1..n) /\ Cardinality(1..n) = IF 1 > n THEN 0 ELSE n - 1 + 1
      BY <2>1, FS_Interval
    <2> HIDE DEF n
    <2>3. (IF 1 > n THEN 0 ELSE n - 1 + 1) = n  BY <1>1
    <2> QED  BY <2>2, <2>3
  <1>3. IsFiniteSet(T) /\ Cardinality(T) = n
    <2>1. f \in [1..n -> T]  BY <1>1 DEF ToSet
    <2>2. \A t \in T : \E i \in 1..n : f[i] = t  BY <1>1 DEF ToSet
    <2>3. \A i, k \in 1..n : f[i] = f[k] => i = k  BY DEF Distinct
    <2> HIDE DEF f, T, n
    <2>4. f \in Surjection(1..n, T)  BY <2>1, <2>2 DEF Surjection
    <2>5. f \in Injection(1..n, T)  BY <2>1, <2>3 DEF Injection, IsInjective
    <2>6. IsFiniteSet(T) /\ (Cardinality(T) = Cardinality(1..n) <=> f \in Injection(1..n, T))
      BY <1>2, <2>4, FS_Surjection
    <2> QED  BY <1>2, <2>5, <2>6
  <1>4. Cardinality(A) = Cardinality(ops)
    <2>1. g \in [ops -> A]  BY DEF Agents
    <2>2. \A a \in A : \E o \in ops : g[o] = a  BY DEF Agents
    <2>3. \A o, q \in ops : g[o] = g[q] => o = q  BY DEF OpinionsFit
    <2>4. IsFiniteSet(ops)  BY DEF OpinionsFit
    <2> HIDE DEF g, A
    <2>5. g \in Surjection(ops, A)  BY <2>1, <2>2 DEF Surjection
    <2>6. g \in Injection(ops, A)  BY <2>1, <2>3 DEF Injection, IsInjective
    <2> QED  BY <2>4, <2>5, <2>6, FS_Surjection
  <1>5. A \in SUBSET T /\ Cardinality(T) = Cardinality(A)  BY <1>3, <1>4
  <1> HIDE DEF A, T
  <1>6. T = A  BY <1>3, <1>5, FS_Subset
  <1> QED  BY <1>6 DEF A, T

\* synthesizeVerdict takes the most restrictive of the opinions.
LEMMA MostRestrictive ==
    ASSUME NEW ops, OpinionsFit(ops), ops # {}
    PROVE  LET v == SynthesizeVerdict(ops)
           IN  /\ v \in VerdictClass
               /\ \A o \in ops : Severity(o.verdict) <= Severity(v)
               /\ \E o \in ops : o.verdict = v
               /\ v # "Go" => \A o \in ops : \A c \in o.conditions :
                                  <<o.agent, c>> \in SynthesizeConditions(ops)
               /\ \A o \in ops : o.conditions # {} => v # "Go"
  <1> DEFINE v == SynthesizeVerdict(ops)
  <1>1. Severity("Go") = 0 /\ Severity("Go-With-Conditions") = 1 /\ Severity("Stop") = 2
    BY DEF Severity
  <1>2. \A o \in ops : o.verdict \in {"Go", "Go-With-Conditions", "Stop"}
    BY DEF OpinionsFit, Opinions, VerdictClass
  <1>3. \/ v = "Stop" /\ \E o \in ops : o.verdict = "Stop"
        \/ /\ v = "Go-With-Conditions" /\ \E o \in ops : o.verdict = "Go-With-Conditions"
           /\ \A o \in ops : o.verdict # "Stop"
        \/ v = "Go" /\ \A o \in ops : o.verdict = "Go"
    BY <1>2 DEF SynthesizeVerdict
  <1> HIDE DEF v
  <1>4. v \in VerdictClass  BY <1>3 DEF VerdictClass
  <1>5. \E o \in ops : o.verdict = v  BY <1>3
  <1>6. \A o \in ops : Severity(o.verdict) <= Severity(v)
    <2> SUFFICES ASSUME NEW o \in ops PROVE Severity(o.verdict) <= Severity(v)  OBVIOUS
    <2>1. o.verdict = "Go" \/ o.verdict = "Go-With-Conditions" \/ o.verdict = "Stop"  BY <1>2
    <2> QED  BY <1>1, <1>3, <2>1
  <1>7. \A o \in ops : o.conditions # {} => v # "Go"  BY <1>3 DEF OpinionsFit
  <1>8. v # "Go" => \A o \in ops : \A c \in o.conditions :
                       <<o.agent, c>> \in SynthesizeConditions(ops)
    BY DEF SynthesizeConditions, AggregateConditions, v
  <1> QED  BY <1>4, <1>5, <1>6, <1>7, <1>8 DEF v

LEMMA ParsedVerdict ==
    ASSUME NEW f \in Finding
    PROVE  /\ ParseMemberVerdict(f) \in VerdictClass /\ f.conditions \in SUBSET Conditions
           /\ f.conditions # {} => ParseMemberVerdict(f) # "Go"
  BY DEF Finding, ParseMemberVerdict, VerdictClass

LEMMA JudgedInit == Init => JudgedInv
  <1> SUFFICES ASSUME Init PROVE JudgedInv  OBVIOUS
  <1>1. OpinionsFit({})  BY FS_EmptySet DEF OpinionsFit
  <1> QED  BY <1>1 DEF Init, JudgedInv

\* A step that leaves the opinions, the verdicts and the plan alone.
LEMMA JudgedKeep ==
    ASSUME JudgedInv, UNCHANGED <<req, cast, plan, opinions, verdict, conditions, stored>>,
           pc' \in Before => pc \in Before,
           CouncilAhead' => CouncilAhead,
           pc' = "council" => pc = "council" /\ Stage' = Stage,
           stored # verdict => \/ outcome' = "failed"
                               \/ pc' \in {"persist", "verdict"} /\ Stage.kind' = "council"
    PROVE  JudgedInv'
  <1>1. Judged => Judged'  BY DEF Judged
  <1> QED  BY <1>1 DEF JudgedInv

\* Nothing is ahead that was not: the run is at the same stage, or at the next.
LEMMA AheadKeep ==
    ASSUME StepInv, plan' = plan,
           \/ next' = next /\ (pc' \in Unproduced => pc \in Unproduced)
           \/ next' = next + 1
    PROVE  CouncilAhead' => CouncilAhead
  <1>1. next \in Nat /\ Len(plan) \in Nat  BY PlanLength
  <1> SUFFICES ASSUME CouncilAhead' PROVE CouncilAhead  OBVIOUS
  <1>2. PICK i \in 1..Len(plan) : /\ plan[i].kind = "council"
                                  /\ i > next' \/ (i = next' /\ pc' \in Unproduced)
    BY DEF CouncilAhead
  <1>3. i > next \/ (i = next /\ pc \in Unproduced)  BY <1>1, <1>2
  <1> QED  BY <1>2, <1>3 DEF CouncilAhead

LEMMA JudgedNext == ASSUME StepInv, StepInv', JudgedInv, [Next]_vars PROVE JudgedInv'
  <1>p. Len(plan) \in Nat /\ next \in Nat  BY PlanLength
  <1>1. CASE Classify
    <2>1. /\ UNCHANGED <<req, cast, plan, opinions, verdict, conditions, stored>>
          /\ next' = next /\ Stage' = Stage
      BY <1>1 DEF Classify, inputs, roster, judged, record, vars, Stage
    <2>2. pc = "gate" /\ pc' \in {"open", "queued", "held"} /\ outcome = "none"
      BY <1>1 DEF Classify, StepInv, Goto
    <2>3. stored = verdict \/ outcome' = "failed" \/ (pc' = pc /\ outcome' = outcome)
      BY <2>2 DEF JudgedInv
    <2>4. CouncilAhead' => CouncilAhead
      BY <2>1, <2>2, AheadKeep DEF Unproduced, Before
    <2> QED  BY <2>1, <2>2, <2>3, <2>4, JudgedKeep DEF Before, JudgedInv
  <1>2. CASE Approve \/ WorkerDrives
    <2>1. /\ UNCHANGED <<req, cast, plan, opinions, verdict, conditions, stored>>
          /\ next' = next /\ Stage' = Stage
      BY <1>2 DEF Approve, WorkerDrives, inputs, roster, judged, record, vars, Stage
    <2>2. pc \in {"held", "queued"} /\ pc' = "open" /\ outcome = "none"
      BY <1>2 DEF Approve, WorkerDrives, StepInv, Goto
    <2>3. stored = verdict \/ outcome' = "failed" \/ (pc' = pc /\ outcome' = outcome)
      BY <2>2 DEF JudgedInv
    <2>4. CouncilAhead' => CouncilAhead
      BY <2>1, <2>2, AheadKeep DEF Unproduced, Before
    <2> QED  BY <2>1, <2>2, <2>3, <2>4, JudgedKeep DEF Before, JudgedInv
  <1>3. CASE OtherRunSeeds
    <2>1. /\ UNCHANGED <<req, cast, plan, opinions, verdict, conditions, stored>>
          /\ next' = next /\ Stage' = Stage
      BY <1>3 DEF OtherRunSeeds, inputs, roster, judged, record, vars, Stage
    <2>2. pc' = pc /\ pc \in Before /\ outcome = "none"
      BY <1>3 DEF OtherRunSeeds, StepInv, Before
    <2>3. stored = verdict \/ outcome' = "failed" \/ (pc' = pc /\ outcome' = outcome)
      BY <2>2 DEF JudgedInv, Before
    <2>4. CouncilAhead' => CouncilAhead
      BY <2>1, <2>2, AheadKeep DEF Unproduced, Before
    <2> QED  BY <2>1, <2>2, <2>3, <2>4, JudgedKeep DEF Before, JudgedInv
  <1>4. CASE Open
    <2>1. /\ UNCHANGED <<req, cast, opinions, verdict, conditions, stored>>
          /\ pc = "open" /\ pc' = "check" /\ outcome = "none"
      BY <1>4 DEF Open, inputs, judged, record, Goto, StepInv
    <2>2. verdict = "none" /\ stored = "none"  BY <2>1 DEF JudgedInv, Before
    <2> QED  BY <2>1, <2>2 DEF JudgedInv
  <1>5. CASE Check
    <2>1. /\ UNCHANGED <<req, cast, plan, opinions, verdict, conditions, stored>>
          /\ next' = next /\ Stage' = Stage
      BY <1>5 DEF Check, inputs, roster, judged, record, vars, Stage
    <2>2. pc = "check" /\ pc' \in {"finish", "charge", "stage"} /\ outcome = "none"
      BY <1>5 DEF Check, StepInv, Goto, End
    <2>3. stored = verdict \/ outcome' = "failed" \/ (pc' = pc /\ outcome' = outcome)
      BY <2>2 DEF JudgedInv
    <2>4. CouncilAhead' => CouncilAhead
      BY <2>1, <2>2, AheadKeep DEF Unproduced, Before
    <2> QED  BY <2>1, <2>2, <2>3, <2>4, JudgedKeep DEF Before, JudgedInv
  <1>6. CASE OfferExtension
    <2>1. /\ UNCHANGED <<req, cast, plan, opinions, verdict, conditions, stored>>
          /\ next' = next /\ Stage' = Stage
      BY <1>6 DEF OfferExtension, inputs, roster, judged, record, vars, Stage
    <2>2. pc = "stage" /\ pc' = "persist" /\ outcome = "none"
      BY <1>6 DEF OfferExtension, StepInv, Goto
    <2>3. stored = verdict \/ outcome' = "failed" \/ (pc' = pc /\ outcome' = outcome)
      BY <2>2 DEF JudgedInv
    <2>4. CouncilAhead' => CouncilAhead
      BY <2>1, <2>2, AheadKeep DEF Unproduced, Before
    <2> QED  BY <2>1, <2>2, <2>3, <2>4, JudgedKeep DEF Before, JudgedInv
  <1>7. CASE DispatchCouncil
    <2>1. /\ UNCHANGED <<req, cast, plan, verdict, conditions, stored>> /\ opinions' = {}
          /\ next' = next /\ Stage.kind = "council"
          /\ pc = "stage" /\ pc' = "council" /\ outcome = "none"
      BY <1>7 DEF DispatchCouncil, inputs, roster, record, Goto, StepInv
    <2>2. next \in 1..Len(plan)  BY <2>1, StageFits DEF StepInv
    <2>3. CouncilAhead  BY <2>1, <2>2 DEF CouncilAhead, Stage, Unproduced
    <2>4. verdict = "none" /\ stored = "none"  BY <2>1, <2>3 DEF JudgedInv
    <2>5. OpinionsFit({}) /\ Agents({}) = {}  BY FS_EmptySet DEF OpinionsFit, Agents
    <2> QED  BY <2>1, <2>4, <2>5 DEF JudgedInv
  <1>8. CASE \E role \in CouncilRoles, finding \in Finding, price \in Prices :
                MemberAnswers(role, finding, price)
    <2>1. PICK role \in CouncilRoles, finding \in Finding, price \in Prices :
              MemberAnswers(role, finding, price)
      BY <1>8
    <2> DEFINE new == [agent |-> role, verdict |-> ParseMemberVerdict(finding),
                       conditions |-> finding.conditions, price |-> price]
    <2>2. /\ UNCHANGED <<req, cast, plan, verdict, conditions, stored>>
          /\ opinions' = opinions \cup {new} /\ next' = next /\ Contains(Stage.members, role)
          /\ pc = "council" /\ pc' = "council" /\ outcome = "none"
          /\ \A o \in opinions : o.agent # role
      BY <2>1 DEF MemberAnswers, inputs, roster, record, StepInv
    <2>3. Stage.kind = "council" /\ Stage' = Stage  BY <2>2 DEF StepInv, Stage
    <2>4. next \in 1..Len(plan) /\ Stage \in Stages  BY <2>2, StageFits DEF StepInv
    <2>5. CouncilAhead  BY <2>2, <2>3, <2>4 DEF CouncilAhead, Stage, Unproduced
    <2>6. verdict = "none" /\ stored = "none"  BY <2>2, <2>5 DEF JudgedInv
    <2>7. /\ new \in Opinions /\ new.agent = role
          /\ new.conditions # {} => new.verdict # "Go"
      BY ParsedVerdict DEF Opinions
    <2> HIDE DEF new
    <2>8. OpinionsFit(opinions \cup {new})
      <3>1. OpinionsFit(opinions)  BY DEF JudgedInv
      <3>2. IsFiniteSet(opinions \cup {new})  BY <3>1, FS_AddElement DEF OpinionsFit
      <3> QED  BY <2>2, <2>7, <3>1, <3>2 DEF OpinionsFit
    <2>9. Agents(opinions \cup {new}) \subseteq ToSet(Stage.members)
      <3>1. Agents(opinions) \subseteq ToSet(Stage.members)  BY <2>2 DEF JudgedInv
      <3>2. Stage.members \in Seq(CouncilRoles)  BY <2>4 DEF Stages
      <3>3. role \in ToSet(Stage.members)  BY <2>2, <3>2 DEF Contains, ToSet
      <3> QED  BY <2>7, <3>1, <3>3 DEF Agents
    <2> QED  BY <2>2, <2>3, <2>6, <2>8, <2>9 DEF JudgedInv
  <1>9. CASE Synthesize
    <2>1. /\ UNCHANGED <<req, cast, plan, opinions, stored>> /\ next' = next
          /\ pc = "council" /\ pc' = "persist" /\ outcome = "none"
          /\ verdict' = SynthesizeVerdict(opinions)
          /\ conditions' = SynthesizeConditions(opinions)
          /\ Cardinality(opinions) = Len(Stage.members)
      BY <1>9 DEF Synthesize, AllAnswered, inputs, roster, record, Goto, StepInv
    <2>2. Stage.kind = "council" /\ Stage' = Stage  BY <2>1 DEF StepInv, Stage
    <2>3. next \in 1..Len(plan) /\ Stage \in Stages /\ CouncilFits(plan, next, req.words, cast)
      BY <2>1, <2>2, StageFits DEF StepInv
    <2>4. /\ Stage.members # <<>> /\ Distinct(Stage.members)
          /\ ToSet(Stage.members) = Seats(req.words, cast)
          /\ \A j \in 1..Len(plan) : plan[j].kind = "council" => j = next
      BY <2>3 DEF CouncilFits, Stage
    <2>5. Stage.members \in Seq(CouncilRoles)  BY <2>3 DEF Stages
    <2>6. OpinionsFit(opinions) /\ Agents(opinions) \subseteq ToSet(Stage.members)
      BY <2>1 DEF JudgedInv
    <2>7. Agents(opinions) = Seats(req.words, cast)
      BY <2>1, <2>4, <2>5, <2>6, SeatsAnswered
    <2>8. opinions # {}
      <3>1. Len(Stage.members) \in Nat \ {0}  BY <2>4, <2>5, EmptySeq
      <3> QED  BY <2>1, <3>1, FS_EmptySet
    <2>9. verdict' \in VerdictClass /\ Judged'
      BY <2>1, <2>6, <2>7, <2>8, MostRestrictive DEF Judged
    <2>10. ~CouncilAhead'
      BY <1>p, <2>1, <2>4 DEF CouncilAhead, Unproduced, Before
    <2>11. stored \in VerdictClass \cup {"none"}  BY DEF JudgedInv
    <2>12. verdict' \in VerdictClass \cup {"none"} /\ Stage.kind' = "council"  BY <2>2, <2>9
    <2> QED  BY <2>1, <2>6, <2>9, <2>10, <2>11, <2>12 DEF JudgedInv, Before
  <1>10. CASE \E price \in Prices, intake \in IntakeVerdicts : PersonaAnswers(price, intake)
    <2>1. /\ UNCHANGED <<req, cast, plan, opinions, verdict, conditions, stored>>
          /\ next' = next /\ Stage' = Stage
      BY <1>10 DEF PersonaAnswers, inputs, roster, judged, record, vars, Stage
    <2>2. pc = "stage" /\ pc' = "persist" /\ outcome = "none"
      BY <1>10 DEF PersonaAnswers, StepInv, Goto
    <2>3. stored = verdict \/ outcome' = "failed" \/ (pc' = pc /\ outcome' = outcome)
      BY <2>2 DEF JudgedInv
    <2>4. CouncilAhead' => CouncilAhead
      BY <2>1, <2>2, AheadKeep DEF Unproduced, Before
    <2> QED  BY <2>1, <2>2, <2>3, <2>4, JudgedKeep DEF Before, JudgedInv
  <1>11. CASE BackendFails
    <2>1. /\ UNCHANGED <<req, cast, plan, opinions, verdict, conditions, stored>>
          /\ next' = next /\ Stage' = Stage
      BY <1>11 DEF BackendFails, inputs, roster, judged, record, vars, Stage
    <2>2. pc \in {"stage", "council"} /\ pc' = "ended" /\ outcome' = "failed"
      BY <1>11 DEF BackendFails, StepInv
    <2>3. stored = verdict \/ outcome' = "failed" \/ (pc' = pc /\ outcome' = outcome)
      BY <2>2 DEF JudgedInv
    <2>4. CouncilAhead' => CouncilAhead
      BY <2>1, <2>2, AheadKeep DEF Unproduced, Before
    <2> QED  BY <2>1, <2>2, <2>3, <2>4, JudgedKeep DEF Before, JudgedInv
  <1>12. CASE PersistStage
    <2>1. /\ UNCHANGED <<req, cast, plan, opinions, verdict, conditions, stored>>
          /\ next' = next /\ Stage' = Stage
          /\ pc = "persist" /\ outcome = "none"
          /\ pc' = IF Stage.kind = "council" THEN "verdict" ELSE "decide"
      BY <1>12 DEF PersistStage, inputs, roster, judged, Stage, Goto, StepInv
    <2>2. stored # verdict => Stage.kind = "council"  BY <2>1 DEF JudgedInv
    <2>3. CouncilAhead' => CouncilAhead  BY <2>1, AheadKeep DEF Unproduced, Before
    <2> QED  BY <2>1, <2>2, <2>3, JudgedKeep DEF Before
  <1>13. CASE PersistVerdict
    <2>1. /\ UNCHANGED <<req, cast, plan, opinions, verdict, conditions>>
          /\ next' = next /\ stored' = verdict /\ pc = "verdict" /\ pc' = "decide"
      BY <1>13 DEF PersistVerdict, inputs, roster, judged, Goto
    <2>2. CouncilAhead' => CouncilAhead  BY <2>1, AheadKeep DEF Unproduced, Before
    <2>3. Judged => Judged'  BY <2>1 DEF Judged
    <2> QED  BY <2>1, <2>2, <2>3 DEF JudgedInv, Before
  <1>14. CASE PersistFails
    <2>1. /\ UNCHANGED <<req, cast, plan, opinions, verdict, conditions, stored>>
          /\ next' = next /\ Stage' = Stage
      BY <1>14 DEF PersistFails, inputs, roster, judged, record, vars, Stage
    <2>2. pc \in {"persist", "verdict"} /\ pc' = "ended" /\ outcome' = "failed"
      BY <1>14 DEF PersistFails, StepInv
    <2>3. stored = verdict \/ outcome' = "failed" \/ (pc' = pc /\ outcome' = outcome)
      BY <2>2 DEF JudgedInv
    <2>4. CouncilAhead' => CouncilAhead
      BY <2>1, <2>2, AheadKeep DEF Unproduced, Before
    <2> QED  BY <2>1, <2>2, <2>3, <2>4, JudgedKeep DEF Before, JudgedInv
  <1>15. CASE Decide
    <2>1. /\ UNCHANGED <<req, cast, plan, opinions, verdict, conditions, stored>>
          /\ pc = "decide" /\ outcome = "none" /\ pc' \in {"charge", "paused", "check"}
          /\ \/ next' = next /\ pc' = "charge"
             \/ next' = next + 1
      BY <1>15 DEF Decide, inputs, roster, judged, record, Goto, End, NextIndex, StepInv
    <2>2. stored = verdict  BY <2>1 DEF JudgedInv
    <2>3. CouncilAhead' => CouncilAhead  BY <2>1, AheadKeep DEF Unproduced, Before
    <2> QED  BY <2>1, <2>2, <2>3, JudgedKeep DEF Before
  <1>16. CASE Resume
    <2>1. /\ UNCHANGED <<req, cast, plan, opinions, verdict, conditions, stored>>
          /\ next' = next /\ Stage' = Stage
      BY <1>16 DEF Resume, inputs, roster, judged, record, vars, Stage
    <2>2. pc = "paused" /\ pc' = "check" /\ outcome = "none"
      BY <1>16 DEF Resume, StepInv, Goto
    <2>3. stored = verdict \/ outcome' = "failed" \/ (pc' = pc /\ outcome' = outcome)
      BY <2>2 DEF JudgedInv
    <2>4. CouncilAhead' => CouncilAhead
      BY <2>1, <2>2, AheadKeep DEF Unproduced, Before
    <2> QED  BY <2>1, <2>2, <2>3, <2>4, JudgedKeep DEF Before, JudgedInv
  <1>17. CASE Finish
    <2>1. /\ UNCHANGED <<req, cast, plan, opinions, verdict, conditions, stored>>
          /\ next' = next /\ Stage' = Stage
      BY <1>17 DEF Finish, inputs, roster, judged, record, vars, Stage
    <2>2. pc = "finish" /\ pc' = "charge" /\ outcome = "none"
      BY <1>17 DEF Finish, StepInv, End
    <2>3. stored = verdict \/ outcome' = "failed" \/ (pc' = pc /\ outcome' = outcome)
      BY <2>2 DEF JudgedInv
    <2>4. CouncilAhead' => CouncilAhead
      BY <2>1, <2>2, AheadKeep DEF Unproduced, Before
    <2> QED  BY <2>1, <2>2, <2>3, <2>4, JudgedKeep DEF Before, JudgedInv
  <1>18. CASE Charge
    <2>1. /\ UNCHANGED <<req, cast, plan, opinions, verdict, conditions, stored>>
          /\ next' = next /\ Stage' = Stage
      BY <1>18 DEF Charge, inputs, roster, judged, record, vars, Stage
    <2>2. pc = "charge" /\ pc' = "ended" /\ outcome' = outcome
      BY <1>18 DEF Charge, StepInv
    <2>3. stored = verdict \/ outcome' = "failed" \/ (pc' = pc /\ outcome' = outcome)
      BY <2>2 DEF JudgedInv
    <2>4. CouncilAhead' => CouncilAhead
      BY <2>1, <2>2, AheadKeep DEF Unproduced, Before
    <2> QED  BY <2>1, <2>2, <2>3, <2>4, JudgedKeep DEF Before, JudgedInv
  <1>19. CASE UNCHANGED vars
    <2>1. /\ UNCHANGED <<req, cast, plan, opinions, verdict, conditions, stored>>
          /\ next' = next /\ Stage' = Stage
      BY <1>19 DEF vars, inputs, roster, judged, record, vars, Stage
    <2>2. pc' = pc /\ outcome' = outcome
      BY <1>19 DEF vars, StepInv
    <2>3. stored = verdict \/ outcome' = "failed" \/ (pc' = pc /\ outcome' = outcome)
      BY <2>2 DEF JudgedInv
    <2>4. CouncilAhead' => CouncilAhead
      BY <2>1, <2>2, AheadKeep DEF Unproduced, Before
    <2> QED  BY <2>1, <2>2, <2>3, <2>4, JudgedKeep DEF Before, JudgedInv
  <1> QED
    BY <1>1, <1>2, <1>3, <1>4, <1>5, <1>6, <1>7, <1>8, <1>9, <1>10, <1>11, <1>12, <1>13,
       <1>14, <1>15, <1>16, <1>17, <1>18, <1>19, Steps

-----------------------------------------------------------------------------
(* What stops a run. *)

LEMMA StopInit == Init => StopInv
  BY DEF Init, StopInv, Unproduced, Before, Produced

LEMMA StopNext == ASSUME StepInv, StepInv', StopInv, [Next]_vars PROVE StopInv'
  <1>1. CASE Classify
    <2>1. /\ metered' = metered /\ spent' = spent /\ verdict' = verdict
          /\ readiness' = readiness /\ (Stage' = Stage \/ pc \in Before)
      BY <1>1 DEF Classify, inputs, roster, judged, money, vars, Stage, Before
    <2>2. pc = "gate" /\ pc' \in {"open", "queued", "held"}
      BY <1>1 DEF Classify, Goto
    <2> QED  BY <2>1, <2>2 DEF StopInv, Affordable, Before, Unproduced, Produced
  <1>2. CASE Approve \/ WorkerDrives
    <2>1. /\ metered' = metered /\ spent' = spent /\ verdict' = verdict
          /\ readiness' = readiness /\ (Stage' = Stage \/ pc \in Before)
      BY <1>2 DEF Approve, WorkerDrives, inputs, roster, judged, money, vars, Stage, Before
    <2>2. pc \in {"held", "queued"} /\ pc' = "open"
      BY <1>2 DEF Approve, WorkerDrives, Goto
    <2> QED  BY <2>1, <2>2 DEF StopInv, Affordable, Before, Unproduced, Produced
  <1>3. CASE OtherRunSeeds
    <2>1. /\ metered' = metered /\ spent' = spent /\ verdict' = verdict
          /\ readiness' = readiness /\ (Stage' = Stage \/ pc \in Before)
      BY <1>3 DEF OtherRunSeeds, inputs, roster, judged, money, vars, Stage, Before
    <2>2. pc' = pc /\ pc \in Before
      BY <1>3 DEF OtherRunSeeds, Before
    <2> QED  BY <2>1, <2>2 DEF StopInv, Affordable, Before, Unproduced, Produced
  <1>4. CASE Open
    <2>1. verdict' = verdict /\ readiness' = readiness /\ pc = "open" /\ pc' = "check"
      BY <1>4 DEF Open, judged, Goto
    <2> QED  BY <2>1 DEF StopInv, Before, Unproduced, Produced
  <1>5. CASE Check
    <2>1. /\ metered' = metered /\ spent' = spent /\ verdict' = verdict
          /\ readiness' = readiness /\ (Stage' = Stage \/ pc \in Before)
      BY <1>5 DEF Check, inputs, roster, judged, money, vars, Stage, Before
    <2>2. /\ pc = "check"
          /\ pc' \in {"finish", "charge"} \/ (pc' = "stage" /\ (~metered \/ Affordable))
      BY <1>5 DEF Check, Goto, End
    <2> QED  BY <2>1, <2>2 DEF StopInv, Affordable, Before, Unproduced, Produced
  <1>6. CASE OfferExtension
    <2>1. /\ metered' = metered /\ spent' = spent /\ verdict' = verdict
          /\ readiness' = readiness /\ (Stage' = Stage \/ pc \in Before)
      BY <1>6 DEF OfferExtension, inputs, roster, judged, money, vars, Stage, Before
    <2>2. pc = "stage" /\ pc' = "persist"
      BY <1>6 DEF OfferExtension, Goto
    <2> QED  BY <2>1, <2>2 DEF StopInv, Affordable, Before, Unproduced, Produced
  <1>7. CASE DispatchCouncil
    <2>1. /\ metered' = metered /\ spent' = spent /\ verdict' = verdict
          /\ readiness' = readiness /\ (Stage' = Stage \/ pc \in Before)
      BY <1>7 DEF DispatchCouncil, inputs, roster, judged, money, vars, Stage, Before
    <2>2. pc = "stage" /\ pc' = "council"
      BY <1>7 DEF DispatchCouncil, Goto
    <2> QED  BY <2>1, <2>2 DEF StopInv, Affordable, Before, Unproduced, Produced
  <1>8. CASE \E role \in CouncilRoles, finding \in Finding, price \in Prices :
                MemberAnswers(role, finding, price)
    <2>1. /\ metered' = metered /\ spent' = spent /\ verdict' = verdict
          /\ readiness' = readiness /\ (Stage' = Stage \/ pc \in Before)
      BY <1>8 DEF MemberAnswers, inputs, roster, judged, money, vars, Stage, Before
    <2>2. pc = "council" /\ pc' = "council"
      BY <1>8 DEF MemberAnswers, Goto
    <2> QED  BY <2>1, <2>2 DEF StopInv, Affordable, Before, Unproduced, Produced
  <1>9. CASE Synthesize
    <2>1. readiness' = readiness /\ Stage' = Stage /\ pc = "council" /\ pc' = "persist"
      BY <1>9 DEF Synthesize, roster, Goto, Stage
    <2>2. Stage.kind = "council"  BY <2>1 DEF StepInv
    <2>3. readiness # "Not-Ready" /\ readiness \in IntakeVerdicts \cup {"none"}
      BY <2>1 DEF StopInv, Unproduced
    <2>4. Stage.kind' = "council"  BY <2>1, <2>2
    <2> QED  BY <2>1, <2>3, <2>4 DEF StopInv, Before, Unproduced, Produced
  <1>10. CASE \E price \in Prices, intake \in IntakeVerdicts : PersonaAnswers(price, intake)
    <2>1. PICK price \in Prices, intake \in IntakeVerdicts : PersonaAnswers(price, intake)
      BY <1>10
    <2>2. /\ verdict' = verdict /\ Stage' = Stage /\ pc = "stage" /\ pc' = "persist"
          /\ Stage.kind = "persona"
          /\ readiness' = IF Stage.role = "intake-validator" THEN intake ELSE readiness
      BY <2>1 DEF PersonaAnswers, roster, Goto, Stage
    <2>3. verdict # "Stop" /\ readiness # "Not-Ready" /\ readiness \in IntakeVerdicts \cup {"none"}
      BY <2>2 DEF StopInv, Unproduced
    <2>4. Stage.kind' = "persona" /\ Stage.role' = Stage.role  BY <2>2
    <2> QED  BY <2>2, <2>3, <2>4 DEF StopInv, Before, Unproduced, Produced
  <1>11. CASE BackendFails
    <2>1. /\ metered' = metered /\ spent' = spent /\ verdict' = verdict
          /\ readiness' = readiness /\ (Stage' = Stage \/ pc \in Before)
      BY <1>11 DEF BackendFails, inputs, roster, judged, money, vars, Stage, Before
    <2>2. pc' = "ended"
      BY <1>11 DEF BackendFails, Goto
    <2> QED  BY <2>1, <2>2 DEF StopInv, Affordable, Before, Unproduced, Produced
  <1>12. CASE PersistStage
    <2>1. /\ metered' = metered /\ spent' = spent /\ verdict' = verdict
          /\ readiness' = readiness /\ (Stage' = Stage \/ pc \in Before)
      BY <1>12 DEF PersistStage, inputs, roster, judged, money, vars, Stage, Before
    <2>2. pc = "persist" /\ pc' \in {"verdict", "decide"}
      BY <1>12 DEF PersistStage, Goto
    <2> QED  BY <2>1, <2>2 DEF StopInv, Affordable, Before, Unproduced, Produced
  <1>13. CASE PersistVerdict
    <2>1. /\ metered' = metered /\ spent' = spent /\ verdict' = verdict
          /\ readiness' = readiness /\ (Stage' = Stage \/ pc \in Before)
      BY <1>13 DEF PersistVerdict, inputs, roster, judged, money, vars, Stage, Before
    <2>2. pc = "verdict" /\ pc' = "decide"
      BY <1>13 DEF PersistVerdict, Goto
    <2> QED  BY <2>1, <2>2 DEF StopInv, Affordable, Before, Unproduced, Produced
  <1>14. CASE PersistFails
    <2>1. /\ metered' = metered /\ spent' = spent /\ verdict' = verdict
          /\ readiness' = readiness /\ (Stage' = Stage \/ pc \in Before)
      BY <1>14 DEF PersistFails, inputs, roster, judged, money, vars, Stage, Before
    <2>2. pc' = "ended"
      BY <1>14 DEF PersistFails, Goto
    <2> QED  BY <2>1, <2>2 DEF StopInv, Affordable, Before, Unproduced, Produced
  <1>15. CASE Decide
    <2>1. /\ verdict' = verdict /\ readiness' = readiness /\ pc = "decide"
          /\ \/ pc' = "charge"
             \/ pc' \in {"paused", "check"} /\ ~Halts
      BY <1>15 DEF Decide, judged, Goto, End
    <2>2. ~Halts => verdict # "Stop" /\ readiness # "Not-Ready"
      BY <2>1 DEF StopInv, Halts, Produced
    <2> QED  BY <2>1, <2>2 DEF StopInv, Before, Unproduced, Produced
  <1>16. CASE Resume
    <2>1. /\ metered' = metered /\ spent' = spent /\ verdict' = verdict
          /\ readiness' = readiness /\ (Stage' = Stage \/ pc \in Before)
      BY <1>16 DEF Resume, inputs, roster, judged, money, vars, Stage, Before
    <2>2. pc = "paused" /\ pc' = "check"
      BY <1>16 DEF Resume, Goto
    <2> QED  BY <2>1, <2>2 DEF StopInv, Affordable, Before, Unproduced, Produced
  <1>17. CASE Finish
    <2>1. /\ metered' = metered /\ spent' = spent /\ verdict' = verdict
          /\ readiness' = readiness /\ (Stage' = Stage \/ pc \in Before)
      BY <1>17 DEF Finish, inputs, roster, judged, money, vars, Stage, Before
    <2>2. pc = "finish" /\ pc' = "charge"
      BY <1>17 DEF Finish, Goto, End
    <2> QED  BY <2>1, <2>2 DEF StopInv, Affordable, Before, Unproduced, Produced
  <1>18. CASE Charge
    <2>1. /\ metered' = metered /\ spent' = spent /\ verdict' = verdict
          /\ readiness' = readiness /\ (Stage' = Stage \/ pc \in Before)
      BY <1>18 DEF Charge, inputs, roster, judged, money, vars, Stage, Before
    <2>2. pc = "charge" /\ pc' = "ended"
      BY <1>18 DEF Charge, Goto
    <2> QED  BY <2>1, <2>2 DEF StopInv, Affordable, Before, Unproduced, Produced
  <1>19. CASE UNCHANGED vars
    <2>1. /\ metered' = metered /\ spent' = spent /\ verdict' = verdict
          /\ readiness' = readiness /\ (Stage' = Stage \/ pc \in Before)
      BY <1>19 DEF vars, inputs, roster, judged, money, vars, Stage, Before
    <2>2. pc' = pc
      BY <1>19 DEF vars, Goto
    <2> QED  BY <2>1, <2>2 DEF StopInv, Affordable, Before, Unproduced, Produced
  <1> QED
    BY <1>1, <1>2, <1>3, <1>4, <1>5, <1>6, <1>7, <1>8, <1>9, <1>10, <1>11, <1>12, <1>13,
       <1>14, <1>15, <1>16, <1>17, <1>18, <1>19, Steps

-----------------------------------------------------------------------------
(* The money. *)

LEMMA PriceType == ASSUME NEW ops, OpinionsFit(ops), NEW role PROVE Price(ops, role) \in Nat
  <1> DEFINE own == {o \in ops : o.agent = role}
  <1>1. CASE own = {}  BY <1>1 DEF Price
  <1>2. CASE own # {}
    <2>1. Price(ops, role) = (CHOOSE o \in own : TRUE).price  BY <1>2 DEF Price
    <2>2. (CHOOSE o \in own : TRUE) \in own
      <3> HIDE DEF own
      <3>1. \E o \in own : TRUE  BY <1>2
      <3> QED  BY <3>1
    <2>3. (CHOOSE o \in own : TRUE) \in Opinions  BY <2>2 DEF OpinionsFit
    <2> HIDE DEF own
    <2>4. (CHOOSE o \in own : TRUE).price \in Prices  BY <2>3 DEF Opinions
    <2> QED  BY <2>1, <2>4, CostAssumption
  <1> QED  BY <1>1, <1>2

\* What the members have cost, as a sequence.
Costs(ops) == [i \in DOMAIN Stage.members |-> Price(ops, Stage.members[i])]

LEMMA CostsType ==
    ASSUME NEW ops, OpinionsFit(ops), Stage \in Stages
    PROVE  /\ Costs(ops) \in Seq(Nat) /\ Len(Costs(ops)) = Len(Stage.members)
           /\ \A i \in 1..Len(Stage.members) : Costs(ops)[i] = Price(ops, Stage.members[i])
           /\ Total(ops) = SumOf(Costs(ops)) /\ Total(ops) \in Nat
  <1>1. Stage.members \in Seq(CouncilRoles)  BY DEF Stages
  <1>2. DOMAIN Stage.members = 1..Len(Stage.members) /\ Len(Stage.members) \in Nat  BY <1>1
  <1>3. \A i \in 1..Len(Stage.members) : Price(ops, Stage.members[i]) \in Nat  BY PriceType
  <1>4. Costs(ops) \in Seq(Nat) /\ Len(Costs(ops)) = Len(Stage.members)
    BY <1>2, <1>3 DEF Costs
  <1>5. \A i \in 1..Len(Stage.members) : Costs(ops)[i] = Price(ops, Stage.members[i])
    BY <1>2 DEF Costs
  <1>6. Total(ops) = SumOf(Costs(ops))  BY DEF Total, Costs
  <1>7. Total(ops) \in Nat  BY <1>4, <1>6, SumType
  <1> QED  BY <1>4, <1>5, <1>6, <1>7

\* Nobody has answered, nothing is owed.
LEMMA TotalOfNone == ASSUME Stage \in Stages PROVE Total({}) = 0
  <1>1. OpinionsFit({})  BY FS_EmptySet DEF OpinionsFit
  <1>2. \A role : Price({}, role) = 0  BY DEF Price
  <1>3. \A i \in 1..Len(Costs({})) : Costs({})[i] = 0  BY <1>1, <1>2, CostsType
  <1>4. Costs({}) \in Seq(Nat) /\ Total({}) = SumOf(Costs({}))  BY <1>1, CostsType
  <1> QED  BY <1>3, <1>4, SumOfZeros

\* A member more has answered: what it cost is owed in addition.
LEMMA TotalGrows ==
    ASSUME NEW ops, NEW new, OpinionsFit(ops), OpinionsFit(ops \cup {new}), Stage \in Stages,
           Distinct(Stage.members), Contains(Stage.members, new.agent),
           \A o \in ops : o.agent # new.agent
    PROVE  Total(ops \cup {new}) = Total(ops) + new.price
  <1> DEFINE more == ops \cup {new}
             s == Costs(ops)
             t == Costs(more)
             n == Len(Stage.members)
  <1>1. PICK k \in 1..n : Stage.members[k] = new.agent  BY DEF Contains
  <1>2. /\ s \in Seq(Nat) /\ Len(s) = n /\ Total(ops) = SumOf(s)
        /\ \A i \in 1..n : s[i] = Price(ops, Stage.members[i])
    BY CostsType
  <1>3. /\ t \in Seq(Nat) /\ Len(t) = n /\ Total(more) = SumOf(t)
        /\ \A i \in 1..n : t[i] = Price(more, Stage.members[i])
    BY CostsType
  <1>4. Price(ops, new.agent) = 0
    <2>1. {o \in ops : o.agent = new.agent} = {}  OBVIOUS
    <2> QED  BY <2>1 DEF Price
  <1>5. Price(more, new.agent) = new.price
    <2>1. {o \in more : o.agent = new.agent} = {new}  OBVIOUS
    <2>2. (CHOOSE o \in {new} : TRUE) = new  OBVIOUS
    <2> QED  BY <2>1, <2>2 DEF Price
  <1>6. ASSUME NEW role, role # new.agent PROVE Price(more, role) = Price(ops, role)
    <2> DEFINE A == {o \in more : o.agent = role}
               B == {o \in ops : o.agent = role}
    <2>1. A = B  BY <1>6
    <2>2. Price(more, role) = IF A = {} THEN 0 ELSE (CHOOSE o \in A : TRUE).price  BY DEF Price
    <2>3. Price(ops, role) = IF B = {} THEN 0 ELSE (CHOOSE o \in B : TRUE).price  BY DEF Price
    <2> HIDE DEF A, B
    <2> QED  BY <2>1, <2>2, <2>3
  <1>7. new.price \in Nat  BY CostAssumption DEF OpinionsFit, Opinions
  <1>8. t[k] = s[k] + new.price
    <2>1. t[k] = new.price /\ s[k] = 0  BY <1>1, <1>2, <1>3, <1>4, <1>5
    <2> QED  BY <1>7, <2>1
  <1>9. \A i \in 1..n : i # k => t[i] = s[i]
    <2> SUFFICES ASSUME NEW i \in 1..n, i # k PROVE t[i] = s[i]  OBVIOUS
    <2>1. Stage.members[i] # new.agent  BY <1>1 DEF Distinct
    <2> QED  BY <1>2, <1>3, <1>6, <2>1
  <1> HIDE DEF s, t, n
  <1>10. SumOf(t) = SumOf(s) + new.price
    <2> DEFINE d == new.price
    <2>1. /\ s \in Seq(Nat) /\ t \in Seq(Nat) /\ Len(t) = Len(s) /\ k \in 1..Len(s)
          /\ d \in Nat /\ t[k] = s[k] + d /\ \A i \in 1..Len(s) : i # k => t[i] = s[i]
      BY <1>1, <1>2, <1>3, <1>7, <1>8, <1>9
    <2> HIDE DEF d
    <2>2. SumOf(t) = SumOf(s) + d  BY <2>1, SumGrows
    <2> QED  BY <2>2 DEF d
  <1> QED  BY <1>2, <1>3, <1>10

LEMMA MoneyInit == Init => MoneyInv
  BY DEF Init, MoneyInv

\* A step that costs nothing.
LEMMA MoneyKeep ==
    ASSUME MoneyInv, UNCHANGED <<spent, consumed>>, usage' \in Nat, charged' \in Nat,
           \/ pc # "council" /\ outcome # "failed" /\ pc' # "council"
           \/ outcome' = "failed" /\ pc' # "council"
           \/ UNCHANGED <<pc, outcome, opinions, plan, next>>
    PROVE  MoneyInv'
  <1>1. CASE UNCHANGED <<pc, outcome, opinions, plan, next>>
    <2>1. Total(opinions)' = Total(opinions)  BY <1>1 DEF Total, Stage
    <2> QED  BY <1>1, <2>1 DEF MoneyInv
  <1>2. CASE (pc # "council" /\ outcome # "failed" /\ pc' # "council")
             \/ (outcome' = "failed" /\ pc' # "council")
    BY <1>2 DEF MoneyInv
  <1> QED  BY <1>1, <1>2

LEMMA MoneyNext == ASSUME StepInv, JudgedInv, MoneyInv, [Next]_vars PROVE MoneyInv'
  <1>t. spent \in Nat /\ consumed \in Nat /\ usage \in Nat /\ charged \in Nat  BY DEF MoneyInv
  <1>o. OpinionsFit(opinions)  BY DEF JudgedInv
  <1>1. CASE Classify
    <2>1. UNCHANGED <<spent, consumed, usage>> /\ charged' \in Nat
      BY <1>t, <1>1 DEF Classify, money, vars
    <2>2. pc # "council" /\ outcome # "failed" /\ pc' # "council"
      BY <1>1 DEF Classify, StepInv, Goto
    <2> QED  BY <1>t, <2>1, <2>2, MoneyKeep
  <1>2. CASE Approve \/ WorkerDrives
    <2>1. UNCHANGED <<spent, consumed, usage>> /\ charged' \in Nat
      BY <1>t, <1>2 DEF Approve, WorkerDrives, money, vars
    <2>2. pc # "council" /\ outcome # "failed" /\ pc' # "council"
      BY <1>2 DEF Approve, WorkerDrives, StepInv, Goto
    <2> QED  BY <1>t, <2>1, <2>2, MoneyKeep
  <1>3. CASE OtherRunSeeds
    <2>1. UNCHANGED <<spent, consumed, usage>> /\ charged' \in Nat
      BY <1>t, <1>3 DEF OtherRunSeeds, money, vars
    <2>2. pc # "council" /\ outcome # "failed" /\ pc' # "council"
      BY <1>3 DEF OtherRunSeeds, StepInv
    <2> QED  BY <1>t, <2>1, <2>2, MoneyKeep
  <1>4. CASE Open
    <2>1. UNCHANGED <<spent, consumed, usage>> /\ charged' \in Nat
      BY <1>t, <1>4 DEF Open, money, vars
    <2>2. pc # "council" /\ outcome # "failed" /\ pc' # "council"
      BY <1>4 DEF Open, StepInv, Goto
    <2> QED  BY <1>t, <2>1, <2>2, MoneyKeep
  <1>5. CASE Check
    <2>1. UNCHANGED <<spent, consumed, usage>> /\ charged' \in Nat
      BY <1>t, <1>5 DEF Check, money, vars
    <2>2. pc # "council" /\ outcome # "failed" /\ pc' # "council"
      BY <1>5 DEF Check, StepInv, Goto, End
    <2> QED  BY <1>t, <2>1, <2>2, MoneyKeep
  <1>6. CASE OfferExtension
    <2>1. UNCHANGED <<spent, consumed, usage>> /\ charged' \in Nat
      BY <1>t, <1>6 DEF OfferExtension, money, vars
    <2>2. pc # "council" /\ outcome # "failed" /\ pc' # "council"
      BY <1>6 DEF OfferExtension, StepInv, Goto
    <2> QED  BY <1>t, <2>1, <2>2, MoneyKeep
  <1>7. CASE DispatchCouncil
    <2>1. /\ UNCHANGED <<spent, consumed, usage, charged>> /\ opinions' = {}
          /\ Stage' = Stage /\ pc = "stage" /\ pc' = "council" /\ outcome = "none"
      BY <1>7 DEF DispatchCouncil, money, roster, Goto, Stage, StepInv
    <2>2. Stage \in Stages  BY <2>1, StageFits DEF StepInv
    <2>3. Total(opinions)' = Total({})  BY <2>1 DEF Total
    <2>4. Total({}) = 0  BY <2>2, TotalOfNone
    <2>5. consumed = spent  BY <2>1 DEF MoneyInv
    <2> QED  BY <1>t, <2>1, <2>3, <2>4, <2>5 DEF MoneyInv
  <1>8. CASE \E role \in CouncilRoles, finding \in Finding, price \in Prices :
                MemberAnswers(role, finding, price)
    <2>1. PICK role \in CouncilRoles, finding \in Finding, price \in Prices :
              MemberAnswers(role, finding, price)
      BY <1>8
    <2> DEFINE new == [agent |-> role, verdict |-> ParseMemberVerdict(finding),
                       conditions |-> finding.conditions, price |-> price]
    <2>2. /\ UNCHANGED <<spent, usage, charged>> /\ consumed' = consumed + price
          /\ opinions' = opinions \cup {new} /\ Stage' = Stage
          /\ Contains(Stage.members, role) /\ \A o \in opinions : o.agent # role
          /\ pc = "council" /\ pc' = "council" /\ outcome' = "none"
      BY <2>1 DEF MemberAnswers, roster, Stage, StepInv
    <2>3. Stage \in Stages /\ CouncilFits(plan, next, req.words, cast)
      BY <2>2, StageFits DEF StepInv
    <2>4. Distinct(Stage.members)  BY <2>3 DEF CouncilFits, Stage
    <2>5. new \in Opinions /\ new.agent = role /\ new.price = price /\ price \in Nat
          /\ (new.conditions # {} => new.verdict # "Go")
      BY ParsedVerdict, CostAssumption DEF Opinions
    <2> HIDE DEF new
    <2>6. OpinionsFit(opinions \cup {new})
      <3>1. IsFiniteSet(opinions \cup {new})  BY <1>o, FS_AddElement DEF OpinionsFit
      <3> QED  BY <1>o, <2>2, <2>5, <3>1 DEF OpinionsFit
    <2>7. Total(opinions \cup {new}) = Total(opinions) + price
      BY <1>o, <2>2, <2>3, <2>4, <2>5, <2>6, TotalGrows
    <2>8. Total(opinions)' = Total(opinions \cup {new})  BY <2>2 DEF Total
    <2>9. consumed = spent + Total(opinions)  BY <2>2 DEF MoneyInv
    <2>10. Total(opinions) \in Nat  BY <1>o, <2>3, CostsType
    <2>11. consumed' = spent' + Total(opinions)' /\ consumed' \in Nat
      BY <1>t, <2>2, <2>5, <2>7, <2>8, <2>9, <2>10
    <2> QED  BY <1>t, <2>2, <2>11 DEF MoneyInv
  <1>9. CASE Synthesize
    <2>1. /\ UNCHANGED <<consumed, charged>> /\ pc = "council" /\ pc' = "persist"
          /\ spent' = spent + Total(opinions) /\ usage' = usage + Price(opinions, LastMember)
      BY <1>9 DEF Synthesize, RecordCouncilUsage, LastUsage, Goto
    <2>2. Stage \in Stages  BY <2>1, StageFits DEF StepInv
    <2>3. Total(opinions) \in Nat /\ Price(opinions, LastMember) \in Nat
      BY <1>o, <2>2, CostsType, PriceType
    <2>4. consumed = spent + Total(opinions)  BY <2>1 DEF MoneyInv
    <2> QED  BY <1>t, <2>1, <2>3, <2>4 DEF MoneyInv
  <1>10. CASE \E price \in Prices, intake \in IntakeVerdicts : PersonaAnswers(price, intake)
    <2>1. PICK price \in Prices, intake \in IntakeVerdicts : PersonaAnswers(price, intake)
      BY <1>10
    <2>2. /\ consumed' = consumed + price /\ spent' = spent + price /\ usage' = usage + price
          /\ charged' = charged /\ pc = "stage" /\ pc' = "persist" /\ outcome = "none"
      BY <2>1 DEF PersonaAnswers, Goto, StepInv
    <2>3. price \in Nat /\ consumed = spent  BY <2>2, CostAssumption DEF MoneyInv
    <2> QED  BY <1>t, <2>2, <2>3 DEF MoneyInv
  <1>11. CASE BackendFails
    <2>1. UNCHANGED <<spent, consumed, usage>> /\ charged' \in Nat
      BY <1>t, <1>11 DEF BackendFails, money, vars
    <2>2. outcome' = "failed" /\ pc' # "council"
      BY <1>11 DEF BackendFails, StepInv
    <2> QED  BY <1>t, <2>1, <2>2, MoneyKeep
  <1>12. CASE PersistStage
    <2>1. UNCHANGED <<spent, consumed, usage>> /\ charged' \in Nat
      BY <1>t, <1>12 DEF PersistStage, money, vars
    <2>2. pc # "council" /\ outcome # "failed" /\ pc' # "council"
      BY <1>12 DEF PersistStage, StepInv, Goto
    <2> QED  BY <1>t, <2>1, <2>2, MoneyKeep
  <1>13. CASE PersistVerdict
    <2>1. UNCHANGED <<spent, consumed, usage>> /\ charged' \in Nat
      BY <1>t, <1>13 DEF PersistVerdict, money, vars
    <2>2. pc # "council" /\ outcome # "failed" /\ pc' # "council"
      BY <1>13 DEF PersistVerdict, StepInv, Goto
    <2> QED  BY <1>t, <2>1, <2>2, MoneyKeep
  <1>14. CASE PersistFails
    <2>1. UNCHANGED <<spent, consumed, usage>> /\ charged' \in Nat
      BY <1>t, <1>14 DEF PersistFails, money, vars
    <2>2. outcome' = "failed" /\ pc' # "council"
      BY <1>14 DEF PersistFails, StepInv
    <2> QED  BY <1>t, <2>1, <2>2, MoneyKeep
  <1>15. CASE Decide
    <2>1. UNCHANGED <<spent, consumed, usage>> /\ charged' \in Nat
      BY <1>t, <1>15 DEF Decide, money, vars
    <2>2. pc # "council" /\ outcome # "failed" /\ pc' # "council"
      BY <1>15 DEF Decide, StepInv, Goto, End
    <2> QED  BY <1>t, <2>1, <2>2, MoneyKeep
  <1>16. CASE Resume
    <2>1. UNCHANGED <<spent, consumed, usage>> /\ charged' \in Nat
      BY <1>t, <1>16 DEF Resume, money, vars
    <2>2. pc # "council" /\ outcome # "failed" /\ pc' # "council"
      BY <1>16 DEF Resume, StepInv, Goto
    <2> QED  BY <1>t, <2>1, <2>2, MoneyKeep
  <1>17. CASE Finish
    <2>1. UNCHANGED <<spent, consumed, usage>> /\ charged' \in Nat
      BY <1>t, <1>17 DEF Finish, money, vars
    <2>2. pc # "council" /\ outcome # "failed" /\ pc' # "council"
      BY <1>17 DEF Finish, StepInv, End
    <2> QED  BY <1>t, <2>1, <2>2, MoneyKeep
  <1>18. CASE Charge
    <2>1. UNCHANGED <<spent, consumed, usage>> /\ charged' \in Nat
      BY <1>t, <1>18 DEF Charge, money, vars
    <2>2. pc # "council" /\ outcome # "failed" /\ pc' # "council"
      BY <1>18 DEF Charge, StepInv, Success
    <2> QED  BY <1>t, <2>1, <2>2, MoneyKeep
  <1>19. CASE UNCHANGED vars
    <2>1. UNCHANGED <<spent, consumed, usage>> /\ charged' \in Nat
      BY <1>t, <1>19 DEF vars, money, vars
    <2>2. UNCHANGED <<pc, outcome, opinions, plan, next>>
      BY <1>19 DEF vars, StepInv, judged, roster
    <2> QED  BY <1>t, <2>1, <2>2, MoneyKeep
  <1> QED
    BY <1>1, <1>2, <1>3, <1>4, <1>5, <1>6, <1>7, <1>8, <1>9, <1>10, <1>11, <1>12, <1>13,
       <1>14, <1>15, <1>16, <1>17, <1>18, <1>19, Steps
-----------------------------------------------------------------------------
(* The gate. *)

LEMMA GateInit == Init => GateInv
  BY DEF Init, GateInv

\* A step beyond the gate that leaves the approval and the roster alone.
LEMMA GateKeep ==
    ASSUME GateInv, UNCHANGED <<driver, tool, approved, profile>>,
           pc \notin {"gate", "held", "queued"} \/ pc' = pc
    PROVE  GateInv'
  BY DEF GateInv

LEMMA GateNext == ASSUME StepInv, GateInv, [Next]_vars PROVE GateInv'
  <1>1. CASE Classify
    <2>1. /\ UNCHANGED <<driver, tool, approved, profile>>
          /\ Gated(tool) => \/ pc' = "queued" /\ IsAdvisoryOnly(profile)
                            \/ pc' = "held"
      BY <1>1 DEF Classify, Goto, Proceeds, inputs, roster
    <2> QED  BY <2>1 DEF GateInv
  <1>2. CASE Approve \/ WorkerDrives
    <2>1. CASE Approve
      BY <2>1 DEF Approve, inputs, GateInv
    <2>2. CASE WorkerDrives
      BY <2>2 DEF WorkerDrives, inputs, roster, GateInv
    <2> QED  BY <1>2, <2>1, <2>2
  <1>3. CASE OtherRunSeeds
    BY <1>3, GateKeep DEF OtherRunSeeds, inputs
  <1>4. CASE Open
    <2>1. UNCHANGED <<driver, tool, approved>> /\ pc = "open"  BY <1>4 DEF Open, inputs
    <2>2. Gated(tool) /\ driver = "worker" => profile' = profile
      BY <1>4 DEF Open, Recorded
    <2> QED  BY <2>1, <2>2 DEF GateInv
  <1>5. CASE \/ Check \/ OfferExtension \/ DispatchCouncil \/ Synthesize
             \/ \E role \in CouncilRoles, finding \in Finding, price \in Prices :
                    MemberAnswers(role, finding, price)
             \/ \E price \in Prices, intake \in IntakeVerdicts : PersonaAnswers(price, intake)
    BY <1>5, GateKeep DEF Check, OfferExtension, DispatchCouncil, Synthesize, MemberAnswers,
       PersonaAnswers, inputs, roster
  <1>6. CASE \/ BackendFails \/ PersistStage \/ PersistVerdict \/ PersistFails \/ Decide
             \/ Resume \/ Finish \/ Charge \/ UNCHANGED vars
    BY <1>6, GateKeep DEF BackendFails, PersistStage, PersistVerdict, PersistFails, Decide,
       Resume, Finish, Charge, vars, inputs, roster
  <1> QED  BY <1>1, <1>2, <1>3, <1>4, <1>5, <1>6, Steps
-----------------------------------------------------------------------------
(* The theorems. *)

PipeInv == StepInv /\ SectionsInv /\ JudgedInv /\ StopInv /\ GateInv /\ MoneyInv

LEMMA PipeInductive == Spec => []PipeInv
  <1>1. Init => PipeInv
    BY StepInit, SectionsInit, JudgedInit, StopInit, GateInit, MoneyInit DEF PipeInv
  <1>2. PipeInv /\ [Next]_vars => PipeInv'
    BY StepNext, SectionsNext, JudgedNext, StopNext, GateNext, MoneyNext DEF PipeInv
  <1> QED  BY <1>1, <1>2, PTL DEF Spec

\* Every variable of a run of runAdvisoryPipeline keeps its type, whatever
\* plan its request, its roster and its cast lead to.
THEOREM PipelineTypeCorrect == Spec => []TypeOK
  <1>1. PipeInv => TypeOK
    <2> SUFFICES ASSUME StepInv, SectionsInv, JudgedInv, StopInv, GateInv, MoneyInv
                 PROVE  TypeOK
      BY DEF PipeInv
    <2>1. plan \in Seq(Stages) /\ Len(plan) \in Nat /\ DOMAIN plan = 1..Len(plan)
      BY PlanLength
    <2>2. \A i \in DOMAIN plan : plan[i].kind \in {"persona", "council", "extension"}
      <3> SUFFICES ASSUME NEW i \in 1..Len(plan)
                   PROVE  plan[i].kind \in {"persona", "council", "extension"}
        BY <2>1
      <3>1. plan[i] \in Stages  BY <2>1, ElementOfSeq
      <3> QED  BY <3>1 DEF Stages
    <2>3. ToSet(sections) \cup ToSet(persisted) \subseteq DOMAIN plan
      <3>1. PICK n \in Nat, m \in Nat : Lengths(n, m)  BY DEF SectionsInv
      <3>2. ToSet(sections) \subseteq 1..n /\ ToSet(persisted) \subseteq 1..m
            /\ n <= Len(plan) /\ m <= n
        BY <3>1, UptoFacts DEF Lengths
      <3>3. 1..n \subseteq 1..Len(plan) /\ 1..m \subseteq 1..Len(plan)  BY <2>1, <3>2
      <3> QED  BY <2>1, <3>2, <3>3
    <2>4. \A o \in opinions : o.verdict \in VerdictClass /\ o.conditions \subseteq Conditions
      BY DEF JudgedInv, OpinionsFit, Opinions
    <2>5. /\ {verdict, stored} \subseteq VerdictClass \cup {"none"}
          /\ readiness \in IntakeVerdicts \cup {"none"}
          /\ prior \in 0..Len(plan)
          /\ {spent, consumed, usage, charged} \subseteq Nat
      BY DEF JudgedInv, StopInv, SectionsInv, HandedOn, MoneyInv
    <2>6. outcome \in Outcome  BY DEF StepInv, Outcome, Success
    <2>7. /\ req \in Requests /\ tool \in Tools /\ cast \in Casts
          /\ driveMode \in RawModes /\ {metered, finalHold, approved} \subseteq BOOLEAN
          /\ team \in ProfileNames \cup {NoProfile} /\ profile \in ProfileNames
          /\ driver \in {"replica", "worker"}
          /\ pc \in PC /\ next \in 1..(Len(plan) + 1)
      BY DEF StepInv, GateInv
    <2> QED  BY <2>2, <2>3, <2>4, <2>5, <2>6, <2>7 DEF TypeOK
  <1> QED  BY <1>1, PipeInductive, PTL

\* synthesizeVerdict and aggregateConditions: the verdict is the most
\* restrictive of the opinions on every lens the request touches whose agent
\* is deployed, no condition is lost, and the record of a finished run has it.
THEOREM VerdictsAreMostRestrictive == Spec => []VerdictMostRestrictive
  <1>1. PipeInv => VerdictMostRestrictive
    <2> SUFFICES ASSUME StepInv, JudgedInv PROVE VerdictMostRestrictive  BY DEF PipeInv
    <2>1. verdict # "none" => Judged  BY DEF JudgedInv
    <2>2. outcome \in {"completed", "held", "halted"} => stored = verdict
      BY DEF JudgedInv, StepInv
    <2> QED  BY <2>1, <2>2 DEF VerdictMostRestrictive, Judged, Agents, Seats
  <1> QED  BY <1>1, PipeInductive, PTL

\* The loop of runAdvisoryPipeline and recordStage: the sections produced and
\* those persisted follow the plan, nothing produced is missing from the record
\* of a run that ends without a failure, and the council judges the plan stage.
THEOREM SectionsAreThePlan == Spec => []SectionsFollowPlan
  <1>1. PipeInv => SectionsFollowPlan
    <2> SUFFICES ASSUME StepInv, SectionsInv PROVE SectionsFollowPlan  BY DEF PipeInv
    <2>1. PICK n \in Nat, m \in Nat : Lengths(n, m)  BY DEF SectionsInv
    <2>2. sections = Upto(n) /\ persisted = Upto(m) /\ m \in 0..n  BY <2>1 DEF Lengths
    <2>3. Len(sections) = n  BY <2>2, UptoFacts
    <2>4. sections = [i \in 1..Len(sections) |-> i]  BY <2>2, <2>3 DEF Upto
    <2>5. IsPrefix(persisted, sections)  BY <2>2, UptoFacts
    <2>6. outcome \in {"completed", "held", "halted"} => persisted = sections
      BY <2>1, <2>2 DEF Lengths, Success
    <2>7. outcome = "completed" => Len(sections) = Len(plan)  BY <2>1, <2>3 DEF Lengths
    <2>8. ASSUME pc = "council", Resolves(AgentName("lead"), cast) PROVE plan[prior].role = "lead"
      <3>1. next <= Len(plan) /\ Stage.kind = "council"  BY <2>8 DEF StepInv
      <3>2. CouncilFits(plan, next, req.words, cast)  BY <3>1, StageFits
      <3>3. next > 1 /\ plan[next - 1].kind = "persona" /\ plan[next - 1].role = "lead"
        BY <2>8, <3>2 DEF CouncilFits
      <3>4. prior = next - 1  BY <2>8, <3>3 DEF SectionsInv, HandedOn, Unproduced
      <3> QED  BY <3>3, <3>4
    <2> QED  BY <2>4, <2>5, <2>6, <2>7, <2>8 DEF SectionsFollowPlan
  <1> QED  BY <1>1, PipeInductive, PTL

\* RunCostLedger: outside a council what the ledger holds is what the backend
\* has charged, every member's completion included.
THEOREM LedgerIsComplete == Spec => []SpendIsRecorded
  <1>1. PipeInv => SpendIsRecorded  BY DEF PipeInv, MoneyInv, SpendIsRecorded
  <1> QED  BY <1>1, PipeInductive, PTL

\* The ceiling check, the council halt and the readiness halt of
\* runAdvisoryPipeline: a run that one of them stopped calls the backend no
\* more, also when it is resumed.  And the gate: nobody's run calls it with a
\* roster that could act, whichever roster the project was seeded with.
THEOREM StopsAreKept == Spec => CallsArePermitted
  <1>1. PipeInv /\ [Next]_vars =>
           [consumed' # consumed => /\ ~metered \/ spent < CeilingUsd
                                    /\ verdict # "Stop" /\ readiness # "Not-Ready"
                                    /\ approved \/ ~Gated(tool) \/ IsAdvisoryOnly(profile)]_vars
    <2> SUFFICES ASSUME StopInv, GateInv, [Next]_vars, consumed' # consumed
                 PROVE  /\ ~metered \/ spent < CeilingUsd
                        /\ verdict # "Stop" /\ readiness # "Not-Ready"
                        /\ approved \/ ~Gated(tool) \/ IsAdvisoryOnly(profile)
      BY DEF PipeInv
    <2>1. pc \in {"stage", "council"}
      BY Steps DEF Classify, Approve, WorkerDrives, OtherRunSeeds, Open, Check, OfferExtension,
         DispatchCouncil, MemberAnswers, Synthesize, PersonaAnswers, BackendFails, PersistStage,
         PersistVerdict, PersistFails, Decide, Resume, Finish, Charge, vars, money
    <2> QED  BY <2>1 DEF StopInv, GateInv, Affordable, Unproduced
  <1> QED  BY <1>1, PipeInductive, PTL DEF Spec, CallsArePermitted
=============================================================================
