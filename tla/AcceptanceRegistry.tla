-------------------------- MODULE AcceptanceRegistry --------------------------
(***************************************************************************)
(* The acceptance registry of BH-00: how generate_acceptance_registry.py   *)
(* derives one requirement and one acceptance condition from every claim   *)
(* of the roadmap, the product envelope, the classification and the        *)
(* quality contract, how a bounded amendment of the roadmap leaves the     *)
(* registry as it was (planning_policy.py), and what                       *)
(* validate_quality_acceptance.py accepts.  A digest is the value it is    *)
(* taken of; wording is kept only where an amendment changes it.           *)
(***************************************************************************)
EXTENDS FamilyClassification

CONSTANTS
  Milestones,          \* the roadmap's milestones, "BH-01" among them
  Reworded,            \* milestones the framework deferral rewords: BH-04 and BH-08
  EnvelopeItems,       \* pairs of an envelope collection and a record in it
  Budgets,             \* the quality budgets of the contract
  Gates                \* the cross-cutting gate requirements that section 5.2 adds

\* The tables of the generator.
TierMilestones == [F0 |-> "BH-08", F1 |-> "BH-09", F2 |-> "BH-13", F3 |-> "BH-16", F4 |-> "BH-17"]

PackageBudgets ==
  [charts |-> {"chart"}, data |-> {"data"}, forms |-> {"family"}, surfaces |-> {"family"},
   ui |-> {"family", "shared"}, ui_tree |-> {"shared"}]

\* The quality contract has every budget that a package is held to.
ASSUME BudgetsAssumption == \A p \in DOMAIN PackageBudgets : PackageBudgets[p] \subseteq Budgets

-----------------------------------------------------------------------------
(* The roadmap: an amendment rewords the completion of BH-01, the          *)
(* framework deferral those of Reworded; any other edit is "edited".       *)
RoadmapVersions == {"historical", "amended", "deferred", "edited"}

Completion(roadmap, milestone) ==
  CASE milestone = "BH-01" /\ roadmap \in {"amended", "deferred"} -> "amended"
    [] milestone \in Reworded /\ roadmap = "deferred" -> "deferred"
    [] milestone = "BH-00" /\ roadmap = "edited" -> "edited"
    [] OTHER -> "historical"

\* Why an amendment is refused: it starts at the accepted source (or goes from the amendment
\* to its deferral), ends at one of the two named successors, the policy names both hashes,
\* and the deferral has its own record.
AmendmentIsBound(expected, actual, policy, deferral) ==
  /\ \/ expected = "historical"
     \/ expected = "amended" /\ actual = "deferred"
  /\ actual \in {"amended", "deferred"}
  /\ policy
  /\ actual = "deferred" => deferral

-----------------------------------------------------------------------------
(* One requirement and one condition for each claim.  The summary in words *)
(* of a requirement, which the historical registry does not restore, is    *)
(* left out.                                                               *)
Requirement(kind, source, binding) ==
  [id |-> <<kind, source>>, binding |-> binding, acceptance |-> {<<kind, source>>}]

Condition(kind, source, statement, milestone, evidence, budgets) ==
  [id |-> <<kind, source>>, requirements |-> {<<kind, source>>}, statement |-> statement,
   milestone |-> milestone, evidence |-> evidence, budgets |-> budgets,
   status |-> "planned", support |-> "candidate",
   implementation |-> "not-started", verification |-> "not-executed", claims |-> {}]

RoadmapConditions(roadmap) ==
  {Condition("roadmap-milestone", m, Completion(roadmap, m), m,
             IF m = "BH-00" THEN {"generated", "review"} ELSE {"automated", "browser", "review"},
             {}) : m \in Milestones}

ObligationConditions ==
  {Condition("cross-cutting-obligation", "tests", "historical", "BH-00",
             {"automated", "review"}, {})}

NonGoalConditions ==
  {[Condition("non-goal", "server-dom", "historical", "BH-00", {"generated", "review"}, {})
     EXCEPT !.support = "not-applicable", !.implementation = "not-applicable"]}

EnvelopeConditions(envelope) ==
  {[Condition("browser-envelope", item, envelope, "BH-07", {"automated", "browser", "review"}, {})
     EXCEPT !.support = IF item[1] = "browser_configurations" THEN "unsupported" ELSE "candidate"] :
     item \in EnvelopeItems}

\* A family owes the milestone of its tier and the budgets of its package, and security
\* evidence as soon as it is not local.
FamilyConditions(families) ==
  {LET r == families[f] IN
     Condition("catalog-family", f, <<r.product.package, r.product.tier>>,
               TierMilestones[r.product.tier],
               {"accessibility", "automated", "browser", "review"}
                 \cup IF r.remote = "local-only" THEN {} ELSE {"security"},
               PackageBudgets[r.product.package]) : f \in DOMAIN families}

PackageConditions(families) ==
  {LET owned == {f \in DOMAIN families : families[f].product.package = p} IN
     Condition("package-boundary", p, Cardinality(owned), "BH-09",
               {"automated", "generated", "review"}, PackageBudgets[p]) :
     p \in {families[f].product.package : f \in DOMAIN families}}

BudgetConditions(quality) ==
  {Condition("quality-budget", b, quality.threshold, "BH-22",
             {"benchmark", "generated", "review"}, {b}) : b \in quality.budgets}

FailureConditions(quality) ==
  {Condition("quality-failure", x, "historical", "BH-22", {"automated", "browser", "review"}, {}) :
     x \in quality.failures}

BlockerConditions(quality) ==
  {Condition("quality-release-blocker", x, "historical", "BH-22", {"automated", "review"}, {}) :
     x \in quality.blockers}

GateConditions(quality) ==
  {Condition("quality-gate", x, "historical", "BH-22", {"review"}, {}) : x \in quality.gates}

\* The claims of every source, in the order the generator reads them.
ConditionsOf(s) ==
  RoadmapConditions(s.roadmap) \cup ObligationConditions \cup NonGoalConditions
    \cup EnvelopeConditions(s.envelope)
    \cup FamilyConditions(s.classification.records)
    \cup PackageConditions(s.classification.records)
    \cup BudgetConditions(s.quality) \cup FailureConditions(s.quality)
    \cup BlockerConditions(s.quality) \cup GateConditions(s.quality)

SourceOf(kind) ==
  CASE kind \in {"roadmap-milestone", "cross-cutting-obligation", "non-goal"} -> "roadmap"
    [] kind = "browser-envelope" -> "envelope"
    [] kind \in {"catalog-family", "package-boundary"} -> "classification"
    [] OTHER -> "quality"

BuildRegistry(s) ==
  [bindings |-> s, conditions |-> ConditionsOf(s),
   requirements |-> {Requirement(c.id[1], c.id[2], SourceOf(c.id[1])) : c \in ConditionsOf(s)}]

\* TIER_MILESTONES and PACKAGE_BUDGETS have no entry for a deferred family: the generator
\* ends with a KeyError.
IsBuildable(s) ==
  \A f \in DOMAIN s.classification.records :
    LET p == s.classification.records[f].product IN
      p.tier \in DOMAIN TierMilestones /\ p.package \in DOMAIN PackageBudgets

-----------------------------------------------------------------------------
(* Under the bound amendment the registry keeps the historical binding and *)
(* the historical wording of the milestones that were amended.             *)
MutantHistoricalRegistry(registry) ==
  [registry EXCEPT
     !.bindings.roadmap = "historical",
     !.conditions = {IF c.id[1] = "roadmap-milestone" /\ c.id[2] \in Reworded
                     THEN [c EXCEPT !.statement = "historical"] ELSE c : c \in @}]

HistoricalRegistry(registry) ==
  [registry EXCEPT
     !.bindings.roadmap = "historical",
     !.conditions = {IF c.id[1] = "roadmap-milestone" /\ c.id[2] \in {"BH-01"} \cup Reworded
                     THEN [c EXCEPT !.statement = "historical"] ELSE c : c \in @}]

CommittedExpectation(s, policy, deferral) ==
  IF AmendmentIsBound("historical", s.roadmap, policy, deferral)
  THEN HistoricalRegistry(BuildRegistry(s)) ELSE BuildRegistry(s)

\* The report shows the registry's totals and its bindings.
RenderReport(registry) ==
  [bindings |-> registry.bindings,
   totals |-> [k \in {r.id[1] : r \in registry.requirements} |->
                 Cardinality({r \in registry.requirements : r.id[1] = k})],
   demand |-> [e \in UNION {c.evidence : c \in registry.conditions} |->
                 Cardinality({c \in registry.conditions : e \in c.evidence})]]

-----------------------------------------------------------------------------
(* The validators.                                                         *)
GatesAreComplete(gates) == gates = Gates

\* Section 5.1 must not pre-empt the gates of section 5.2; nothing claims a measurement.
QualityIsCoherent(quality) ==
  /\ quality.budgets = Budgets
  /\ quality.failures # {} /\ quality.blockers # {}
  /\ ~quality.measured
  /\ quality.stage = "5.1" => quality.gates = {}
  /\ quality.stage \in {"5.2", "complete"} => GatesAreComplete(quality.gates)

\* What the state of a condition may combine; waivers and supersessions are left out.
StateIsCoherent(c) ==
  CASE c.status = "planned" ->
         /\ c.implementation \in {"not-started", "not-applicable"}
         /\ c.verification = "not-executed" /\ c.claims = {}
    [] c.status = "blocked" -> c.implementation # "implemented" /\ c.verification # "passed"
    [] c.status = "implemented" ->
         c.implementation = "implemented" /\ c.verification = "not-executed" /\ c.claims = {}
    [] c.status \in {"passed", "failed"} ->
         c.implementation = "implemented" /\ c.verification = c.status /\ c.claims # {}
    [] c.status \in {"unsupported", "not-applicable"} ->
         /\ c.support = c.status
         /\ c.implementation = "not-applicable" /\ c.verification = "not-applicable"
    [] OTHER -> FALSE

MutantBindingIsCurrent(id, expected, s, policy, deferral) == expected = s[id]

\* A binding is current, or it is the roadmap's and its amendment is bound.
BindingIsCurrent(id, expected, s, policy, deferral) ==
  \/ expected = s[id]
  \/ id = "roadmap" /\ AmendmentIsBound(expected, s.roadmap, policy, deferral)

\* The registry on disk: bindings, reciprocal links, coherent states, coverage of the
\* sources, and in the end equality with what the generator builds from them.
RegistryIsAccepted(registry, s, policy, deferral) ==
  LET sources(kind) == {r.id[2] : r \in {q \in registry.requirements : q.id[1] = kind}} IN
  /\ \A id \in DOMAIN registry.bindings :
       BindingIsCurrent(id, registry.bindings[id], s, policy, deferral)
  /\ \A r \in registry.requirements :
       /\ r.binding \in DOMAIN registry.bindings
       /\ \A a \in r.acceptance :
            \E c \in registry.conditions : c.id = a /\ r.id \in c.requirements
  /\ \A c \in registry.conditions :
       /\ StateIsCoherent(c)
       /\ \A q \in c.requirements :
            \E r \in registry.requirements : r.id = q /\ c.id \in r.acceptance
       /\ c.budgets \subseteq s.quality.budgets
  /\ sources("catalog-family") = DOMAIN s.classification.records
  /\ sources("quality-budget") = s.quality.budgets
  /\ sources("roadmap-milestone") = Milestones
  /\ IsBuildable(s)
  /\ registry = IF registry.bindings.roadmap # s.roadmap
                THEN HistoricalRegistry(BuildRegistry(s)) ELSE BuildRegistry(s)
=============================================================================
