------------------------- MODULE MCPlanningDocuments -------------------------
(***************************************************************************)
(* Two families out of three, three milestones, and product assignments    *)
(* of which one is unsound and one defers a family.                        *)
(***************************************************************************)
EXTENDS PlanningDocuments

Product(disposition, tier, package, needs) ==
  [disposition |-> disposition, tier |-> tier, package |-> package, prerequisites |-> needs]

Base == Product("build", "F0", "ui", {})
Field(tier) == Product("build", tier, "forms", {1})

FirstMC == [f \in 1..3 |-> IF f = 1 THEN Base ELSE Field("F1")]

ProductsMC ==
  {FirstMC,
   [f \in 1..3 |-> IF f = 1 THEN Base ELSE Field("F2")],
   [f \in 1..3 |-> IF f = 1 THEN Product("build", "F0", "ui", {2}) ELSE Field("F1")],
   [f \in 1..3 |-> IF f = 1 THEN Base ELSE Product("defer", "na", "none", {})]}

CountsMC == [ui |-> 1, forms |-> 1]
FamilyMC == 1..3
AbsentMC == {}
FirstSnapshotMC == {1, 2}
SnapshotsMC == {{1, 2}, {1, 3}}
MilestonesMC == {"BH-00", "BH-01", "BH-04"}
RewordedMC == {"BH-04"}
EnvelopeMC == {<<"profiles", "headless">>, <<"browser_configurations", "desktop">>}
BudgetsMC == {"shared", "family", "data", "chart"}
GatesMC == {"keyboard"}
=============================================================================
