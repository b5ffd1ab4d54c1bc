-------------------------- MODULE MCPrerequisiteWalk --------------------------
(***************************************************************************)
(* All classifications of three families with a few products and a bounded *)
(* number of prerequisites.                                                *)
(***************************************************************************)
EXTENDS PrerequisiteWalk

CONSTANT MaxEdges

Families == 1..3
Missing == {9}

Products ==
  {[disposition |-> "build", tier |-> "F0", package |-> "ui"],
   [disposition |-> "build", tier |-> "F1", package |-> "forms"],
   [disposition |-> "build", tier |-> "F1", package |-> "surfaces"],
   [disposition |-> "defer", tier |-> "na", package |-> "none"]}

RecordOf(p, needs) ==
  [product |-> [disposition |-> p.disposition, tier |-> p.tier, package |-> p.package,
                prerequisites |-> needs]]

Edges(graph) == {e \in Families \X (Families \cup Missing) : e[2] \in graph[e[1]]}

Graphs == {graph \in [Families -> SUBSET (Families \cup Missing)] :
             Cardinality(Edges(graph)) =< MaxEdges}

AllDocuments ==
  {[f \in Families |-> RecordOf(choice[f], graph[f])] :
     choice \in [Families -> Products], graph \in Graphs}
=============================================================================
