--------------------------- MODULE PrerequisiteWalk ---------------------------
(***************************************************************************)
(* The depth-first walk of _validate_graph over the prerequisites of a     *)
(* classification: its recursion is the stack, whose families are the ones *)
(* being visited.  A family is entered from the list of all families, in   *)
(* their order, or from the prerequisite that led to it; the prerequisites *)
(* of one family are taken in any order.  The verdict is "refused" when    *)
(* the walk raises its own error, "died" when PACKAGE_DEPENDENCIES has no  *)
(* entry for the package of a deferred family: that KeyError is no         *)
(* classification error, and the command ends with it.                     *)
(***************************************************************************)
EXTENDS FamilyClassification, Sequences, FiniteSetsExt

CONSTANT Documents     \* the classifications the walk is given

ASSUME DocumentAssumption == \A d \in Documents : DOMAIN d \subseteq Family

VARIABLES records,     \* the classification under test
          pending,     \* families the outer loop has not reached
          stack,       \* the frames of visit, outermost first: family and prerequisites left
          visited,     \* families whose visit has returned
          verdict      \* "walking", "accepted", "refused" or "died"

vars == <<records, pending, stack, visited, verdict>>

\* A family that stays marked as being visited.
VisitingForEver == {stack[i].family : i \in DOMAIN stack} \cup visited

Visiting == {stack[i].family : i \in DOMAIN stack}

Frame(f) == [family |-> f, todo |-> records[f].product.prerequisites]

Top == stack[Len(stack)]

Init ==
  /\ records \in Documents
  /\ \A f \in DOMAIN records : ProductIsCoherent(records[f].product)
  /\ pending = DOMAIN records
  /\ stack = <<>> /\ visited = {} /\ verdict = "walking"

-----------------------------------------------------------------------------
\* An outer loop that does not advance past a visited family.
StartOver ==
  /\ verdict = "walking" /\ stack = <<>> /\ pending # {}
  /\ LET f == Min(pending) IN
       /\ pending' = IF f \in visited THEN pending ELSE pending \ {f}
       /\ stack' = IF f \in visited THEN stack ELSE <<Frame(f)>>
  /\ UNCHANGED <<records, visited, verdict>>

\* The outer loop takes the next family; visit returns at once when it was visited.
Start ==
  /\ verdict = "walking" /\ stack = <<>> /\ pending # {}
  /\ LET f == Min(pending) IN
       /\ pending' = pending \ {f}
       /\ stack' = IF f \in visited THEN stack ELSE <<Frame(f)>>
  /\ UNCHANGED <<records, visited, verdict>>

\* A prerequisite that was visited once is not judged again.
JudgeOnce(f, g) ==
  LET p == records[f].product IN
  IF g \in visited THEN "walking"
  ELSE IF g \notin DOMAIN records \/ TierRank[records[g].product.tier] > TierRank[p.tier] THEN "refused"
  ELSE IF p.package \notin DOMAIN PackageDependencies THEN "died"
  ELSE IF records[g].product.package \notin PackageDependencies[p.package] \/ g \in Visiting THEN "refused"
  ELSE "walking"

\* The loop body up to the recursive call: the prerequisite exists, is not of a later tier,
\* and its package is one that the family's package may depend on.
Judgement(f, g) ==
  LET p == records[f].product IN
  IF g \notin DOMAIN records \/ TierRank[records[g].product.tier] > TierRank[p.tier] THEN "refused"
  ELSE IF p.package \notin DOMAIN PackageDependencies THEN "died"
  ELSE IF records[g].product.package \notin PackageDependencies[p.package] \/ g \in Visiting THEN "refused"
  ELSE "walking"

\* One prerequisite: it is judged, and visited unless it was before.  A prerequisite that is
\* still being visited closes a cycle.
Follow(g) ==
  /\ verdict = "walking" /\ stack # <<>> /\ g \in Top.todo
  /\ verdict' = Judgement(Top.family, g)
  /\ LET rest == [stack EXCEPT ![Len(stack)].todo = @ \ {g}]
     IN  stack' = IF verdict' = "walking" /\ g \notin visited THEN Append(rest, Frame(g))
                  ELSE rest
  /\ UNCHANGED <<records, pending, visited>>

\* The loop of the innermost visit has ended.
Leave ==
  /\ verdict = "walking" /\ stack # <<>> /\ Top.todo = {}
  /\ visited' = visited \cup {Top.family}
  /\ stack' = SubSeq(stack, 1, Len(stack) - 1)
  /\ UNCHANGED <<records, pending, verdict>>

Finish ==
  /\ verdict = "walking" /\ stack = <<>> /\ pending = {}
  /\ verdict' = "accepted"
  /\ UNCHANGED <<records, pending, stack, visited>>

Next == Start \/ (\E g \in Family \cup Absent : Follow(g)) \/ Leave \/ Finish

Spec == Init /\ [][Next]_vars /\ WF_vars(Next)

-----------------------------------------------------------------------------
(* The walk decides exactly the transitive rules: an accepted              *)
(* classification has no cycle and no prerequisite, at any distance, that  *)
(* is absent, later or above its package.  Only single edges are compared  *)
(* (_validate_graph), so this rests on the order of tiers and packages     *)
(* being transitive and on every family being visited.                     *)
AcceptedIsSound == verdict = "accepted" => Sound(records)

\* The walk refuses nothing else: a refusal or a crash has a family that violates the rules.
RefusedHasCause == verdict \in {"refused", "died"} => ~Sound(records)

\* The walk ends, whatever the graph: a cycle is met, never followed.
WalkEnds == <>(verdict # "walking")
=============================================================================
