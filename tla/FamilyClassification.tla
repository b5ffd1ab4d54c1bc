------------------------- MODULE FamilyClassification -------------------------
(***************************************************************************)
(* What the catalogue tools of the research archive accept: the locked     *)
(* list of source families (validate_component_catalog.py) and the         *)
(* classification of these families (validate_component_classification.py).*)
(* A family is a number, so that documents have an order; a classification *)
(* record keeps only what the rules tell apart, and Sound is the meaning   *)
(* of the prerequisite rules that PrerequisiteWalk decides step by step.   *)
(***************************************************************************)
EXTENDS Integers, FiniteSets

CONSTANTS
  Family,        \* the family identities, as numbers
  Absent,        \* identities that no record has
  EntryCount     \* the number of families a locked snapshot lists

ASSUME FamilyAssumption ==
  /\ Family \subseteq Nat /\ IsFiniteSet(Family)
  /\ Absent \cap Family = {}
  /\ EntryCount \in 0..Cardinality(Family)

-----------------------------------------------------------------------------
(* The tables of the validator.  "none" and "not-applicable" mark a family *)
(* that is deferred or omitted.                                            *)
TierRank == [F0 |-> 0, F1 |-> 1, F2 |-> 2, F3 |-> 3, F4 |-> 4, post |-> 5, na |-> 6]

PackageDependencies ==
  [ui_tree  |-> {"ui_tree"},
   ui       |-> {"ui_tree", "ui"},
   surfaces |-> {"ui_tree", "ui", "surfaces"},
   forms    |-> {"ui_tree", "ui", "surfaces", "forms"},
   data     |-> {"ui_tree", "ui", "surfaces", "forms", "data"},
   charts   |-> {"ui_tree", "ui", "surfaces", "forms", "data", "charts"}]

\* A deferred or omitted family has neither tier nor package, any other has both.
ProductIsCoherent(product) ==
  IF product.disposition \in {"defer", "omit"}
  THEN product.tier = "na" /\ product.package = "none"
  ELSE product.tier \in {"F0", "F1", "F2", "F3", "F4"}
       /\ product.package \in DOMAIN PackageDependencies

-----------------------------------------------------------------------------
(* The catalogue: the snapshot is the one the lock names, it has its size, *)
(* and the catalogue covers it and classifies nothing before its phase.    *)
ReferenceIsLocked(lock, snapshot) ==
  lock = snapshot /\ Cardinality(snapshot) = EntryCount

\* One record for each locked family, and none says more than its source.
CatalogCovers(catalog, locked) ==
  /\ catalog.families = locked
  /\ catalog.premature = {}

\* Relations stay inside the catalogue; the reviewed version has none.
RelationsAreReviewed(catalog) ==
  /\ \A edge \in catalog.relations : edge[2] \in catalog.families
  /\ catalog.relations = {}

CatalogIsCoherent(catalog, locked) ==
  CatalogCovers(catalog, locked) /\ RelationsAreReviewed(catalog)

-----------------------------------------------------------------------------
(* The stages of a classification: 4.1 assigns products, 4.2 capabilities, *)
(* 4.3 portability; "complete" locks the whole.                            *)
Stages == {"4.1", "4.2", "4.3", "complete"}

UnassignedCapability(r) ==
  /\ r.capability.required = {} /\ r.capability.optional = {}
  /\ r.capability.lifecycle = "unassigned"
  /\ r.remote = "unassigned" /\ r.fallback = "unassigned"

\* A managed resource needs cancellation, a timeout and a cleanup; a family that
\* reaches a server needs a fallback without network ("offline" is one, "local" is not).
CapabilityIsComplete(r, known) ==
  /\ "accessibility" \in r.capability.required
  /\ r.capability.required \cap r.capability.optional = {}
  /\ r.capability.required \cup r.capability.optional \subseteq known
  /\ r.capability.lifecycle \in {"none", "managed"}
  /\ r.remote # "unassigned" /\ r.fallback # "unassigned"
  /\ r.remote = "local-only" \/ r.fallback = "offline"

UnassignedPortability(r) == r.portability.status = "unproven" /\ ~r.portability.gate

Specialised(r) == (r.capability.required \cup r.capability.optional) \ {"accessibility"}

PortabilityIsProven(r) ==
  /\ r.portability.status # "unproven" /\ r.portability.gate
  /\ r.portability.status = "portable-semantic" => Specialised(r) = {}
  /\ r.portability.status = "portable-with-capabilities" => Specialised(r) # {}
  /\ (r.portability.status = "renderer-extension")
       <=> (r.product.disposition = "renderer-extension")

\* The rules of a stage for one record: nothing is assigned before its stage, all after it.
StageIsKept(stage, r, known) ==
  /\ IF stage = "4.1" THEN UnassignedCapability(r) ELSE CapabilityIsComplete(r, known)
  /\ IF stage \in {"4.1", "4.2"} THEN UnassignedPortability(r) ELSE PortabilityIsProven(r)

-----------------------------------------------------------------------------
(* The prerequisite rules, as a definition: direct is the rule for one     *)
(* edge, Reachable the transitive prerequisites.                           *)
EdgeIsAllowed(records, f, g) ==
  /\ g \in DOMAIN records
  /\ TierRank[records[g].product.tier] =< TierRank[records[f].product.tier]
  /\ records[f].product.package \in DOMAIN PackageDependencies
  /\ records[g].product.package \in PackageDependencies[records[f].product.package]

Reachable(records, f) ==
  LET Next(S) == S \cup UNION {records[g].product.prerequisites : g \in S \cap DOMAIN records}
      reach[n \in 0..Cardinality(DOMAIN records)] ==
        IF n = 0 THEN records[f].product.prerequisites ELSE Next(reach[n - 1])
  IN reach[Cardinality(DOMAIN records)]

\* No family waits on itself, and none waits, however indirectly, on an absent
\* family, a later tier, or a package above its own.
Sound(records) ==
  \A f \in DOMAIN records :
    /\ f \notin Reachable(records, f)
    /\ \A g \in Reachable(records, f) : EdgeIsAllowed(records, f, g)

-----------------------------------------------------------------------------
(* The validator as a whole; counts are the locked totals of "complete".   *)
Counts(records) ==
  [p \in {records[f].product.package : f \in DOMAIN records} |->
     Cardinality({f \in DOMAIN records : records[f].product.package = p})]

ClassificationIsAccepted(document, catalog, known, locked) ==
  LET records == document.records IN
  /\ document.catalog = catalog
  /\ DOMAIN records = catalog.families
  /\ \A f \in DOMAIN records : ProductIsCoherent(records[f].product)
  /\ Sound(records)
  /\ \A f \in DOMAIN records : StageIsKept(document.stage, records[f], known)
  /\ document.stage = "complete" => document.locked /\ Counts(records) = locked
=============================================================================
