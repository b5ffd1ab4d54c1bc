-------------------------- MODULE PlanningDocuments --------------------------
(***************************************************************************)
(* The BH-00 planning documents on disk, the author who edits them, the    *)
(* generators that rewrite some of them and check_all.py, which runs the   *)
(* validators, and the generators in --check mode, on what is on disk.  A  *)
(* document records the digests of the documents it rests on:              *)
(*    snapshot <- lock <- catalog <- classification <- registry <- report  *)
(* and the governance contract binds the sources, its release manifest     *)
(* their digests; release index and entry manifest are generated from it.  *)
(* A generator computes both texts first and writes them one after the     *)
(* other, so that it may end between the two writes.                       *)
(***************************************************************************)
EXTENDS AcceptanceRegistry, Sequences

CONSTANTS
  None,            \* no such file, decision or text
  FirstSnapshot,   \* the snapshot and the products the archive starts with
  FirstProducts,
  Snapshots,       \* source snapshots, sets of families
  Products,        \* a set of product assignments, functions on Family
  LockedCounts,    \* the totals the complete classification is locked at
  MaxEdits,        \* how many edits the author makes
  MaxCrashes       \* how often a generator ends between its writes

VARIABLES disk,    \* the documents, by name
          gen,     \* the generator at work: its name and the texts it has yet to write
          edits, crashes

documentVars == <<disk, gen, edits, crashes>>

Idle == [name |-> "idle", texts |-> <<>>]

-----------------------------------------------------------------------------
(* Documents.  The release and the entry decision of the contract are sets *)
(* of at most one.                                                         *)
Known == {"accessibility", "storage"}

\* The family records of a complete classification; the family of the forms package keeps
\* its answers on a server.
RecordsOf(product, families) ==
  [f \in families |->
    [product |-> product[f],
     capability |-> [required |-> {"accessibility"}, optional |-> {}, lifecycle |-> "none"],
     remote |-> IF product[f].package = "forms" THEN "optional-remote" ELSE "local-only",
     fallback |-> "offline",
     portability |-> [status |-> IF product[f].disposition = "renderer-extension"
                                 THEN "renderer-extension" ELSE "portable-semantic",
                      gate |-> TRUE]]]

ProductsAreLocked(p, families) == Counts(RecordsOf(p, families)) = LockedCounts

\* Snapshots list known families, for each of the right size there are products with the
\* locked totals, and these totals count no deferred family.
ASSUME DocumentsAssumption ==
  /\ FirstSnapshot \in Snapshots /\ FirstProducts \in Products
  /\ \A s \in Snapshots :
       /\ s \subseteq Family
       /\ Cardinality(s) = EntryCount =>
            \E p \in Products : ProductsAreLocked(p, s)
  /\ DOMAIN LockedCounts \subseteq DOMAIN PackageBudgets

Sources(d) == [roadmap |-> d.roadmap, envelope |-> d.envelope,
               classification |-> d.classification, quality |-> d.quality]

\* What the contract binds, as it stands on disk.
Bindings(sources, catalog, registry) ==
  [roadmap |-> sources.roadmap, envelope |-> sources.envelope,
   classification |-> sources.classification, quality |-> sources.quality,
   catalog |-> catalog, acceptance |-> registry]

Bindable(d) == Bindings(Sources(d), d.catalog, d.registry)

\* The release index shows the contract's stage, decision and bindings, the entry manifest
\* its entry decision and risks.
RenderRelease(contract) ==
  [stage |-> contract.stage, manifest |-> contract.release, bindings |-> contract.bindings]

RenderEntry(contract) == contract.entry

\* A repository at rest, for one snapshot and one product assignment.
Consistent(s, p) ==
  LET catalog == [families |-> s, premature |-> {}, relations |-> {}]
      document == [catalog |-> catalog, records |-> RecordsOf(p, s), stage |-> "complete",
                   locked |-> TRUE]
      quality == [budgets |-> Budgets, failures |-> {"renderer"}, blockers |-> {"leak"},
                  gates |-> Gates, stage |-> "complete", measured |-> FALSE, threshold |-> 0]
      sources == [roadmap |-> "historical", envelope |-> 0, classification |-> document,
                  quality |-> quality]
      registry == BuildRegistry(sources)
      bindings == Bindings(sources, catalog, registry)
      contract == [stage |-> "complete", reviewed |-> TRUE, bindings |-> bindings,
                   release |-> {bindings}, entry |-> {TRUE}, closed |-> TRUE]
  IN [roadmap |-> "historical", envelope |-> 0, classification |-> document,
      quality |-> quality, catalog |-> catalog,
      snapshot |-> s, lock |-> s, catalogView |-> catalog,
      classificationView |-> <<document, catalog>>,
      policy |-> TRUE, deferral |-> TRUE, activated |-> {}, authorised |-> {},
      registry |-> registry, report |-> RenderReport(registry), contract |-> contract,
      releaseIndex |-> RenderRelease(contract), entryManifest |-> RenderEntry(contract)]

\* The same repository before the release: the contract is reconciled, nothing is published.
Reconciled(d) ==
  [d EXCEPT !.contract = [@ EXCEPT !.stage = "6.1", !.reviewed = FALSE, !.release = {},
                                   !.entry = {}, !.closed = FALSE],
            !.releaseIndex = None, !.entryManifest = None]

-----------------------------------------------------------------------------
(* The validators, each on the disk as it is when it runs.                 *)
CatalogIsAccepted(d) ==
  /\ ReferenceIsLocked(d.lock, d.snapshot)
  /\ CatalogIsCoherent(d.catalog, d.snapshot)
  /\ d.catalogView = d.catalog

ClassificationDocumentIsAccepted(d) ==
  /\ ClassificationIsAccepted(d.classification, d.catalog, Known, LockedCounts)
  /\ d.classificationView = <<d.classification, d.catalog>>

AcceptanceIsAccepted(d) ==
  /\ QualityIsCoherent(d.quality)
  /\ RegistryIsAccepted(d.registry, Sources(d), d.policy, d.deferral)

SourcesAreBound(d) ==
  LET now == Bindable(d) IN
  \A id \in DOMAIN now : BindingIsCurrent(id, d.contract.bindings[id], now, d.policy, d.deferral)

\* The packages that a milestone's records authorise; those of BH-01 also open the way.
Authorised(d) ==
  UNION {[bh01 |-> {"ui_tree"}, bh02 |-> {"ui"}][m] : m \in d.authorised}

IsReconciled(d) ==
  /\ d.activated # {} => "bh01" \in d.authorised /\ d.activated = Authorised(d)
  /\ Cardinality(d.catalog.families) = EntryCount
  /\ Cardinality(DOMAIN d.classification.records) = EntryCount
  /\ \A c \in d.registry.conditions : c.claims = {}

ReviewIsComplete(contract) == contract.reviewed

ReleaseIsCurrent(d) ==
  /\ d.contract.release = {d.contract.bindings}
  /\ d.releaseIndex = RenderRelease(d.contract)
  /\ d.entryManifest = RenderEntry(d.contract)
  /\ d.contract.entry = {TRUE}

CompletionIsEvidenced(contract) == contract.closed

\* No stage pre-empts a later one, and a stage has what the earlier ones asked for.
StageIsCoherent(d) ==
  LET c == d.contract IN
  CASE c.stage = "6.1" -> ~c.reviewed /\ c.release = {} /\ c.entry = {}
    [] c.stage = "6.2" -> ReviewIsComplete(c) /\ c.release = {} /\ c.entry = {}
    [] c.stage = "6.3" -> ReviewIsComplete(c) /\ ReleaseIsCurrent(d)
    [] OTHER -> ReviewIsComplete(c) /\ ReleaseIsCurrent(d) /\ CompletionIsEvidenced(c)

GovernanceIsAccepted(d) == SourcesAreBound(d) /\ IsReconciled(d) /\ StageIsCoherent(d)

-----------------------------------------------------------------------------
(* The generators: the texts each one computes from the disk, in the order *)
(* it writes them.  The registry is built only from a buildable            *)
(* classification, the release only from a contract that has one.          *)
Text(file, content) == [file |-> file, content |-> content]

RegistryTexts(d) ==
  LET registry == CommittedExpectation(Sources(d), d.policy, d.deferral) IN
  IF IsBuildable(Sources(d))
  THEN <<Text("registry", registry), Text("report", RenderReport(registry))>> ELSE <<>>

ReleaseTexts(d) ==
  IF {} \in {d.contract.release, d.contract.entry} THEN <<>>
  ELSE <<Text("releaseIndex", RenderRelease(d.contract)),
         Text("entryManifest", RenderEntry(d.contract))>>

CatalogTexts(d) == <<Text("catalogView", d.catalog)>>

ClassificationTexts(d) == <<Text("classificationView", <<d.classification, d.catalog>>)>>

Generators == {"registry", "release", "catalog", "classification"}

Texts(d, name) ==
  CASE name = "registry" -> RegistryTexts(d)
    [] name = "release" -> ReleaseTexts(d)
    [] name = "catalog" -> CatalogTexts(d)
    [] OTHER -> ClassificationTexts(d)

MutantIsWritten(d, texts) ==
  \A i \in DOMAIN texts : i = 1 => d[texts[i].file] = texts[i].content

IsWritten(d, texts) == \A i \in DOMAIN texts : d[texts[i].file] = texts[i].content

\* generate --check: the generator has texts, and they are on disk.
IsFresh(d, name) == Texts(d, name) # <<>> /\ IsWritten(d, Texts(d, name))

\* The eight BH-00 commands of check_all, in its order.  Its globs also find the
\* validators and generators of BH-01 to BH-07.  Run by it they write nothing: they
\* and the unit tests can only make it fail.
Commands == <<"governance", "catalog", "classification", "acceptance",
              "registry --check", "release --check", "catalog --check",
              "classification --check">>

Passes(d, command) ==
  CASE command = "governance" -> GovernanceIsAccepted(d)
    [] command = "catalog" -> CatalogIsAccepted(d)
    [] command = "classification" -> ClassificationDocumentIsAccepted(d)
    [] command = "acceptance" -> AcceptanceIsAccepted(d)
    [] command = "registry --check" -> IsFresh(d, "registry")
    [] command = "release --check" -> IsFresh(d, "release")
    [] command = "catalog --check" -> IsFresh(d, "catalog")
    [] OTHER -> IsFresh(d, "classification")

-----------------------------------------------------------------------------
(* Steps.                                                                  *)
Write(file, content) ==
  disk[file] # content /\ disk' = [disk EXCEPT ![file] = content]

\* What the author may do to one document, whatever it costs the others.
Revisions ==
  {<<"snapshot", s>> : s \in Snapshots}
  \cup {<<"catalog", [disk.catalog EXCEPT !.premature = {f}]>> : f \in {1}}
  \cup {<<"classification", [disk.classification EXCEPT
            !.records = RecordsOf(p, DOMAIN disk.classification.records)]>> : p \in Products}
  \cup {<<"roadmap", v>> : v \in CASE disk.roadmap = "historical" -> {"amended", "edited"}
                                   [] disk.roadmap = "amended" -> {"deferred"}
                                   [] OTHER -> {}}
  \cup {<<"policy", ~disk.policy>>, <<"deferral", ~disk.deferral>>,
        <<"quality", [disk.quality EXCEPT !.threshold = 1 - @]>>,
        <<"catalogView", None>>, <<"activated", {"ui_tree"}>>, <<"authorised", {"bh01"}>>}
  \cup {<<"registry", [disk.registry EXCEPT !.conditions =
           (@ \ {c}) \cup {[c EXCEPT !.status = "passed", !.implementation = "implemented",
                                     !.verification = "passed", !.claims = {"claim"}]}]>> :
           c \in {x \in disk.registry.conditions : x.id = <<"roadmap-milestone", "BH-01">>}}

Edit ==
  /\ edits < MaxEdits
  /\ \E r \in Revisions : Write(r[1], r[2])
  /\ edits' = edits + 1
  /\ UNCHANGED <<gen, crashes>>

\* The author follows an edit through the authored documents, from the sources on: a document
\* is bound again when what it rests on is settled, the contract when the registry is built.
\* What there is to write, as pairs of a document and its content:
Relocking(d) == {<<"lock", d.snapshot>>}

CatalogRevision(d) ==
  {r \in {<<"catalog", [d.catalog EXCEPT !.families = d.snapshot, !.premature = {}]>>} :
     d.lock = d.snapshot}

Reclassification(d) ==
  {<<"classification", [d.classification EXCEPT !.catalog = d.catalog,
                                                !.records = RecordsOf(p, d.catalog.families)]>> :
     p \in {q \in Products : /\ CatalogIsCoherent(d.catalog, d.snapshot)
                             /\ ProductsAreLocked(q, d.catalog.families)
                             /\ d.classification.catalog # d.catalog}}

\* The contract binds the disk again; the binding of the roadmap stays where the amendment
\* is bound.  A contract that has a release states the new manifest in the same edit.
BindingsNow(d) ==
  LET kept == d.contract.bindings.roadmap IN
  [Bindable(d) EXCEPT !.roadmap =
     IF AmendmentIsBound(kept, @, d.policy, d.deferral) THEN kept ELSE @]

Rebinding(d) ==
  {r \in {<<"contract", [d.contract EXCEPT
             !.bindings = BindingsNow(d),
             !.release = IF @ = {} THEN @ ELSE {BindingsNow(d)}]>>} :
     IsFresh(d, "registry") /\ d.classification.catalog = d.catalog}

\* The next section of phase 6: review, release and entry decision, closure.
Advancement(d) ==
  LET c == d.contract IN
  CASE c.stage = "6.1" -> {<<"contract", [c EXCEPT !.stage = "6.2", !.reviewed = TRUE]>>}
    [] c.stage = "6.2" -> {<<"contract", [c EXCEPT !.stage = "6.3", !.release = {c.bindings},
                                                   !.entry = {TRUE}]>>}
    [] c.stage = "6.3" -> {<<"contract", [c EXCEPT !.stage = "complete", !.closed = TRUE]>>}
    [] OTHER -> {}

FollowUp(repairs) ==
  (\E r \in repairs : Write(r[1], r[2])) /\ UNCHANGED <<gen, edits, crashes>>

Relock == FollowUp(Relocking(disk))
ReviseCatalog == FollowUp(CatalogRevision(disk))
Reclassify == FollowUp(Reclassification(disk))
Rebind == gen = Idle /\ FollowUp(Rebinding(disk))
Advance == FollowUp(Advancement(disk))

\* A generator reads the disk and renders; each write is a step of its own.
Generate(name) ==
  /\ gen = Idle
  /\ Texts(disk, name) # <<>> /\ ~IsWritten(disk, Texts(disk, name))
  /\ gen' = [name |-> name, texts |-> Texts(disk, name)]
  /\ UNCHANGED <<disk, edits, crashes>>

WriteText ==
  /\ gen # Idle
  /\ LET text == Head(gen.texts) IN
       disk' = [disk EXCEPT ![text.file] = text.content]
  /\ gen' = IF Tail(gen.texts) = <<>> THEN Idle ELSE [gen EXCEPT !.texts = Tail(@)]
  /\ UNCHANGED <<edits, crashes>>

\* The generator is interrupted; what it wrote stays.
Interrupt ==
  /\ gen # Idle /\ crashes < MaxCrashes
  /\ gen' = Idle /\ crashes' = crashes + 1
  /\ UNCHANGED <<disk, edits>>

\* The archive is released, or reconciled and has its release, worth an edit, to come.
DocumentsInit ==
  /\ LET d == Consistent(FirstSnapshot, FirstProducts) IN
       \/ disk = d /\ edits = 0
       \/ disk = Reconciled(d) /\ edits = 1
  /\ gen = Idle
  /\ crashes = 0

Repair == Relock \/ ReviseCatalog \/ Reclassify \/ Rebind \/ Advance

DocumentsNext ==
  \/ Edit \/ Repair
  \/ (\E name \in Generators : Generate(name)) \/ WriteText \/ Interrupt

DocumentsSpec == DocumentsInit /\ [][DocumentsNext]_documentVars

-----------------------------------------------------------------------------
\* check_all ends with 0 only if each of these commands passes.  It is not stopped by
\* one that fails.
Passed == \A i \in DOMAIN Commands : Passes(disk, Commands[i])

\* A pass of check_all is true from one end of the chain to the other: the
\* published index names exactly the registry that the sources give now, and
\* that registry answers for exactly the families of the locked snapshot.
ReleaseIsTrue ==
  Passed =>
    LET bound == disk.releaseIndex.bindings
        built == CommittedExpectation(Sources(disk), disk.policy, disk.deferral)
    IN /\ bound.acceptance = built
       /\ bound.acceptance.bindings.classification.catalog = bound.catalog
       /\ {r.id[2] : r \in {q \in bound.acceptance.requirements : q.id[1] = "catalog-family"}}
            = disk.snapshot
       /\ disk.report = RenderReport(built)
       /\ disk.entryManifest = disk.contract.entry

\* A bound amendment of the roadmap leaves the accepted registry as it was: under it, a pass
\* means the registry that the historical roadmap gives.
HistoryIsKept ==
  Passed /\ AmendmentIsBound("historical", disk.roadmap, disk.policy, disk.deferral) =>
    disk.registry = BuildRegistry([Sources(disk) EXCEPT !.roadmap = "historical"])

\* What no follow-up can mend: products that break the locked totals, a package without its
\* authority.
AuthoredIsCoherent ==
  /\ Counts(disk.classification.records) = LockedCounts
  /\ \A f \in DOMAIN disk.classification.records :
       ProductIsCoherent(disk.classification.records[f].product)
  /\ Sound(disk.classification.records)
  /\ IsReconciled(disk)

\* When neither the author's follow-up nor any generator has anything left to do, every
\* command passes: there is no digest that two of them keep making stale for each other.
Settled(repairs) == \A r \in repairs : disk[r[1]] = r[2]

AtRest ==
  /\ gen = Idle
  /\ Settled(Relocking(disk)) /\ Settled(CatalogRevision(disk))
  /\ Settled(Reclassification(disk)) /\ Settled(Rebinding(disk)) /\ Settled(Advancement(disk))
  /\ \A name \in Generators :
       Texts(disk, name) # <<>> => IsWritten(disk, Texts(disk, name))

RepairsSuffice == AtRest /\ AuthoredIsCoherent => Passed
=============================================================================
