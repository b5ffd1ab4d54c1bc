------------------------------ MODULE PhaseGates ------------------------------
(***************************************************************************)
(* How a phase of BH-05 is accepted.  The author works in one tree on top  *)
(* of BASE, the commit of the phase before.  The recorder takes the        *)
(* digests of the sources, executes the gates one by one, takes the        *)
(* digests again and leaves the record in a directory outside; publication *)
(* copies it into the tree and completes the phase; the validator judges   *)
(* the tree, --final with the published evidence.  All of them read the    *)
(* tree while the author may edit it.  A digest is the value it is of.     *)
(***************************************************************************)
EXTENDS Bh05Phases, FiniteSets

CONSTANTS
  Nothing,        \* no such file, no record
  Firsts,         \* phases the exploration starts at; it ends with the next one
  Qualities,      \* of a source: "good", "drifted" (passes, other digests), "broken"
  MaxTrouble      \* edits, failed gates and interrupted programs, in each phase

GatesAssumption ==
  /\ Nothing \notin {"bound", "expanded"}
  /\ Firsts \subseteq AllPhases \ {12}
  /\ "good" \in Qualities
  /\ MaxTrouble \in Nat
ASSUME GatesAssumption

VARIABLES phase,      \* the phase at work
          last,       \* the last phase of this exploration
          accepted,   \* phases whose commit has the final verdict
          published,  \* phases whose commit has gates and completion
          tree,       \* the working tree
          log,        \* the recorder's execution.json
          recorder,   \* "idle" or "running"
          publisher,  \* "idle", "passed", "half" or "written"
          trouble     \* so far in this phase

gateVars == <<phase, last, accepted, published, tree, log, recorder, publisher, trouble>>

Earlier == 1..(phase - 1)
Boundary == BoundaryOf[phase]
Recording == RecordingOf[phase]

Content(version, quality) == [version |-> version, quality |-> quality]
AsCommitted == Content(0, "good")

\* The tree at BASE: of this phase only sources that no index lists yet.
Base(p) ==
  [own |-> AsCommitted,                          \* the phase's files
   shared |-> [q \in 1..(p - 1) |-> AsCommitted], \* earlier files that a later phase may alter
   rest |-> AsCommitted,                         \* the other files of earlier phases
   evidence |-> 0,                               \* gates, completion and authority of earlier phases
   stray |-> 0,                                  \* a file that no phase announced
   ticks |-> {}, authority |-> Nothing, index |-> Nothing, gates |-> Nothing, done |-> Nothing]

-----------------------------------------------------------------------------
(* The validator.                                                          *)
\* The sources that a run of the gates stands for.
Sources(t) ==
  <<t.own, t.shared, t.rest, t.stray, t.authority, t.index,
    IF phase = 12 THEN t.evidence ELSE 0>>

\* The index lists the digests of the phase's own files and of those it altered.
Inventory(t) == <<t.own, [q \in Boundary.changes |-> t.shared[q]]>>

\* What BASE holds is as it was, but for the files the phase may alter.
IsInherited(t) ==
  /\ \A q \in Earlier \ Boundary.changes : t.shared[q] = AsCommitted
  /\ t.rest = AsCommitted /\ t.evidence = 0 /\ t.stray = 0

TreeValidates(t) ==
  /\ Boundary.authority => t.authority = "bound"
  /\ Boundary.inherited => IsInherited(t)
  /\ t.ticks \subseteq Boundary.ticks
  /\ t.index = Inventory(t)

Names(rows) == [i \in DOMAIN rows |-> rows[i].gate]

SameGates(names, required) ==
  IF Boundary.ordered THEN names = required
  ELSE Len(names) = Len(required)
       /\ {names[i] : i \in DOMAIN names} = {required[i] : i \in DOMAIN required}

\* A row was not executed on the sources before the last.
GatesPassUnhashed(record, sources) ==
  /\ record # Nothing
  /\ record.end = sources
  /\ SameGates(Names(record.rows), Boundary.required)
  /\ \A i \in DOMAIN record.rows : record.rows[i].ok
  /\ \A i \in DOMAIN record.rows :
       record.rows[i].gate[1] \in Boundary.shown => record.rows[i].shows

\* gate_errors is empty: the sources were these before and after, every gate was executed and
\* passed, and the pinned digests are in the output.
GatesPass(record, sources) ==
  /\ record # Nothing
  /\ record.start = sources /\ record.end = sources
  /\ SameGates(Names(record.rows), Boundary.required)
  /\ \A i \in DOMAIN record.rows : record.rows[i].ok
  /\ \A i \in DOMAIN record.rows :
       record.rows[i].gate[1] \in Boundary.shown => record.rows[i].shows

Completion(t) == <<t.authority, t.index, t.gates>>

Final(t) ==
  /\ TreeValidates(t)
  /\ GatesPass(t.gates, Sources(t))
  /\ t.done = Completion(t)
  /\ Boundary.complete => "own" \in t.ticks

-----------------------------------------------------------------------------
(* The author.                                                             *)
Spend == trouble < MaxTrouble /\ trouble' = trouble + 1

Fresh == trouble + 1

\* An edit makes a version there never was before.
EditTree ==
  /\ Spend
  /\ \/ \E k \in Qualities : tree' = [tree EXCEPT !.own = Content(Fresh, k)]
     \/ \E k \in Qualities \ {"drifted"}, q \in Boundary.changes \cup {phase - 1} :
          q \in Earlier /\ tree' = [tree EXCEPT !.shared[q] = Content(Fresh, k)]
     \/ Earlier # {} /\ tree' = [tree EXCEPT !.rest = Content(Fresh, "good")]
     \/ Earlier # {} /\ tree' = [tree EXCEPT !.evidence = Fresh]
     \/ tree' = [tree EXCEPT !.stray = Fresh]
     \/ \E k \in {"earlier", "later"} :
          k \notin tree.ticks /\ tree' = [tree EXCEPT !.ticks = @ \cup {k}]
     \/ tree.authority = "bound" /\ tree' = [tree EXCEPT !.authority = "expanded"]
     \/ <<tree.gates, tree.done>> # <<Nothing, Nothing>>
          /\ tree' = [tree EXCEPT !.gates = Nothing, !.done = Nothing]
  /\ UNCHANGED <<phase, last, accepted, published, log, recorder, publisher>>

\* The generator of the authority reads the earlier evidence at BASE.
GenerateAuthority ==
  /\ AuthorityOf[phase].inputs \subseteq published
  /\ AuthorityOf[phase].exclusive => tree.authority = Nothing
  /\ tree.authority # "bound"
  /\ tree' = [tree EXCEPT !.authority = "bound"]
  /\ UNCHANGED <<phase, last, accepted, published, log, recorder, publisher, trouble>>

\* The author goes on with index and checklist between the runs; a change of either kind during
\* a run is among the edits.
GenerateIndex ==
  /\ recorder = "idle" /\ publisher = "idle"
  /\ tree.index # Inventory(tree)
  /\ tree' = [tree EXCEPT !.index = Inventory(tree)]
  /\ UNCHANGED <<phase, last, accepted, published, log, recorder, publisher, trouble>>

Tick ==
  /\ recorder = "idle" /\ publisher = "idle"
  /\ "own" \notin tree.ticks
  /\ tree' = [tree EXCEPT !.ticks = @ \cup {"own"}]
  /\ UNCHANGED <<phase, last, accepted, published, log, recorder, publisher, trouble>>

-----------------------------------------------------------------------------
(* The recorder.                                                           *)
\* The replay checkouts are the commits themselves or trees that were mended to pass.  A run on
\* a tree that has its gates already could not be published.
StartRun ==
  /\ recorder = "idle" /\ publisher = "idle" /\ tree.gates = Nothing
  /\ tree.authority = Nothing => phase = 12     \* sources reads it, the last phase's lists what there is
  /\ \E checkouts \in {"exact", "mended"} :
       /\ Recording.exact => checkouts = "exact"
       /\ log' = [start |-> Sources(tree), rows |-> <<>>, end |-> <<>>,
                  checkouts |-> checkouts, seen |-> {}]   \* seen: a history of the sources gates ran on
  /\ recorder' = "running"
  /\ UNCHANGED <<phase, last, accepted, published, tree, publisher, trouble>>

\* The sources pass their tests.
Works(t) == "broken" \notin {t.own.quality, t.rest.quality} \cup {t.shared[q].quality : q \in Earlier}

\* A replay without the final verdict.
PassesUnfinal(gate, t) ==
  CASE gate[1] = "replay" -> log.checkouts = "mended" \/ gate[2] \in published
    [] gate[1] = "validator" -> TreeValidates(t)
    [] gate[1] = "generator" -> t.authority = "bound"
    [] OTHER -> Works(t)

\* What a gate finds: a replay repeats the final verdict in its checkout.
Passes(gate, t) ==
  CASE gate[1] = "replay" -> log.checkouts = "mended" \/ gate[2] \in accepted
    [] gate[1] = "validator" -> TreeValidates(t)
    [] gate[1] = "generator" -> t.authority = "bound"
    [] OTHER -> Works(t)

\* The next gate; one that fails, or has no answer in time, does not stop the others.
RunGate ==
  /\ recorder = "running" /\ Len(log.rows) < Len(Recording.executed)
  /\ LET gate == Recording.executed[Len(log.rows) + 1]
     IN \E ok \in {Passes(gate, tree), FALSE} :
          /\ IF ok = Passes(gate, tree) THEN UNCHANGED trouble ELSE Spend
          /\ log' = [log EXCEPT
               !.rows = Append(@, [gate |-> gate, ok |-> ok,
                                   shows |-> gate[1] \in Boundary.shown
                                              => ok /\ tree.own.quality = "good"]),
               !.seen = @ \cup {Sources(tree)}]
  /\ UNCHANGED <<phase, last, accepted, published, tree, recorder, publisher>>

EndRun ==
  /\ recorder = "running" /\ Len(log.rows) = Len(Recording.executed)
  /\ log' = [log EXCEPT !.end = Sources(tree)]
  /\ recorder' = "idle"
  /\ UNCHANGED <<phase, last, accepted, published, tree, publisher, trouble>>

InterruptRun ==
  /\ recorder = "running" /\ Spend
  /\ recorder' = "idle"
  /\ UNCHANGED <<phase, last, accepted, published, tree, log, publisher>>

-----------------------------------------------------------------------------
(* Publication: judge, write the gates, write the completion, judge again. *)
\* Each file is created exclusively, so that publication stops at one that is there.
BeginPublish ==
  /\ publisher = "idle" /\ recorder = "idle"
  /\ TreeValidates(tree) /\ GatesPass(log, Sources(tree))
  /\ publisher' = "passed"
  /\ UNCHANGED <<phase, last, accepted, published, tree, log, recorder, trouble>>

WriteGates ==
  /\ publisher = "passed"
  /\ IF tree.gates # Nothing THEN publisher' = "idle" /\ UNCHANGED tree
     ELSE publisher' = "half" /\ tree' = [tree EXCEPT !.gates = log]
  /\ UNCHANGED <<phase, last, accepted, published, log, recorder, trouble>>

WriteCompletion ==
  /\ publisher = "half"
  /\ IF tree.done # Nothing THEN publisher' = "idle" /\ UNCHANGED tree
     ELSE publisher' = "written" /\ tree' = [tree EXCEPT !.done = Completion(tree)]
  /\ UNCHANGED <<phase, last, accepted, published, log, recorder, trouble>>

\* The final verdict raises an error or announces the next phase; the files stay.
EndPublish ==
  /\ publisher = "written" /\ publisher' = "idle"
  /\ UNCHANGED <<phase, last, accepted, published, tree, log, recorder, trouble>>

InterruptPublish ==
  /\ publisher # "idle" /\ Spend
  /\ publisher' = "idle"
  /\ UNCHANGED <<phase, last, accepted, published, tree, log, recorder>>

\* The author merges; nothing in the tools asks for the final verdict first.
Merge ==
  /\ phase < last /\ recorder = "idle" /\ publisher = "idle"
  /\ accepted' = IF Final(tree) THEN accepted \cup {phase} ELSE accepted
  /\ published' = IF Nothing \in {tree.gates, tree.done} THEN published ELSE published \cup {phase}
  /\ phase' = phase + 1 /\ tree' = Base(phase + 1)
  /\ log' = Nothing /\ trouble' = 0
  /\ UNCHANGED <<last, recorder, publisher>>

GatesInit ==
  /\ phase \in Firsts /\ last = phase + 1
  /\ accepted = 1..(phase - 1) /\ published = 1..(phase - 1)
  /\ tree = Base(phase)
  /\ log = Nothing /\ recorder = "idle" /\ publisher = "idle" /\ trouble = 0

GatesNext ==
  \/ EditTree \/ GenerateAuthority \/ GenerateIndex \/ Tick
  \/ StartRun \/ RunGate \/ EndRun \/ InterruptRun
  \/ BeginPublish \/ WriteGates \/ WriteCompletion \/ EndPublish \/ InterruptPublish
  \/ Merge

GatesSpec == GatesInit /\ [][GatesNext]_gateVars

-----------------------------------------------------------------------------
\* The final verdict stands for an execution of every gate on exactly the sources it judges,
\* though all that is recorded of them is their digests before and after.  It takes that no
\* source returns to what it was; an authority that is never rewritten does not.
AcceptedWasPassed ==
  Final(tree) =>
    /\ AuthorityOf[phase].exclusive => tree.gates.seen = {Sources(tree)}
    /\ \A i \in DOMAIN Boundary.required :
         \E j \in DOMAIN tree.gates.rows :
           tree.gates.rows[j].gate = Boundary.required[i] /\ tree.gates.rows[j].ok

\* The record is source-frozen in every phase, as record_bh05_phase1.py says of its own: no gate
\* ran on other sources than those of the final verdict.
SourceFrozen == Final(tree) => tree.gates.seen = {Sources(tree)}

\* Acceptance is a chain: where the recorder verifies its replay checkouts, no phase has the
\* final verdict on top of one that lacks it, whatever was merged on the way.
EarlierAreAccepted == Final(tree) /\ Recording.exact => Earlier \subseteq accepted

\* A run in which every gate passed on a tree that did not change is one that the validator
\* takes: the recorder executes what the validator requires, in that order.
CleanRunIsTaken ==
  (/\ log # Nothing /\ recorder = "idle"
   /\ log.start = Sources(tree) /\ log.end = Sources(tree)
   /\ \A i \in DOMAIN log.rows : log.rows[i].ok
   /\ tree.own.quality = "good")
  => GatesPass(log, Sources(tree))
=============================================================================
