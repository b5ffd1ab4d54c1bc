----------------------------- MODULE EvidenceChain -----------------------------
(***************************************************************************)
(* The evidence of BH-01 Phases 9 and 10: raw measurements are summarised, *)
(* analysed and held against budgets; two clean rebuilds reproduce those   *)
(* reports; their comparison, the closure of the ledgers, the review, the  *)
(* baseline and the decision follow from one another.  Each step is a      *)
(* program that loads its inputs, builds its outputs and writes them one   *)
(* by one; two gates regenerate everything and compare.  All of them work  *)
(* on one tree of files that others edit meanwhile.                        *)
(*                                                                         *)
(* The two pages, and the eight views, are one file each.  Of the digests  *)
(* that the hand-written completion record holds, those of files kept here *)
(* are there.                                                              *)
(* A measurement made again is one of another revision.                    *)
(***************************************************************************)
EXTENDS Naturals, Sequences

CONSTANTS
  Edited,         \* the files that are measured again or edited
  MaxEdits,       \* how often
  MaxStops,       \* programs that stop half way
  MaxJumps        \* programs taken out of the order of the phases

VARIABLES disk,     \* what each file holds
          job,      \* the program at work
          passed,   \* the gates that passed since the last change
          sweep,    \* the steps taken in order, without a change by others
          last,     \* the program taken last
          edits, stops, jumps

chainVars == <<disk, job, passed, sweep, last, edits, stops, jumps>>

Raw == {"browsers", "artifacts", "reruns", "deferrals", "ledger", "findings",
        "toolchain", "authorization"}

\* The files a file is built from.  Its content is known by theirs: a digest
\* of a file, or what a program read from it, tells contents apart.
SummaryInputs == <<"browsers", "artifacts">>
EconomicsInputs == <<"summary", "artifacts">>
MitigationsInputs == <<"economics", "artifacts">>
BudgetsInputs == <<"summary", "economics", "mitigations", "deferrals">>
StopInputs == <<"budgets", "deferrals">>
RerunInputs == <<"browsers", "reruns">>
CleanInputs == <<"summary", "economics", "mitigations", "budgets", "stop", "rerun", "toolchain">>
ComparisonInputs == <<"cleanA", "cleanB">>
ClosureInputs == <<"ledger", "findings", "stop", "rerun">>
ReviewInputs == <<"closure">>
BaselineInputs ==
  <<"ledger", "closure", "review", "cleanA", "cleanB", "comparison", "toolchain",
    "summary", "economics", "budgets", "stop", "deferrals", "rerun">>
ViewsInputs == <<"baseline">>
DecisionInputs == <<"baseline", "review", "authorization">>
EntryInputs == <<"decision", "baseline">>
PagesInputs == <<"decision", "entry">>
CompletionInputs ==
  <<"cleanA", "cleanB", "comparison", "closure", "review", "baseline", "decision", "entry">>

Inputs ==
  [summary |-> SummaryInputs, economics |-> EconomicsInputs, mitigations |-> MitigationsInputs,
   budgets |-> BudgetsInputs, stop |-> StopInputs, rerun |-> RerunInputs,
   cleanA |-> CleanInputs, cleanB |-> CleanInputs, comparison |-> ComparisonInputs,
   closure |-> ClosureInputs, review |-> ReviewInputs, baseline |-> BaselineInputs,
   views |-> ViewsInputs, decision |-> DecisionInputs, entry |-> EntryInputs,
   pages |-> PagesInputs, completion |-> CompletionInputs]

Derived == DOMAIN Inputs
Reports == {"summary", "economics", "mitigations", "budgets", "stop", "rerun"}
Clean == {"cleanA", "cleanB"}

Built(f, d) == <<f, [i \in DOMAIN Inputs[f] |-> d[Inputs[f][i]]]>>
ByHand(f) == <<f, <<>>>>

\* The programs in the order of the phases, with what each writes, in order.
Outputs ==
  << <<"summary">>, <<"economics", "mitigations">>, <<"budgets", "stop">>, <<"rerun">>,
     <<"cleanA">>, <<"cleanB">>, <<"comparison">>, <<"closure">>, <<"review">>,
     <<"baseline", "views">>, <<"decision", "entry", "pages">>, <<"completion">> >>
Programs == DOMAIN Outputs

\* The files fs built one after the other over the files d.
BuiltInTurn(fs, d) ==
  LET over[k \in 0..Len(fs)] ==
        IF k = 0 THEN d ELSE [over[k - 1] EXCEPT ![fs[k]] = Built(fs[k], over[k - 1])]
  IN over[Len(fs)]

\* As it was committed: everything follows from the first measurements.
Committed ==
  LET after[p \in 0..Len(Outputs)] ==
        IF p = 0 THEN [f \in Raw \cup Derived |-> IF f \in Raw THEN <<f, 0>> ELSE ByHand(f)]
        ELSE BuiltInTurn(Outputs[p], after[p - 1])
  IN after[Len(Outputs)]

None == [program |-> 0]

ChainInit ==
  /\ disk = Committed
  /\ job = None
  /\ passed = {} /\ sweep = 0 /\ last = 0
  /\ edits = 0 /\ stops = 0 /\ jumps = 0

IsFresh(f) == disk[f] = Built(f, disk)
AgreeIn(d) == d["cleanA"][2] = d["cleanB"][2]

\* A file changes: no verdict stands.
Put(f, content) ==
  /\ disk' = [disk EXCEPT ![f] = content]
  /\ passed' = {}

-----------------------------------------------------------------------------
(* The programs.                                                           *)
\* Summaries are of measurements of one revision (all measurements here are of
\* one profile); a rebuild fails when a report regenerated from its archive
\* differs from the one in it.
IsAccepted(p) ==
  /\ Outputs[p] = <<"summary">> => disk["browsers"][2] = disk["artifacts"][2]
  /\ Outputs[p] \in {<<"cleanA">>, <<"cleanB">>} => \A r \in Reports : IsFresh(r)

Written(p) == {Outputs[p][i] : i \in DOMAIN Outputs[p]}

MutantImage(p) == [f \in Written(p) |-> Built(f, disk)]

\* What the program builds in memory from the files it loads.
Image(p) == LET whole == BuiltInTurn(Outputs[p], disk) IN [f \in Written(p) |-> whole[f]]

\* What validate/1 holds the new record against, as the files are by then: the
\* digests that the review, the baseline and the decision quote, and the entries
\* and owners of the ledger for its closure.
ClosureBinds == {"ledger"}
ReviewBinds == {"closure"}
BaselineBinds == {BaselineInputs[i] : i \in DOMAIN BaselineInputs}
DecisionBinds == {"baseline", "review", "authorization"}

Binds == [closure |-> ClosureBinds, review |-> ReviewBinds, baseline |-> BaselineBinds,
          decision |-> DecisionBinds]

Load(p) ==
  /\ job = None /\ IsAccepted(p)
  /\ \/ p = last + 1 /\ UNCHANGED jumps
     \/ p # last + 1 /\ jumps < MaxJumps /\ jumps' = jumps + 1
  /\ last' = p
  /\ job' = [program |-> p, image |-> Image(p), left |-> Outputs[p], quiet |-> TRUE,
             valid |-> Outputs[p][1] \notin DOMAIN Binds]
  /\ UNCHANGED <<disk, passed, sweep, edits, stops>>

IsBound(f) ==
  \A i \in DOMAIN Inputs[f] : Inputs[f][i] \in Binds[f] => job.image[f][2][i] = disk[Inputs[f][i]]

\* On an error the program ends and has written nothing.  A ledger that changed
\* may still have the same entries and owners.
Validate ==
  /\ job # None /\ ~ job.valid
  /\ \/ /\ IsBound(Head(job.left)) \/ Head(job.left) = "closure"
        /\ job' = [job EXCEPT !.valid = TRUE] /\ UNCHANGED sweep
     \/ /\ ~ IsBound(Head(job.left))
        /\ job' = None /\ sweep' = 0
  /\ UNCHANGED <<disk, passed, last, edits, stops, jumps>>

\* The second outputs of Phase 9 take digests of files as they are by then.
Reread == [mitigations |-> {"economics"}, stop |-> {"budgets", "deferrals"}]

ContentOf(f) ==
  IF f \notin DOMAIN Reread THEN job.image[f]
  ELSE <<f, [i \in DOMAIN Inputs[f] |->
              IF Inputs[f][i] \in Reread[f] THEN disk[Inputs[f][i]] ELSE job.image[f][2][i]]>>

Swept == IF job.quiet /\ job.program \in {1, sweep + 1} THEN job.program ELSE 0

Write ==
  /\ job # None /\ job.valid
  /\ Put(Head(job.left), ContentOf(Head(job.left)))
  /\ IF Len(job.left) = 1
     THEN job' = None /\ sweep' = Swept
     ELSE job' = [job EXCEPT !.left = Tail(@)] /\ UNCHANGED sweep
  /\ UNCHANGED <<last, edits, stops, jumps>>

\* A program is interrupted before a write.
Stop ==
  /\ job # None /\ stops < MaxStops
  /\ stops' = stops + 1
  /\ job' = None /\ sweep' = 0
  /\ UNCHANGED <<disk, passed, last, edits, jumps>>

-----------------------------------------------------------------------------
(* The others.                                                             *)
\* Raw files get another version; a derived one is edited or damaged.
Edit(f) ==
  /\ edits < MaxEdits
  /\ edits' = edits + 1
  /\ Put(f, IF f \in Raw THEN <<f, disk[f][2] + 1>> ELSE ByHand(f))
  /\ job' = IF job = None THEN job ELSE [job EXCEPT !.quiet = FALSE]
  /\ sweep' = 0
  /\ UNCHANGED <<last, stops, jumps>>

-----------------------------------------------------------------------------
(* The gates.                                                              *)
\* verify_phase9.py regenerates each report from the retained ones.
Checks9 == <<"summary", "economics", "mitigations", "budgets", "stop", "rerun">>

MutantChecks10 == <<"comparison", "review", "baseline", "views", "decision", "entry",
                    "pages", "completion">>

\* verify_phase10.py regenerates the package from the files and compares it
\* with the records it loaded first; pages and views it reads when it compares.
Checks10 == <<"comparison", "closure", "review", "baseline", "views", "decision", "entry",
              "pages", "completion">>
Gates == {"phase9", "phase10"}
Checks(name) == IF name = "phase9" THEN Checks9 ELSE Checks10

\* The records that are built in memory from the ones before, not from the files.
Expected(f) ==
  IF f \in {"views", "entry", "pages"}
  THEN BuiltInTurn(<<"baseline", "views", "decision", "entry", "pages">>, disk)[f]
  ELSE Built(f, disk)

Passes(name) ==
  /\ \A i \in DOMAIN Checks(name) : disk[Checks(name)[i]] = Expected(Checks(name)[i])
  /\ name = "phase10" => AgreeIn(disk)

\* A gate runs over files that nobody changes; what it says of others is not used.
Gate(name) ==
  /\ job = None /\ Passes(name)
  /\ passed' = passed \cup {name}
  /\ UNCHANGED <<disk, job, sweep, last, edits, stops, jumps>>

ChainNext ==
  \/ \E p \in Programs : Load(p)
  \/ Validate \/ Write \/ Stop
  \/ \E f \in Edited : Edit(f)
  \/ \E name \in Gates : Gate(name)

ChainSpec == ChainInit /\ [][ChainNext]_chainVars

-----------------------------------------------------------------------------
\* When both gates passed over files that nobody changed meanwhile or since,
\* everything follows from the measurements as they are, and the rebuilds agree
\* (main/0 of verify_phase9.py and verify_phase10.py).
GatesMeanFresh ==
  passed = Gates =>
    (\A f \in Derived \ Clean : IsFresh(f)) /\ AgreeIn(disk)

\* Whatever was edited or half written before, taking every program once, in the
\* order of the phases, leaves nothing stale: no file depends on a later one,
\* and none takes the digest of a file that its own program is about to replace.
OneSweepRepairs == sweep = Len(Outputs) => \A f \in Derived : IsFresh(f)
=============================================================================
