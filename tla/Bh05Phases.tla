------------------------------ MODULE Bh05Phases ------------------------------
(***************************************************************************)
(* The twelve phases of BH-05 as their files state them: each phase has a  *)
(* generator of its authority (generate_bh05_*.py), a validator            *)
(* (validate_bh05_*.py) and a recorder (record_bh05_phase*.py), which      *)
(* differ in the tables below and in little else.  The gates a validator   *)
(* requires and those the recorder executes are two lists, kept by hand.   *)
(*                                                                         *)
(* Authority  inputs     phases whose gates and completion it reads at     *)
(*                       BASE, the commit of the previous phase            *)
(*            exclusive  written with open("x"): never over another file   *)
(* Boundary   changes    earlier phases with files this phase may alter    *)
(*            required   the gates, in their order                         *)
(*            ordered    the order counts                                  *)
(*            shown      gates whose output must show the pinned digests   *)
(*            inherited  what BASE holds must be unchanged, nothing else   *)
(*                       may be new                                        *)
(*            ticks      phases whose checklists may change, relative to   *)
(*                       this one                                          *)
(*            complete   a final verdict asks for its own checklist        *)
(*            authority  the authority must be what its generator gives    *)
(* Recording  executed   the gates, in their order                         *)
(*            exact      replays run in clean checkouts of their commits   *)
(*            confirmed  publication ends with the final verdict           *)
(***************************************************************************)
EXTENDS Naturals, Sequences

AllPhases == 1..12

\* Gates by kind; a replay names the phase it repeats.
Plain(names) == [i \in DOMAIN names |-> <<names[i], 0>>]

\* The replays of the phases from p down to 1.
ReplaysFrom(p) == [i \in 1..p |-> <<"replay", p + 1 - i>>]

-----------------------------------------------------------------------------
\* Phase 1: activation.
Authority1 == [inputs |-> {}, exclusive |-> FALSE]

Boundary1 ==
  [required |->
      Plain(<<"packages", "javascript", "predecessor-acceptance", "predecessor-generator",
      "historical-sweep", "tests", "validator", "generator", "archive", "json", "hygiene">>),
   changes |-> {}, ordered |-> FALSE, shown |-> {},
   inherited |-> TRUE, ticks |-> {"own", "earlier"}, complete |-> FALSE, authority |-> TRUE]

Recording1 ==
  [executed |->
      Plain(<<"packages", "javascript", "predecessor-acceptance", "predecessor-generator",
      "historical-sweep", "tests", "validator", "generator", "archive", "json", "hygiene">>),
   exact |-> TRUE, confirmed |-> TRUE]

-----------------------------------------------------------------------------
\* Phase 2: authoring.
Authority2 == [inputs |-> {1}, exclusive |-> TRUE]

Boundary2 ==
  [required |->
      Plain(<<"packages", "javascript", "compile-fixtures", "subset">>)
    \o ReplaysFrom(1)
    \o Plain(<<"predecessor-replay", "historical-sweep", "tests", "validator", "generator",
      "archive", "json", "hygiene">>),
   changes |-> {}, ordered |-> TRUE, shown |-> {},
   inherited |-> TRUE, ticks |-> {"own", "earlier"}, complete |-> FALSE, authority |-> TRUE]

Recording2 ==
  [executed |->
      Plain(<<"packages", "javascript", "compile-fixtures", "subset">>)
    \o ReplaysFrom(1)
    \o Plain(<<"predecessor-replay", "historical-sweep", "tests", "validator", "generator",
      "archive", "json", "hygiene">>),
   exact |-> TRUE, confirmed |-> TRUE]

-----------------------------------------------------------------------------
\* Phase 3: schema.
Authority3 == [inputs |-> {2}, exclusive |-> TRUE]

Boundary3 ==
  [required |->
      Plain(<<"packages", "javascript", "compile-fixtures", "subset">>)
    \o ReplaysFrom(2)
    \o Plain(<<"predecessor-replay", "historical-sweep", "tests", "validator", "generator",
      "archive", "json", "hygiene">>),
   changes |-> {2}, ordered |-> TRUE, shown |-> {"compile-fixtures", "subset"},
   inherited |-> TRUE, ticks |-> {"own"}, complete |-> FALSE, authority |-> TRUE]

Recording3 ==
  [executed |->
      Plain(<<"packages", "javascript", "compile-fixtures", "subset">>)
    \o ReplaysFrom(2)
    \o Plain(<<"predecessor-replay", "historical-sweep", "tests", "validator", "generator",
      "archive", "json", "hygiene">>),
   exact |-> TRUE, confirmed |-> TRUE]

-----------------------------------------------------------------------------
\* Phase 4: composition.
Authority4 == [inputs |-> {3}, exclusive |-> TRUE]

Boundary4 ==
  [required |->
      Plain(<<"packages", "javascript", "compile-fixtures">>)
    \o ReplaysFrom(3)
    \o Plain(<<"predecessor-replay", "historical-sweep", "tests", "validator", "generator",
      "archive", "json", "hygiene">>),
   changes |-> {}, ordered |-> TRUE, shown |-> {"packages"},
   inherited |-> TRUE, ticks |-> {"own"}, complete |-> FALSE, authority |-> TRUE]

Recording4 ==
  [executed |->
      Plain(<<"packages", "javascript", "compile-fixtures">>)
    \o ReplaysFrom(3)
    \o Plain(<<"predecessor-replay", "historical-sweep", "tests", "validator", "generator",
      "archive", "json", "hygiene">>),
   exact |-> TRUE, confirmed |-> TRUE]

-----------------------------------------------------------------------------
\* Phase 5: nested.
Authority5 == [inputs |-> {4}, exclusive |-> TRUE]

Boundary5 ==
  [required |->
      Plain(<<"packages", "javascript", "compile-fixtures">>)
    \o ReplaysFrom(4)
    \o Plain(<<"predecessor-replay", "historical-sweep", "tests", "validator", "generator",
      "archive", "json", "hygiene">>),
   changes |-> {4}, ordered |-> TRUE, shown |-> {"packages"},
   inherited |-> TRUE, ticks |-> {"own"}, complete |-> FALSE, authority |-> TRUE]

Recording5 ==
  [executed |->
      Plain(<<"packages", "javascript", "compile-fixtures">>)
    \o ReplaysFrom(4)
    \o Plain(<<"predecessor-replay", "historical-sweep", "tests", "validator", "generator",
      "archive", "json", "hygiene">>),
   exact |-> TRUE, confirmed |-> TRUE]

-----------------------------------------------------------------------------
\* Phase 6: roots.
Authority6 == [inputs |-> {5}, exclusive |-> TRUE]

Boundary6 ==
  [required |->
      Plain(<<"packages", "javascript", "compile-fixtures", "subset">>)
    \o ReplaysFrom(5)
    \o Plain(<<"predecessor-replay", "historical-sweep", "tests", "validator", "generator",
      "archive", "json", "hygiene">>),
   changes |-> {4, 5}, ordered |-> TRUE, shown |-> {"packages"},
   inherited |-> TRUE, ticks |-> {"own"}, complete |-> TRUE, authority |-> TRUE]

Recording6 ==
  [executed |->
      Plain(<<"packages", "javascript", "compile-fixtures", "subset">>)
    \o ReplaysFrom(5)
    \o Plain(<<"predecessor-replay", "historical-sweep", "tests", "validator", "generator",
      "archive", "json", "hygiene">>),
   exact |-> TRUE, confirmed |-> TRUE]

-----------------------------------------------------------------------------
\* Phase 7: scheduling.
Authority7 == [inputs |-> {6}, exclusive |-> TRUE]

Boundary7 ==
  [required |->
      Plain(<<"packages", "javascript", "compile-fixtures", "subset">>)
    \o ReplaysFrom(6)
    \o Plain(<<"predecessor-replay", "historical-sweep", "tests", "validator", "generator",
      "archive", "json", "hygiene">>),
   changes |-> {5, 6}, ordered |-> TRUE, shown |-> {"packages"},
   inherited |-> TRUE, ticks |-> {"own"}, complete |-> TRUE, authority |-> TRUE]

\* A copy of the recorder of the phase before.
MutantRecording7 == Recording6

Recording7 ==
  [executed |->
      Plain(<<"packages", "javascript", "compile-fixtures", "subset">>)
    \o ReplaysFrom(6)
    \o Plain(<<"predecessor-replay", "historical-sweep", "tests", "validator", "generator",
      "archive", "json", "hygiene">>),
   exact |-> TRUE, confirmed |-> TRUE]

-----------------------------------------------------------------------------
\* Phase 8: actions.
Authority8 == [inputs |-> {7}, exclusive |-> TRUE]

Boundary8 ==
  [required |->
      Plain(<<"packages", "javascript", "compile-fixtures", "subset">>)
    \o ReplaysFrom(7)
    \o Plain(<<"predecessor-replay", "historical-sweep", "tests", "validator", "generator",
      "archive", "json", "hygiene">>),
   changes |-> {2, 5, 6, 7}, ordered |-> TRUE, shown |-> {"packages"},
   inherited |-> TRUE, ticks |-> {"own"}, complete |-> TRUE, authority |-> TRUE]

Recording8 ==
  [executed |->
      Plain(<<"packages", "javascript", "compile-fixtures", "subset">>)
    \o ReplaysFrom(7)
    \o Plain(<<"predecessor-replay", "historical-sweep", "tests", "validator", "generator",
      "archive", "json", "hygiene">>),
   exact |-> TRUE, confirmed |-> TRUE]

-----------------------------------------------------------------------------
\* Phase 9: scopes.
Authority9 == [inputs |-> {8}, exclusive |-> TRUE]

Boundary9 ==
  [required |->
      Plain(<<"packages", "javascript", "compile-fixtures", "subset">>)
    \o ReplaysFrom(8)
    \o Plain(<<"predecessor-replay", "historical-sweep", "tests", "validator", "generator",
      "archive", "json", "hygiene">>),
   changes |-> {2, 5, 6}, ordered |-> TRUE, shown |-> {"packages"},
   inherited |-> TRUE, ticks |-> {"own"}, complete |-> TRUE, authority |-> TRUE]

Recording9 ==
  [executed |->
      Plain(<<"packages", "javascript", "compile-fixtures", "subset">>)
    \o ReplaysFrom(8)
    \o Plain(<<"predecessor-replay", "historical-sweep", "tests", "validator", "generator",
      "archive", "json", "hygiene">>),
   exact |-> TRUE, confirmed |-> TRUE]

-----------------------------------------------------------------------------
\* Phase 10: recovery.
Authority10 == [inputs |-> {9}, exclusive |-> TRUE]

Boundary10 ==
  [required |->
      Plain(<<"packages", "javascript", "compile-fixtures", "subset">>)
    \o ReplaysFrom(9)
    \o Plain(<<"predecessor-replay", "historical-sweep", "tests", "validator", "generator",
      "archive", "json", "hygiene">>),
   changes |-> {6}, ordered |-> TRUE, shown |-> {"packages"},
   inherited |-> TRUE, ticks |-> {"own"}, complete |-> TRUE, authority |-> TRUE]

Recording10 ==
  [executed |->
      Plain(<<"packages", "javascript", "compile-fixtures", "subset">>)
    \o ReplaysFrom(9)
    \o Plain(<<"predecessor-replay", "historical-sweep", "tests", "validator", "generator",
      "archive", "json", "hygiene">>),
   exact |-> TRUE, confirmed |-> TRUE]

-----------------------------------------------------------------------------
\* Phase 11: conformance.
Authority11 == [inputs |-> {10}, exclusive |-> TRUE]

Boundary11 ==
  [required |->
      Plain(<<"packages", "browser-project", "javascript", "local-repeat",
      "browser-repeat">>)
    \o <<<<"replay", 10>>>>
    \o Plain(<<"historical-sweep", "tests", "generator", "corpus", "validator",
      "archive", "json", "hygiene">>),
   changes |-> {}, ordered |-> TRUE, shown |-> {},
   inherited |-> FALSE, ticks |-> {"own", "earlier", "later"}, complete |-> FALSE, authority |-> TRUE]

Recording11 ==
  [executed |->
      Plain(<<"packages", "browser-project", "javascript", "local-repeat",
      "browser-repeat">>)
    \o <<<<"replay", 10>>>>
    \o Plain(<<"historical-sweep", "tests", "generator", "corpus", "validator",
      "archive", "json", "hygiene">>),
   exact |-> FALSE, confirmed |-> FALSE]

-----------------------------------------------------------------------------
\* Phase 12: acceptance.
Authority12 == [inputs |-> 1..11, exclusive |-> TRUE]

Boundary12 ==
  [required |->
      Plain(<<"packages", "browser-project", "javascript", "count-evidence",
      "cleanup-evidence", "browser-cleanup-repeat">>)
    \o <<<<"replay", 11>>>>
    \o Plain(<<"historical-sweep", "reconciliation", "archive", "json",
      "clean-repeat", "hygiene">>),
   changes |-> {}, ordered |-> TRUE, shown |-> {},
   inherited |-> FALSE, ticks |-> {"own", "earlier", "later"}, complete |-> FALSE, authority |-> FALSE]

Recording12 ==
  [executed |->
      Plain(<<"packages", "browser-project", "javascript", "count-evidence",
      "cleanup-evidence", "browser-cleanup-repeat">>)
    \o <<<<"replay", 11>>>>
    \o Plain(<<"historical-sweep", "reconciliation", "archive", "json",
      "clean-repeat", "hygiene">>),
   exact |-> FALSE, confirmed |-> FALSE]

-----------------------------------------------------------------------------
AuthorityOf == <<Authority1, Authority2, Authority3, Authority4, Authority5, Authority6, 
  Authority7, Authority8, Authority9, Authority10, Authority11, Authority12>>

BoundaryOf == <<Boundary1, Boundary2, Boundary3, Boundary4, Boundary5, Boundary6, 
  Boundary7, Boundary8, Boundary9, Boundary10, Boundary11, Boundary12>>

RecordingOf == <<Recording1, Recording2, Recording3, Recording4, Recording5, Recording6, 
  Recording7, Recording8, Recording9, Recording10, Recording11, Recording12>>
=============================================================================
