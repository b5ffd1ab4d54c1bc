---------------------------- MODULE PhaseRecords ----------------------------
(***************************************************************************)
(* The gates of BH-01: validate_bh01_activation.py for Phase 1 and         *)
(* verify_phase2.py ... verify_phase9.py.  An accepted phase leaves a      *)
(* completion record: the revision it was measured at and the digests of   *)
(* the files it rests on.  A gate holds a record against the files of the  *)
(* working tree and against what git still knows of them, so what a later  *)
(* edit, commit or rewritten history does to an accepted phase depends on  *)
(* which versions its gate looks up: the present file, the file at the     *)
(* recorded revision, or every version on the branch.                      *)
(*                                                                         *)
(* The wording of a milestone's row is its state; which of several         *)
(* wordings Phases 4, 6 and 7 accept is not told apart.  The gates' checks *)
(* of the activated repository and the verifiers they call are left out:   *)
(* without them a gate passes more often.                                  *)
(*                                                                         *)
(* A digest is the contents it is taken of.  The history is linear and     *)
(* files are never removed.                                                *)
(***************************************************************************)
EXTENDS Naturals, Sequences, SequencesExt

CONSTANTS
    Files,        \* the paths that completion records name
    Contents,     \* what a file may hold
    Sound,        \* the contents that a gate's checks of evidence accept
    Bound,        \* Bound[p]: the paths in the hashes of phase p's record
    Evidence,     \* Evidence[p]: the browser evidence that p's gate reads
    Inherited,    \* the BH-00 files that Phase 1's authorization locks
    Governed,     \* Governed[f]: the contents of a BH-00 source that its binding admits
    Activated,    \* the ledger and the rules of evidence that Phase 1 set up
    Matrix,       \* the matrix and raw evidence listed in Phase 8's reports
    MaxCommits,   \* bound on the commits ever made
    MaxEdits      \* bound on the edits of files

Phases == 1..9

RecordsAssumption ==
    /\ Sound \subseteq Contents
    /\ Bound \in [Phases -> SUBSET Files]
    /\ Evidence \in [Phases -> Files]
    /\ Inherited \subseteq Files
    /\ DOMAIN Governed \subseteq Files
    /\ Activated \subseteq Files
    /\ Matrix \subseteq Files
    /\ MaxCommits \in Nat \ {0}
    /\ MaxEdits \in Nat
ASSUME RecordsAssumption

VARIABLES
    work,         \* the files of the working tree
    objects,      \* the trees of all commits ever made, on the branch or off
    branch,       \* the commits from the root to HEAD
    record,       \* the completion record of each phase
    activation,   \* the base revision and digests in Phase 1's authorization
    listed,       \* the digests in Phase 8's matrix report and aggregate
    approved,     \* the phases whose authorization file approves them
    open,         \* the phases whose plan still has an open item
    row,          \* the state of each row of the milestone's table
    edits         \* how often a file was edited

vars == <<work, objects, branch, record, activation, listed, approved, open, row, edits>>

HEAD == Last(branch)
Tree == [Files -> Contents]
None == [revision |-> 0]
\* A digest of some paths, taken at a commit that was made.
Bindings ==
    [revision : 1..Len(objects), digest : UNION {[paths -> Contents] : paths \in SUBSET Files}]
BindingOf(paths, revision) ==
    [revision |-> revision, digest |-> [f \in paths |-> work[f]]]
RowStates == {"planned", "eligible", "progress", "complete"}

OnBranch == Range(branch)
Clean == work = objects[HEAD]

-----------------------------------------------------------------------------
(* What a gate accepts of a path. *)

Current(f) == {work[f]}

\* git show <revision>:<path> reads any commit that git still holds.
AtRevision(r, f) == {objects[r][f]}

\* The versions in git log -- <path>.
Logged(f) == {objects[c][f] : c \in OnBranch}

\* Mutant: the later gates look at the recorded revision, as those before do.
MutantAccepted(p, f) ==
    Current(f)
        \cup (IF p \notin {1, 3} THEN AtRevision(record[p].revision, f) ELSE {})

\* inputs() of Phases 2, 4 and 5, which look up the recorded revision, and of
\* Phases 7 to 9, which look through the log.
AcceptedAtRevision(p, f) == Current(f) \cup AtRevision(record[p].revision, f)
AcceptedFromLog(f) == Current(f) \cup Logged(f)

\* The digests that phase p's gate accepts for path f: Phase 6 looks at both.
Accepted(p, f) ==
    CASE p \in {2, 4, 5} -> AcceptedAtRevision(p, f)
      [] p = 6 -> AcceptedAtRevision(p, f) \cup AcceptedFromLog(f)
      [] p \in 7..9 -> AcceptedFromLog(f)
      [] OTHER -> Current(f)

HashesHold(p) ==
    /\ record[p] # None
    /\ \A f \in Bound[p] : record[p].digest[f] \in Accepted(p, f)

\* Mutant: the revision need only exist (git cat-file -e).
MutantIsAncestor(p) == record[p].revision \in DOMAIN objects

\* git merge-base --is-ancestor <source_revision> HEAD
IsAncestor(p) == record[p].revision \in OnBranch

\* What every gate asks of the record of its phase.
RecordHolds(p) == HashesHold(p) /\ IsAncestor(p) /\ p \notin open

\* Work descends from the revision at which Phase 1 was authorized, and what it
\* inherits is as it was then.
ActivationHolds ==
    /\ activation # None
    /\ activation.revision \in OnBranch
    /\ \A f \in Inherited : activation.digest[f] = work[f]

\* A source is what BH-00 was accepted with; the roadmap may be the amendment
\* that the policy names.
SourcesHold == \A f \in DOMAIN Governed : work[f] \in Governed[f]

\* The ledger has what BH-00 asked for and claims no result, and the rules of
\* evidence cover every type, state and owner.
LedgerHolds == \A f \in Activated : work[f] \in Sound

\* The milestone's row of the phase is closed, and that of the next is one of these.
RowsHold(p, following) == row[p] = "complete" /\ row[p + 1] \in following

\* What the browser evidence says, with its digest of itself.
EvidenceHolds(p) == work[Evidence[p]] \in Sound

\* Phase 8 holds what its reports list against the files as they are.
ListingsHold == \A f \in Matrix : listed[f] = work[f]

\* validate() of the nine gates.  Phase 2's looks for its phrases anywhere in
\* the milestone; Phases 4 and 5 read no authorization.
Validates1 ==
    RecordHolds(1) /\ 1 \in approved /\ ActivationHolds /\ SourcesHold /\ LedgerHolds

Validates2 == RecordHolds(2) /\ 2 \in approved /\ \E q \in Phases : row[q] = "complete"

Validates3 == RecordHolds(3) /\ 3 \in approved /\ RowsHold(3, {"eligible", "complete"})

Validates4 ==
    RecordHolds(4) /\ EvidenceHolds(4) /\ RowsHold(4, {"planned", "eligible", "complete"})

Validates5 == RecordHolds(5) /\ EvidenceHolds(5) /\ RowsHold(5, {"eligible", "complete"})

Validates6 ==
    /\ RecordHolds(6) /\ 6 \in approved /\ EvidenceHolds(6)
    /\ RowsHold(6, {"planned", "eligible", "complete"})

Validates7 ==
    /\ RecordHolds(7) /\ 7 \in approved /\ EvidenceHolds(7)
    /\ RowsHold(7, {"eligible", "complete"})

Validates8 ==
    /\ RecordHolds(8) /\ 8 \in approved /\ EvidenceHolds(8) /\ ListingsHold
    /\ RowsHold(8, {"eligible", "complete"})

Validates9 == RecordHolds(9) /\ 9 \in approved /\ RowsHold(9, {"eligible", "complete"})

Validates(p) ==
    \/ p = 1 /\ Validates1
    \/ p = 2 /\ Validates2
    \/ p = 3 /\ Validates3
    \/ p = 4 /\ Validates4
    \/ p = 5 /\ Validates5
    \/ p = 6 /\ Validates6
    \/ p = 7 /\ Validates7
    \/ p = 8 /\ Validates8
    \/ p = 9 /\ Validates9

\* The gates that main() of a gate runs: Phase 2's runs only the checks of its
\* toolchain, those of Phases 3 to 5 the one before and Phase 1's, the later
\* ones the one before.
RunWithActivation(p) == {1, p - 1}
RunBefore(p) == {p - 1}

Commands(p) ==
    CASE p \in 1..2 -> {}
      [] p \in 3..5 -> RunWithActivation(p)
      [] OTHER -> RunBefore(p)

RunBy[p \in Phases] == {p} \cup UNION {RunBy[q] : q \in Commands(p)}

Gate(p) == \A q \in RunBy[p] : Validates(q)

-----------------------------------------------------------------------------
Init ==
    \E tree \in Tree :
        /\ work = tree
        /\ objects = <<tree>>
        /\ branch = <<1>>
        /\ record = [p \in Phases |-> None]
        /\ activation = None
        /\ listed = tree
        /\ approved = {}
        /\ open = Phases
        /\ row = [p \in 1..10 |-> IF p = 1 THEN "eligible" ELSE "planned"]
        /\ edits = 0

Edit(f, c) ==
    /\ edits < MaxEdits
    /\ c # work[f]
    /\ work' = [work EXCEPT ![f] = c]
    /\ edits' = edits + 1
    /\ UNCHANGED <<objects, branch, record, activation, listed, approved, open, row>>

NewCommit(base) ==
    /\ ~Clean
    /\ Len(objects) < MaxCommits
    /\ objects' = Append(objects, work)
    /\ branch' = Append(base, Len(objects'))
    /\ UNCHANGED <<work, record, activation, listed, approved, open, row, edits>>

Commit == NewCommit(branch)

\* HEAD is rewritten: the old commit is an ancestor of nothing.
Amend == NewCommit(Front(branch))

\* The repository owner approves a phase; the table may say so.
Authorize(p) ==
    /\ p \notin approved
    /\ row[p] = "eligible"
    /\ approved' = approved \cup {p}
    /\ \E state \in {"eligible", "progress"} : row' = [row EXCEPT ![p] = state]
    /\ activation' = IF p = 1 THEN BindingOf(Inherited, HEAD) ELSE activation
    /\ UNCHANGED <<work, objects, branch, record, listed, open, edits>>

\* A phase is completed: its record names HEAD and the files as they are, its
\* row is closed and the next row opened.  Phase 8 writes its reports.
Complete(p) ==
    /\ p \in approved
    /\ record[p] = None
    /\ record' = [record EXCEPT ![p] = BindingOf(Bound[p], HEAD)]
    /\ listed' = IF p = 8 THEN work ELSE listed
    /\ open' = open \ {p}
    /\ row' = [row EXCEPT ![p] = "complete", ![p + 1] = "eligible"]
    /\ UNCHANGED <<work, objects, branch, activation, approved, edits>>

Next ==
    \/ \E f \in Files, c \in Contents : Edit(f, c)
    \/ Commit
    \/ Amend
    \/ \E p \in Phases : Authorize(p)
    \/ \E p \in Phases : Complete(p)

Spec == Init /\ [][Next]_vars

-----------------------------------------------------------------------------
TypeOK ==
    /\ work \in Tree
    /\ objects \in Seq(Tree) /\ Len(objects) \in 1..MaxCommits
    /\ branch \in Seq(1..Len(objects)) /\ branch # <<>>
    /\ record \in [Phases -> Bindings \cup {None}]
    /\ activation \in Bindings \cup {None}
    /\ listed \in Tree
    /\ approved \subseteq Phases
    /\ open \subseteq Phases
    /\ row \in [1..10 -> RowStates]
    /\ edits \in 0..MaxEdits

\* When a gate passes, every version that its phase's record or an earlier one
\* cites is in the delivery: it is the present file or lies on the branch.
\* git show would read it from a commit that a rewritten history dropped; the
\* gates' test of ancestry is what refuses that.
OnThisBranch ==
    \A p \in Phases : Gate(p) =>
        \A q \in RunBy[p] : \A f \in Bound[q] :
            record[q].digest[f] \in Current(f) \cup Logged(f)

\* From Phase 6 on a gate looks through the log, so that work on later phases
\* does not undo an accepted one: once its files are committed, no later edit,
\* commit, approval or completion makes its hashes fail.  Only a rewritten
\* history may.
HashesStayAccepted ==
    [][\A p \in 6..9 :
         HashesHold(p) /\ Clean /\ OnBranch \subseteq OnBranch' => HashesHold(p)']_vars
=============================================================================
