----------------------------- MODULE PhaseProofs -----------------------------
(***************************************************************************)
(* The two programs of phases, PhaseRecords of BH-01 and PhaseGates of     *)
(* BH-05.                                                                  *)
(*                                                                         *)
(* For any files, contents, bindings and bounds: the gates' records stay   *)
(* well formed, a passing gate cites only what the delivery holds, and     *)
(* from Phase 6 on a committed record outlives every later step that does  *)
(* not rewrite history.  All three rest on one fact, that a commit on the  *)
(* branch is a commit that was made and keeps its tree.                    *)
(*                                                                         *)
(* For any first phases, qualities and number of mishaps: the final        *)
(* verdict of a phase stands for an execution of every gate on the sources *)
(* it judges, it is given only on top of phases that have it, and a clean  *)
(* run earns it.  All three rest on GatesInv: whatever a record holds was  *)
(* true of sources between the start of the run and now, and no source but *)
(* the index ever returns to what it was.                                  *)
(***************************************************************************)
EXTENDS PhaseRecords, PhaseGates, SequenceTheorems, TLAPS

-----------------------------------------------------------------------------
(*                              PhaseRecords                               *)

\* What is left of the branch without HEAD, and HEAD, are commits of it.
LEMMA BranchIsMade ==
    ASSUME TypeOK
    PROVE  /\ Front(branch) \in Seq(1..Len(objects))
           /\ HEAD \in 1..Len(objects)
           /\ Len(objects) \in 1..MaxCommits
<1>1. /\ branch \in Seq(1..Len(objects)) /\ branch # <<>>
      /\ Len(objects) \in 1..MaxCommits
  BY DEF TypeOK
<1>2. Len(branch) \in Nat \ {0}
  BY <1>1
<1>3. Front(branch) \in Seq(1..Len(objects))
  <2>1. \A i \in 1..Len(branch) - 1 : branch[i] \in 1..Len(objects)
    BY <1>1, <1>2
  <2>2. QED
    BY <1>2, <2>1, SubSeqProperties DEF Front
<1>4. branch[Len(branch)] \in 1..Len(objects)
  BY <1>1, <1>2
<1>5. QED
  BY <1>1, <1>3, <1>4 DEF HEAD, Last

LEMMA Initially == Init => TypeOK
<1> SUFFICES ASSUME Init PROVE TypeOK
  OBVIOUS
<1>1. PICK made \in Tree : work = made /\ objects = <<made>> /\ listed = made
  BY DEF Init
<1>2. /\ objects \in Seq(Tree) /\ Len(objects) \in 1..MaxCommits
      /\ branch \in Seq(1..Len(objects)) /\ branch # <<>>
  BY <1>1, RecordsAssumption DEF RecordsAssumption, Init
<1>3. QED
  BY <1>1, <1>2, RecordsAssumption DEF RecordsAssumption, Init, TypeOK, Phases, RowStates

\* A new commit keeps the trees of the commits before it.
LEMMA CommitKeepsTrees ==
    ASSUME TypeOK, NEW base \in Seq(1..Len(objects)), NewCommit(base)
    PROVE  /\ objects' \in Seq(Tree)
           /\ Len(objects') = Len(objects) + 1
           /\ \A c \in 1..Len(objects) : objects'[c] = objects[c]
           /\ branch' = Append(base, Len(objects) + 1)
           /\ branch' \in Seq(1..Len(objects'))
           /\ branch' # <<>>
<1>1. /\ work \in Tree
      /\ objects \in Seq(Tree)
  BY DEF TypeOK
<1>2. /\ objects' = Append(objects, work)
      /\ branch' = Append(base, Len(objects'))
  BY DEF NewCommit
<1>3. /\ objects' \in Seq(Tree)
      /\ Len(objects') = Len(objects) + 1
      /\ \A c \in 1..Len(objects) : objects'[c] = objects[c]
  BY <1>1, <1>2
<1>4. Len(objects) \in Nat
  BY <1>1
<1>5. base \in Seq(1..Len(objects'))
  BY <1>3, <1>4
<1>6. QED
  BY <1>2, <1>3, <1>4, <1>5

\* The binding that a completion or an authorization writes is well formed.
LEMMA BindingIsTyped ==
    ASSUME TypeOK, NEW paths \in SUBSET Files
    PROVE  BindingOf(paths, HEAD) \in Bindings
<1>1. HEAD \in 1..Len(objects)
  BY BranchIsMade
<1>2. [f \in paths |-> work[f]] \in [paths -> Contents]
  BY DEF TypeOK, Tree
<1>3. QED
  BY <1>1, <1>2 DEF BindingOf, Bindings

LEMMA TypeStep ==
    ASSUME TypeOK, [Next]_vars
    PROVE  TypeOK'
<1>1. ASSUME NEW f \in Files, NEW c \in Contents, Edit(f, c)
      PROVE  TypeOK'
  BY <1>1, RecordsAssumption DEF RecordsAssumption, TypeOK, Edit, Tree, Bindings
<1>2. ASSUME NEW base \in Seq(1..Len(objects)), NewCommit(base)
      PROVE  TypeOK'
  <2>1. /\ objects' \in Seq(Tree)
        /\ Len(objects') = Len(objects) + 1
        /\ branch' \in Seq(1..Len(objects')) /\ branch' # <<>>
    BY <1>2, CommitKeepsTrees
  <2>2. Len(objects') \in 1..MaxCommits
    BY <1>2, <2>1, RecordsAssumption DEF RecordsAssumption, NewCommit, TypeOK
  <2>3. Bindings \subseteq Bindings'
    <3>1. 1..Len(objects) \subseteq 1..Len(objects')
      BY <2>1, <2>2, BranchIsMade
    <3>2. QED
      BY <3>1 DEF Bindings
  <2>4. /\ record' \in [Phases -> Bindings' \cup {None}]
        /\ activation' \in Bindings' \cup {None}
    BY <1>2, <2>3 DEF NewCommit, TypeOK
  <2>5. QED
    BY <1>2, <2>1, <2>2, <2>4 DEF NewCommit, TypeOK, None
<1>3. CASE Commit
  BY <1>2, <1>3 DEF Commit, TypeOK
<1>4. CASE Amend
  BY <1>2, <1>4, BranchIsMade DEF Amend
<1>5. ASSUME NEW p \in Phases, Authorize(p)
      PROVE  TypeOK'
  <2>1. activation' \in Bindings \cup {None}
    BY <1>5, BindingIsTyped, RecordsAssumption DEF RecordsAssumption, Authorize, TypeOK
  <2>2. row' \in [1..10 -> RowStates]
    BY <1>5 DEF Authorize, TypeOK, RowStates
  <2>3. approved' \subseteq Phases
    BY <1>5 DEF Authorize, TypeOK
  <2>4. Bindings' = Bindings
    BY <1>5 DEF Authorize, Bindings
  <2>5. QED
    BY <1>5, <2>1, <2>2, <2>3, <2>4 DEF Authorize, TypeOK, None
<1>6. ASSUME NEW p \in Phases, Complete(p)
      PROVE  TypeOK'
  <2>1. BindingOf(Bound[p], HEAD) \in Bindings
    BY <1>6, BindingIsTyped, RecordsAssumption DEF RecordsAssumption
  <2>2. record' \in [Phases -> Bindings \cup {None}]
    BY <1>6, <2>1 DEF Complete, TypeOK
  <2>3. row' \in [1..10 -> RowStates]
    BY <1>6 DEF Complete, TypeOK, RowStates
  <2>4. /\ listed' \in Tree
        /\ open' \subseteq Phases
    BY <1>6 DEF Complete, TypeOK
  <2>5. Bindings' = Bindings
    BY <1>6 DEF Complete, Bindings
  <2>6. QED
    BY <1>6, <2>2, <2>3, <2>4, <2>5 DEF Complete, TypeOK, None
<1>7. CASE UNCHANGED vars
  BY <1>7 DEF TypeOK, vars, Bindings, Tree
<1>8. QED
  BY <1>1, <1>3, <1>4, <1>5, <1>6, <1>7 DEF Next

\* The state of the records, of git and of the working tree is well formed.
THEOREM TypeCorrect == Spec => []TypeOK
BY Initially, TypeStep, PTL DEF Spec

-----------------------------------------------------------------------------
(* The gate of OnThisBranch. *)

\* When a gate passes, each version that the records it runs through cite is
\* the present file or lies on the branch, whatever was rewritten before.
THEOREM CitesTheDelivery == Spec => []OnThisBranch
<1>1. OnThisBranch
  <2> SUFFICES ASSUME NEW p \in Phases, Gate(p),
                      NEW q \in RunBy[p], NEW f \in Bound[q]
               PROVE  record[q].digest[f] \in Current(f) \cup Logged(f)
    BY DEF OnThisBranch
  <2>0. RecordHolds(q)
    <3>1. Validates(q)
      BY DEF Gate
    <3>2. QED
      BY <3>1 DEF Validates, Validates1, Validates2, Validates3, Validates4, Validates5,
                  Validates6, Validates7, Validates8, Validates9
  <2>1. HashesHold(q) /\ IsAncestor(q)
    BY <2>0 DEF RecordHolds
  <2>2. AtRevision(record[q].revision, f) \subseteq Logged(f)
    BY <2>1 DEF IsAncestor, AtRevision, Logged
  <2>3. QED
    BY <2>1, <2>2 DEF HashesHold, Accepted, AcceptedAtRevision, AcceptedFromLog
<1>2. QED
  BY <1>1, PTL

-----------------------------------------------------------------------------
(* What a committed record rests on. *)

\* No step changes the tree of a commit.
LEMMA TreesAreKept ==
    ASSUME TypeOK, [Next]_vars, NEW c \in 1..Len(objects)
    PROVE  objects'[c] = objects[c]
<1>1. CASE Commit
  BY <1>1, CommitKeepsTrees DEF Commit, TypeOK
<1>2. CASE Amend
  BY <1>2, CommitKeepsTrees, BranchIsMade DEF Amend
<1>3. CASE UNCHANGED objects
  BY <1>3
<1>4. QED
  BY <1>1, <1>2, <1>3 DEF Next, vars, Edit, Authorize, Complete

\* A completion record is written once.
LEMMA RecordsAreKept ==
    ASSUME TypeOK, [Next]_vars, NEW p \in Phases, record[p] # None
    PROVE  record'[p] = record[p]
<1>1. ASSUME NEW q \in Phases, Complete(q)
      PROVE  record'[p] = record[p]
  BY <1>1 DEF Complete, TypeOK
<1>2. QED
  BY <1>1 DEF Next, vars, Edit, Commit, Amend, NewCommit, Authorize

\* Commits of the branch were made.
LEMMA OnBranchIsMade ==
    ASSUME TypeOK
    PROVE  /\ OnBranch \subseteq 1..Len(objects)
           /\ HEAD \in OnBranch
<1>1. /\ branch \in Seq(1..Len(objects)) /\ branch # <<>>
  BY DEF TypeOK
<1>2. QED
  BY <1>1 DEF OnBranch, Range, HEAD, Last

LEMMA HashesStay ==
    ASSUME TypeOK, [Next]_vars, NEW p \in 6..9,
           HashesHold(p), Clean, OnBranch \subseteq OnBranch'
    PROVE  HashesHold(p)'
<1>1. p \in Phases /\ record[p] # None
  BY DEF HashesHold, Phases
<1>2. record'[p] = record[p]
  BY <1>1, RecordsAreKept
<1>3. record[p].revision \in 1..Len(objects)
  BY <1>1 DEF TypeOK, Bindings
<1>4. ASSUME NEW f \in Bound[p]
      PROVE  record'[p].digest[f] \in Accepted(p, f)'
  <2>1. record[p].digest[f] \in Accepted(p, f)
    BY DEF HashesHold
  <2>2. Current(f) \subseteq Logged(f)
    BY OnBranchIsMade DEF Clean, Current, Logged
  <2>3. Logged(f) \subseteq Logged(f)'
    BY OnBranchIsMade, TreesAreKept DEF Logged
  <2>4. objects'[record'[p].revision][f] = objects[record[p].revision][f]
    BY <1>2, <1>3, TreesAreKept
  <2>5. QED
    BY <1>2, <2>1, <2>2, <2>3, <2>4 DEF Accepted, AcceptedAtRevision, AcceptedFromLog, AtRevision
<1>5. QED
  BY <1>1, <1>2, <1>4 DEF HashesHold

\* From Phase 6 on, the hashes of a committed record hold after every step that
\* does not take a commit off the branch.
THEOREM AcceptedHashesStay == Spec => HashesStayAccepted
<1>1. TypeOK /\ [Next]_vars =>
        [\A p \in 6..9 :
           HashesHold(p) /\ Clean /\ OnBranch \subseteq OnBranch' => HashesHold(p)']_vars
  BY HashesStay
<1>2. QED
  BY <1>1, TypeCorrect, PTL DEF Spec, HashesStayAccepted

-----------------------------------------------------------------------------
(*                               PhaseGates                                *)

(* The tables of the phases.                                               *)
Kinds ==
  {"replay", "archive", "browser-cleanup-repeat", "browser-project", "browser-repeat",
   "clean-repeat", "cleanup-evidence", "compile-fixtures", "corpus", "count-evidence",
   "generator", "historical-sweep", "hygiene", "javascript", "json", "local-repeat",
   "packages", "predecessor-acceptance", "predecessor-generator", "predecessor-replay",
   "reconciliation", "subset", "tests", "validator", "x"}

GateNames == Kinds \X Nat

\* The replays are a sequence of gates.
LEMMA ReplaysAreGates ==
    ASSUME NEW p \in Nat
    PROVE  /\ ReplaysFrom(p) \in Seq(GateNames)
           /\ Len(ReplaysFrom(p)) = p
           /\ \A q \in 1..p : ReplaysFrom(p)[p + 1 - q] = <<"replay", q>>
<1>1. \A i \in 1..p : <<"replay", p + 1 - i>> \in GateNames
  <2>1. \A i \in 1..p : p + 1 - i \in Nat
    OBVIOUS
  <2>2. "replay" \in Kinds
    BY DEF Kinds
  <2>3. QED
    BY <2>1, <2>2 DEF GateNames
<1>2. ReplaysFrom(p) \in [1..p -> GateNames]
  BY <1>1 DEF ReplaysFrom
<1>3. \A q \in 1..p : p + 1 - q \in 1..p /\ p + 1 - (p + 1 - q) = q
  OBVIOUS
<1>4. QED
  BY <1>2, <1>3 DEF ReplaysFrom

LEMMA PlainAreGates ==
    ASSUME NEW names \in Seq(Kinds)
    PROVE  /\ Plain(names) \in Seq(GateNames)
           /\ Len(Plain(names)) = Len(names)
<1>1. DOMAIN names = 1..Len(names) /\ Len(names) \in Nat
  OBVIOUS
<1>2. \A i \in 1..Len(names) : <<names[i], 0>> \in GateNames
  BY DEF GateNames
<1>3. Plain(names) \in [1..Len(names) -> GateNames]
  BY <1>1, <1>2 DEF Plain
<1>4. QED
  BY <1>1, <1>3

\* A list of gates replays the phases from p down to 1.
ReplaysEach(gates, p) ==
  \A q \in 1..p : \E i \in DOMAIN gates : gates[i] = <<"replay", q>>

\* A list of gates that has these replays in its middle.
LEMMA ReplaysAmong ==
    ASSUME NEW before \in Seq(Kinds), NEW after \in Seq(Kinds), NEW p \in Nat,
           NEW gates, gates = Plain(before) \o ReplaysFrom(p) \o Plain(after)
    PROVE  /\ gates \in Seq(GateNames)
           /\ Len(gates) = Len(before) + p + Len(after)
           /\ ReplaysEach(gates, p)
<1> DEFINE b == Plain(before)
           r == ReplaysFrom(p)
           a == Plain(after)
<1>1. b \in Seq(GateNames) /\ a \in Seq(GateNames) /\ r \in Seq(GateNames)
  BY PlainAreGates, ReplaysAreGates
<1>2. Len(b) = Len(before) /\ Len(a) = Len(after) /\ Len(r) = p
  BY PlainAreGates, ReplaysAreGates
<1>3. \A q \in 1..p : r[p + 1 - q] = <<"replay", q>>
  BY ReplaysAreGates
<1> HIDE DEF a, b, r
<1>4. b \o r \in Seq(GateNames) /\ Len(b \o r) = Len(b) + p
  BY <1>1, <1>2, ConcatProperties
<1>5. (b \o r) \o a \in Seq(GateNames) /\ Len((b \o r) \o a) = Len(b) + p + Len(a)
  BY <1>1, <1>4, ConcatProperties
<1>6. ASSUME NEW q \in 1..p
      PROVE  \E i \in DOMAIN ((b \o r) \o a) : ((b \o r) \o a)[i] = <<"replay", q>>
  <2> DEFINE i == Len(b) + (p + 1 - q)
  <2>1. i \in 1..Len(b \o r) /\ i \in DOMAIN ((b \o r) \o a)
    BY <1>1, <1>4, <1>5
  <2>2. ((b \o r) \o a)[i] = (b \o r)[i]
    BY <1>1, <1>4, <2>1, ConcatProperties
  <2>3. (b \o r)[i] = r[p + 1 - q]
    BY <1>1, <1>2, ConcatProperties
  <2>4. QED
    BY <1>3, <2>1, <2>2, <2>3
<1>7. QED
  BY <1>2, <1>5, <1>6 DEF a, b, r, ReplaysEach

\* Two phases have a list of their own, with the last replay alone.
LEMMA ReplayAlone ==
    ASSUME NEW before \in Seq(Kinds), NEW after \in Seq(Kinds), NEW p \in Nat,
           NEW gates, gates = Plain(before) \o <<<<"replay", p>>>> \o Plain(after)
    PROVE  /\ gates \in Seq(GateNames)
           /\ Len(gates) = Len(before) + 1 + Len(after)
<1>1. Plain(before) \in Seq(GateNames) /\ Plain(after) \in Seq(GateNames)
  BY PlainAreGates
<1>2. <<"replay", p>> \in GateNames
  BY DEF GateNames, Kinds
<1>3. <<<<"replay", p>>>> \in Seq(GateNames) /\ Len(<<<<"replay", p>>>>) = 1
  BY <1>2
<1>4. /\ Plain(before) \o <<<<"replay", p>>>> \in Seq(GateNames)
      /\ Len(Plain(before) \o <<<<"replay", p>>>>) = Len(Plain(before)) + 1
  BY <1>1, <1>3, ConcatProperties
<1>5. QED
  BY <1>1, <1>3, <1>4, PlainAreGates, ConcatProperties

\* The recorder executes what the validator requires, in that order.
LEMMA ExecutedIsRequired ==
    ASSUME NEW p \in AllPhases
    PROVE  RecordingOf[p].executed = BoundaryOf[p].required
<1>1. p \in 1..12
  BY DEF AllPhases
<1>2. CASE p = 1
  <2>1. RecordingOf[1] = Recording1 /\ BoundaryOf[1] = Boundary1
    BY DEF RecordingOf, BoundaryOf
  <2>2. Recording1.executed = Boundary1.required
    BY DEF Recording1, Boundary1
  <2>3. QED
    BY <1>2, <2>1, <2>2
<1>3. CASE p = 2
  <2>1. RecordingOf[2] = Recording2 /\ BoundaryOf[2] = Boundary2
    BY DEF RecordingOf, BoundaryOf
  <2>2. Recording2.executed = Boundary2.required
    BY DEF Recording2, Boundary2
  <2>3. QED
    BY <1>3, <2>1, <2>2
<1>4. CASE p = 3
  <2>1. RecordingOf[3] = Recording3 /\ BoundaryOf[3] = Boundary3
    BY DEF RecordingOf, BoundaryOf
  <2>2. Recording3.executed = Boundary3.required
    BY DEF Recording3, Boundary3
  <2>3. QED
    BY <1>4, <2>1, <2>2
<1>5. CASE p = 4
  <2>1. RecordingOf[4] = Recording4 /\ BoundaryOf[4] = Boundary4
    BY DEF RecordingOf, BoundaryOf
  <2>2. Recording4.executed = Boundary4.required
    BY DEF Recording4, Boundary4
  <2>3. QED
    BY <1>5, <2>1, <2>2
<1>6. CASE p = 5
  <2>1. RecordingOf[5] = Recording5 /\ BoundaryOf[5] = Boundary5
    BY DEF RecordingOf, BoundaryOf
  <2>2. Recording5.executed = Boundary5.required
    BY DEF Recording5, Boundary5
  <2>3. QED
    BY <1>6, <2>1, <2>2
<1>7. CASE p = 6
  <2>1. RecordingOf[6] = Recording6 /\ BoundaryOf[6] = Boundary6
    BY DEF RecordingOf, BoundaryOf
  <2>2. Recording6.executed = Boundary6.required
    BY DEF Recording6, Boundary6
  <2>3. QED
    BY <1>7, <2>1, <2>2
<1>8. CASE p = 7
  <2>1. RecordingOf[7] = Recording7 /\ BoundaryOf[7] = Boundary7
    BY DEF RecordingOf, BoundaryOf
  <2>2. Recording7.executed = Boundary7.required
    BY DEF Recording7, Boundary7
  <2>3. QED
    BY <1>8, <2>1, <2>2
<1>9. CASE p = 8
  <2>1. RecordingOf[8] = Recording8 /\ BoundaryOf[8] = Boundary8
    BY DEF RecordingOf, BoundaryOf
  <2>2. Recording8.executed = Boundary8.required
    BY DEF Recording8, Boundary8
  <2>3. QED
    BY <1>9, <2>1, <2>2
<1>10. CASE p = 9
  <2>1. RecordingOf[9] = Recording9 /\ BoundaryOf[9] = Boundary9
    BY DEF RecordingOf, BoundaryOf
  <2>2. Recording9.executed = Boundary9.required
    BY DEF Recording9, Boundary9
  <2>3. QED
    BY <1>10, <2>1, <2>2
<1>11. CASE p = 10
  <2>1. RecordingOf[10] = Recording10 /\ BoundaryOf[10] = Boundary10
    BY DEF RecordingOf, BoundaryOf
  <2>2. Recording10.executed = Boundary10.required
    BY DEF Recording10, Boundary10
  <2>3. QED
    BY <1>11, <2>1, <2>2
<1>12. CASE p = 11
  <2>1. RecordingOf[11] = Recording11 /\ BoundaryOf[11] = Boundary11
    BY DEF RecordingOf, BoundaryOf
  <2>2. Recording11.executed = Boundary11.required
    BY DEF Recording11, Boundary11
  <2>3. QED
    BY <1>12, <2>1, <2>2
<1>13. CASE p = 12
  <2>1. RecordingOf[12] = Recording12 /\ BoundaryOf[12] = Boundary12
    BY DEF RecordingOf, BoundaryOf
  <2>2. Recording12.executed = Boundary12.required
    BY DEF Recording12, Boundary12
  <2>3. QED
    BY <1>13, <2>1, <2>2
<1>14. QED
  BY <1>1, <1>2, <1>3, <1>4, <1>5, <1>6, <1>7, <1>8, <1>9, <1>10, <1>11, <1>12, <1>13

\* What a phase requires is a list of gates and, where the recorder verifies its checkouts,
\* replays every earlier phase.
TableFits(p) ==
  /\ BoundaryOf[p].required \in Seq(GateNames)
  /\ Len(BoundaryOf[p].required) > 0
  /\ RecordingOf[p].exact => ReplaysEach(BoundaryOf[p].required, p - 1)

LEMMA TablesFit ==
    ASSUME NEW p \in AllPhases
    PROVE  TableFits(p)
<1>1. p \in 1..12
  BY DEF AllPhases
<1>2. CASE p = 1
  <2> DEFINE a == <<"packages", "javascript", "predecessor-acceptance",
                 "predecessor-generator", "historical-sweep", "tests", "validator",
                 "generator", "archive", "json", "hygiene">>
  <2>1. a \in Seq(Kinds) /\ Len(a) = 11
    BY DEF Kinds
  <2>2. BoundaryOf[1] = Boundary1 /\ Boundary1.required = Plain(a)
    BY DEF BoundaryOf, Boundary1
  <2> HIDE DEF a
  <2>3. Plain(a) \in Seq(GateNames) /\ Len(Plain(a)) = Len(a)
    BY <2>1, PlainAreGates
  <2>4. ReplaysEach(BoundaryOf[1].required, 0)
    BY DEF ReplaysEach
  <2>5. QED
    BY <1>2, <2>1, <2>2, <2>3, <2>4 DEF TableFits
<1>3. CASE p = 2
  <2> DEFINE a == <<"packages", "javascript", "compile-fixtures", "subset">>
             b == <<"predecessor-replay", "historical-sweep", "tests", "validator",
                 "generator", "archive", "json", "hygiene">>
  <2>1. a \in Seq(Kinds) /\ Len(a) = 4 /\ b \in Seq(Kinds) /\ Len(b) = 8
    BY DEF Kinds
  <2> DEFINE g == BoundaryOf[2].required
  <2>2. g = Plain(a) \o ReplaysFrom(1) \o Plain(b)
    BY DEF BoundaryOf, Boundary2
  <2> HIDE DEF a, b, g
  <2>3. /\ g \in Seq(GateNames)
        /\ Len(g) = Len(a) + 1 + Len(b)
        /\ ReplaysEach(g, 1)
    <3>1. 1 \in Nat
      OBVIOUS
    <3>2. QED
      BY <2>1, <2>2, <3>1, ReplaysAmong, Zenon
  <2>4. QED
    BY <1>3, <2>1, <2>3 DEF TableFits, g
<1>4. CASE p = 3
  <2> DEFINE a == <<"packages", "javascript", "compile-fixtures", "subset">>
             b == <<"predecessor-replay", "historical-sweep", "tests", "validator",
                 "generator", "archive", "json", "hygiene">>
  <2>1. a \in Seq(Kinds) /\ Len(a) = 4 /\ b \in Seq(Kinds) /\ Len(b) = 8
    BY DEF Kinds
  <2> DEFINE g == BoundaryOf[3].required
  <2>2. g = Plain(a) \o ReplaysFrom(2) \o Plain(b)
    BY DEF BoundaryOf, Boundary3
  <2> HIDE DEF a, b, g
  <2>3. /\ g \in Seq(GateNames)
        /\ Len(g) = Len(a) + 2 + Len(b)
        /\ ReplaysEach(g, 2)
    <3>1. 2 \in Nat
      OBVIOUS
    <3>2. QED
      BY <2>1, <2>2, <3>1, ReplaysAmong, Zenon
  <2>4. QED
    BY <1>4, <2>1, <2>3 DEF TableFits, g
<1>5. CASE p = 4
  <2> DEFINE a == <<"packages", "javascript", "compile-fixtures">>
             b == <<"predecessor-replay", "historical-sweep", "tests", "validator",
                 "generator", "archive", "json", "hygiene">>
  <2>1. a \in Seq(Kinds) /\ Len(a) = 3 /\ b \in Seq(Kinds) /\ Len(b) = 8
    BY DEF Kinds
  <2> DEFINE g == BoundaryOf[4].required
  <2>2. g = Plain(a) \o ReplaysFrom(3) \o Plain(b)
    BY DEF BoundaryOf, Boundary4
  <2> HIDE DEF a, b, g
  <2>3. /\ g \in Seq(GateNames)
        /\ Len(g) = Len(a) + 3 + Len(b)
        /\ ReplaysEach(g, 3)
    <3>1. 3 \in Nat
      OBVIOUS
    <3>2. QED
      BY <2>1, <2>2, <3>1, ReplaysAmong, Zenon
  <2>4. QED
    BY <1>5, <2>1, <2>3 DEF TableFits, g
<1>6. CASE p = 5
  <2> DEFINE a == <<"packages", "javascript", "compile-fixtures">>
             b == <<"predecessor-replay", "historical-sweep", "tests", "validator",
                 "generator", "archive", "json", "hygiene">>
  <2>1. a \in Seq(Kinds) /\ Len(a) = 3 /\ b \in Seq(Kinds) /\ Len(b) = 8
    BY DEF Kinds
  <2> DEFINE g == BoundaryOf[5].required
  <2>2. g = Plain(a) \o ReplaysFrom(4) \o Plain(b)
    BY DEF BoundaryOf, Boundary5
  <2> HIDE DEF a, b, g
  <2>3. /\ g \in Seq(GateNames)
        /\ Len(g) = Len(a) + 4 + Len(b)
        /\ ReplaysEach(g, 4)
    <3>1. 4 \in Nat
      OBVIOUS
    <3>2. QED
      BY <2>1, <2>2, <3>1, ReplaysAmong, Zenon
  <2>4. QED
    BY <1>6, <2>1, <2>3 DEF TableFits, g
<1>7. CASE p = 6
  <2> DEFINE a == <<"packages", "javascript", "compile-fixtures", "subset">>
             b == <<"predecessor-replay", "historical-sweep", "tests", "validator",
                 "generator", "archive", "json", "hygiene">>
  <2>1. a \in Seq(Kinds) /\ Len(a) = 4 /\ b \in Seq(Kinds) /\ Len(b) = 8
    BY DEF Kinds
  <2> DEFINE g == BoundaryOf[6].required
  <2>2. g = Plain(a) \o ReplaysFrom(5) \o Plain(b)
    BY DEF BoundaryOf, Boundary6
  <2> HIDE DEF a, b, g
  <2>3. /\ g \in Seq(GateNames)
        /\ Len(g) = Len(a) + 5 + Len(b)
        /\ ReplaysEach(g, 5)
    <3>1. 5 \in Nat
      OBVIOUS
    <3>2. QED
      BY <2>1, <2>2, <3>1, ReplaysAmong, Zenon
  <2>4. QED
    BY <1>7, <2>1, <2>3 DEF TableFits, g
<1>8. CASE p = 7
  <2> DEFINE a == <<"packages", "javascript", "compile-fixtures", "subset">>
             b == <<"predecessor-replay", "historical-sweep", "tests", "validator",
                 "generator", "archive", "json", "hygiene">>
  <2>1. a \in Seq(Kinds) /\ Len(a) = 4 /\ b \in Seq(Kinds) /\ Len(b) = 8
    BY DEF Kinds
  <2> DEFINE g == BoundaryOf[7].required
  <2>2. g = Plain(a) \o ReplaysFrom(6) \o Plain(b)
    BY DEF BoundaryOf, Boundary7
  <2> HIDE DEF a, b, g
  <2>3. /\ g \in Seq(GateNames)
        /\ Len(g) = Len(a) + 6 + Len(b)
        /\ ReplaysEach(g, 6)
    <3>1. 6 \in Nat
      OBVIOUS
    <3>2. QED
      BY <2>1, <2>2, <3>1, ReplaysAmong, Zenon
  <2>4. QED
    BY <1>8, <2>1, <2>3 DEF TableFits, g
<1>9. CASE p = 8
  <2> DEFINE a == <<"packages", "javascript", "compile-fixtures", "subset">>
             b == <<"predecessor-replay", "historical-sweep", "tests", "validator",
                 "generator", "archive", "json", "hygiene">>
  <2>1. a \in Seq(Kinds) /\ Len(a) = 4 /\ b \in Seq(Kinds) /\ Len(b) = 8
    BY DEF Kinds
  <2> DEFINE g == BoundaryOf[8].required
  <2>2. g = Plain(a) \o ReplaysFrom(7) \o Plain(b)
    BY DEF BoundaryOf, Boundary8
  <2> HIDE DEF a, b, g
  <2>3. /\ g \in Seq(GateNames)
        /\ Len(g) = Len(a) + 7 + Len(b)
        /\ ReplaysEach(g, 7)
    <3>1. 7 \in Nat
      OBVIOUS
    <3>2. QED
      BY <2>1, <2>2, <3>1, ReplaysAmong, Zenon
  <2>4. QED
    BY <1>9, <2>1, <2>3 DEF TableFits, g
<1>10. CASE p = 9
  <2> DEFINE a == <<"packages", "javascript", "compile-fixtures", "subset">>
             b == <<"predecessor-replay", "historical-sweep", "tests", "validator",
                 "generator", "archive", "json", "hygiene">>
  <2>1. a \in Seq(Kinds) /\ Len(a) = 4 /\ b \in Seq(Kinds) /\ Len(b) = 8
    BY DEF Kinds
  <2> DEFINE g == BoundaryOf[9].required
  <2>2. g = Plain(a) \o ReplaysFrom(8) \o Plain(b)
    BY DEF BoundaryOf, Boundary9
  <2> HIDE DEF a, b, g
  <2>3. /\ g \in Seq(GateNames)
        /\ Len(g) = Len(a) + 8 + Len(b)
        /\ ReplaysEach(g, 8)
    <3>1. 8 \in Nat
      OBVIOUS
    <3>2. QED
      BY <2>1, <2>2, <3>1, ReplaysAmong, Zenon
  <2>4. QED
    BY <1>10, <2>1, <2>3 DEF TableFits, g
<1>11. CASE p = 10
  <2> DEFINE a == <<"packages", "javascript", "compile-fixtures", "subset">>
             b == <<"predecessor-replay", "historical-sweep", "tests", "validator",
                 "generator", "archive", "json", "hygiene">>
  <2>1. a \in Seq(Kinds) /\ Len(a) = 4 /\ b \in Seq(Kinds) /\ Len(b) = 8
    BY DEF Kinds
  <2> DEFINE g == BoundaryOf[10].required
  <2>2. g = Plain(a) \o ReplaysFrom(9) \o Plain(b)
    BY DEF BoundaryOf, Boundary10
  <2> HIDE DEF a, b, g
  <2>3. /\ g \in Seq(GateNames)
        /\ Len(g) = Len(a) + 9 + Len(b)
        /\ ReplaysEach(g, 9)
    <3>1. 9 \in Nat
      OBVIOUS
    <3>2. QED
      BY <2>1, <2>2, <3>1, ReplaysAmong, Zenon
  <2>4. QED
    BY <1>11, <2>1, <2>3 DEF TableFits, g
<1>12. CASE p = 11
  <2> DEFINE a == <<"packages", "browser-project", "javascript", "local-repeat",
                 "browser-repeat">>
             b == <<"historical-sweep", "tests", "generator", "corpus", "validator",
                 "archive", "json", "hygiene">>
  <2>1. a \in Seq(Kinds) /\ Len(a) = 5 /\ b \in Seq(Kinds) /\ Len(b) = 8
    BY DEF Kinds
  <2> DEFINE g == BoundaryOf[11].required
  <2>2. g = Plain(a) \o <<<<"replay", 10>>>> \o Plain(b)
    BY DEF BoundaryOf, Boundary11
  <2>3. RecordingOf[11] = Recording11 /\ ~ Recording11.exact
    BY DEF RecordingOf, Recording11
  <2> HIDE DEF a, b, g
  <2>4. /\ g \in Seq(GateNames)
        /\ Len(g) = Len(a) + 1 + Len(b)
    <3>1. 10 \in Nat
      OBVIOUS
    <3>2. QED
      BY <2>1, <2>2, <3>1, ReplayAlone
  <2>5. QED
    BY <1>12, <2>1, <2>2, <2>3, <2>4 DEF TableFits, g
<1>13. CASE p = 12
  <2> DEFINE a == <<"packages", "browser-project", "javascript", "count-evidence",
                 "cleanup-evidence", "browser-cleanup-repeat">>
             b == <<"historical-sweep", "reconciliation", "archive", "json",
                 "clean-repeat", "hygiene">>
  <2>1. a \in Seq(Kinds) /\ Len(a) = 6 /\ b \in Seq(Kinds) /\ Len(b) = 6
    BY DEF Kinds
  <2> DEFINE g == BoundaryOf[12].required
  <2>2. g = Plain(a) \o <<<<"replay", 11>>>> \o Plain(b)
    BY DEF BoundaryOf, Boundary12
  <2>3. RecordingOf[12] = Recording12 /\ ~ Recording12.exact
    BY DEF RecordingOf, Recording12
  <2> HIDE DEF a, b, g
  <2>4. /\ g \in Seq(GateNames)
        /\ Len(g) = Len(a) + 1 + Len(b)
    <3>1. 11 \in Nat
      OBVIOUS
    <3>2. QED
      BY <2>1, <2>2, <3>1, ReplayAlone
  <2>5. QED
    BY <1>13, <2>1, <2>2, <2>3, <2>4 DEF TableFits, g
<1>14. QED
  BY <1>1, <1>2, <1>3, <1>4, <1>5, <1>6, <1>7, <1>8, <1>9, <1>10, <1>11, <1>12, <1>13

-----------------------------------------------------------------------------
(* The invariant, for a phase p.                                           *)
Authorities == {Nothing, "bound", "expanded"}

\* How far an authority that is never overwritten has come.
Stage(authority) ==
  IF authority = "expanded" THEN 2 ELSE IF authority = "bound" THEN 1 ELSE 0

Made == [version : Nat, quality : Qualities]

IsTree(t) ==
  t = [own |-> t.own, shared |-> t.shared, rest |-> t.rest, evidence |-> t.evidence,
       stray |-> t.stray, ticks |-> t.ticks, authority |-> t.authority, index |-> t.index,
       gates |-> t.gates, done |-> t.done]

\* After n edits.
TreeFits(p, n, t) ==
  /\ IsTree(t)
  /\ t.own \in Made /\ t.own.version <= n
  /\ t.rest \in Made /\ t.rest.version <= n
  /\ t.shared \in [1..(p - 1) -> Made] /\ \A q \in 1..(p - 1) : t.shared[q].version <= n
  /\ t.evidence \in 0..n /\ t.stray \in 0..n
  /\ t.authority \in Authorities

\* The sources of some tree.
ListFits(p, s) ==
  /\ s = <<s[1], s[2], s[3], s[4], s[5], s[6], s[7]>>
  /\ s[1] \in Made /\ s[2] \in [1..(p - 1) -> Made] /\ s[3] \in Made
  /\ s[4] \in Nat /\ s[5] \in Authorities /\ s[7] \in Nat

\* Versions only grow, and a version has one content.
Older(c, d) == c.version <= d.version /\ (c.version = d.version => c = d)

\* The sources s may have become the sources t.  The index is generated, and goes back.
NotAfter(p, s, t) ==
  /\ Older(s[1], t[1])
  /\ \A q \in 1..(p - 1) : Older(s[2][q], t[2][q])
  /\ Older(s[3], t[3])
  /\ s[4] <= t[4] /\ s[7] <= t[7]
  /\ AuthorityOf[p].exclusive => Stage(s[5]) <= Stage(t[5])

\* Every source that a gate ran on lies between the start of the run and the present sources.
IsTraced(p, r, now) ==
  /\ r = [start |-> r.start, rows |-> r.rows, end |-> r.end, checkouts |-> r.checkouts,
          seen |-> r.seen]
  /\ ListFits(p, r.start) /\ NotAfter(p, r.start, now)
  /\ \A s \in r.seen :
       ListFits(p, s) /\ NotAfter(p, r.start, s) /\ NotAfter(p, s, now) /\ s[6] = r.start[6]

Rows == [gate : GateNames, ok : BOOLEAN, shows : BOOLEAN]

\* A replay that is ok found its phase accepted, or a checkout that was mended.
ReplayFits(entry, checkouts, a) ==
  entry.ok /\ entry.gate[1] = "replay" => checkouts = "mended" \/ entry.gate[2] \in a

\* A gate that is ok on sources that are good shows what must be shown.
ShowsFit(p, entry, seen) ==
  entry.ok /\ entry.gate[1] \in BoundaryOf[p].shown /\ (\A s \in seen : s[1].quality = "good")
    => entry.shows

\* The rows are of the gates that the recorder executes, in their order, and say what they found
\* with the phases a accepted.
RowsFit(p, a, r) ==
  /\ r.rows \in Seq(Rows) /\ Len(r.rows) <= Len(RecordingOf[p].executed)
  /\ \A i \in 1..Len(r.rows) :
       /\ r.rows[i].gate = RecordingOf[p].executed[i]
       /\ ReplayFits(r.rows[i], r.checkouts, a)
       /\ ShowsFit(p, r.rows[i], r.seen)
  /\ Len(r.rows) > 0 => r.seen # {}
  /\ r.end # <<>> => Len(r.rows) = Len(RecordingOf[p].executed)
  /\ RecordingOf[p].exact => r.checkouts = "exact"

RecordFits(p, a, r, now) == IsTraced(p, r, now) /\ RowsFit(p, a, r)

GatesInv ==
  /\ phase \in AllPhases /\ last \in AllPhases /\ trouble \in Nat
  /\ TreeFits(phase, trouble, tree)
  /\ log # Nothing \/ recorder = "running" => RecordFits(phase, accepted, log, Sources(tree))
  /\ tree.gates # Nothing => RecordFits(phase, accepted, tree.gates, Sources(tree))
  \* The author leaves the index alone while the recorder runs.
  /\ recorder = "running" => log.start[6] = tree.index

-----------------------------------------------------------------------------
(* The order of sources.                                                   *)
LEMMA OlderOrder ==
    ASSUME NEW c \in Made, NEW d \in Made, NEW e \in Made
    PROVE  /\ Older(c, c)
           /\ Older(c, d) /\ Older(d, e) => Older(c, e)
           /\ Older(c, d) /\ Older(d, c) => c = d
BY DEF Older, Made

LEMMA StageOrder ==
    ASSUME NEW a \in Authorities, NEW b \in Authorities
    PROVE  /\ Stage(a) \in 0..2
           /\ Stage(a) = Stage(b) => a = b
BY GatesAssumption DEF GatesAssumption, Stage, Authorities

LEMMA SameIsNotAfter ==
    ASSUME NEW p, NEW s, ListFits(p, s)
    PROVE  NotAfter(p, s, s)
<1>1. Older(s[1], s[1]) /\ Older(s[3], s[3])
  BY OlderOrder DEF ListFits
<1>2. \A q \in 1..(p - 1) : s[2][q] \in Made
  BY DEF ListFits
<1>3. \A q \in 1..(p - 1) : Older(s[2][q], s[2][q])
  BY <1>2, OlderOrder
<1>4. s[4] <= s[4] /\ s[7] <= s[7] /\ Stage(s[5]) <= Stage(s[5])
  BY StageOrder DEF ListFits
<1>5. QED
  BY <1>1, <1>3, <1>4 DEF NotAfter

LEMMA NotAfterChain ==
    ASSUME NEW p, NEW s, NEW t, NEW u, ListFits(p, s), ListFits(p, t), ListFits(p, u),
           NotAfter(p, s, t), NotAfter(p, t, u)
    PROVE  NotAfter(p, s, u)
<1>1. Older(s[1], u[1]) /\ Older(s[3], u[3])
  BY OlderOrder DEF ListFits, NotAfter
<1>2. ASSUME NEW q \in 1..(p - 1)
      PROVE  Older(s[2][q], u[2][q])
  <2>1. s[2][q] \in Made /\ t[2][q] \in Made /\ u[2][q] \in Made
    BY DEF ListFits
  <2>2. QED
    BY <2>1, OlderOrder DEF NotAfter
<1>3. s[4] <= u[4] /\ s[7] <= u[7]
  BY DEF ListFits, NotAfter
<1>4. AuthorityOf[p].exclusive => Stage(s[5]) <= Stage(u[5])
  <2>1. Stage(s[5]) \in 0..2 /\ Stage(t[5]) \in 0..2 /\ Stage(u[5]) \in 0..2
    BY StageOrder DEF ListFits
  <2>2. QED
    BY <2>1 DEF NotAfter
<1>5. QED
  BY <1>1, <1>2, <1>3, <1>4 DEF NotAfter

\* No source returns to what it was.
LEMMA NotAfterEachOther ==
    ASSUME NEW p \in Nat, NEW s, NEW t, ListFits(p, s), ListFits(p, t),
           NotAfter(p, s, t), NotAfter(p, t, s)
    PROVE  /\ s[1] = t[1]
           /\ AuthorityOf[p].exclusive /\ s[6] = t[6] => s = t
<1>1. s[1] = t[1] /\ s[3] = t[3]
  BY OlderOrder DEF ListFits, NotAfter
<1>2. \A q \in 1..(p - 1) : s[2][q] = t[2][q]
  <2>1. \A q \in 1..(p - 1) : s[2][q] \in Made /\ t[2][q] \in Made
    BY DEF ListFits
  <2>2. QED
    BY <2>1, OlderOrder DEF NotAfter
<1>3. s[2] = t[2]
  <2>1. s[2] \in [1..(p - 1) -> Made] /\ t[2] \in [1..(p - 1) -> Made]
    BY DEF ListFits
  <2>2. QED
    BY <1>2, <2>1
<1>4. s[4] = t[4] /\ s[7] = t[7]
  BY DEF ListFits, NotAfter
<1>5. AuthorityOf[p].exclusive => s[5] = t[5]
  <2>1. Stage(s[5]) \in 0..2 /\ Stage(t[5]) \in 0..2
    BY StageOrder DEF ListFits
  <2>2. QED
    BY <2>1, StageOrder DEF ListFits, NotAfter
<1>6. QED
  BY <1>1, <1>3, <1>4, <1>5 DEF ListFits

\* What a tree gives as its sources.
LEMMA SourcesFit ==
    ASSUME NEW t, NEW n \in Nat, TreeFits(phase, n, t)
    PROVE  /\ ListFits(phase, Sources(t))
           /\ Sources(t)[1] = t.own /\ Sources(t)[6] = t.index
BY DEF TreeFits, ListFits, Sources

\* What is recorded of a run stays true as the tree goes on and phases are accepted.
LEMMA RecordGoesOn ==
    ASSUME NEW p, NEW a, NEW b, a \subseteq b, NEW r, NEW now, NEW next,
           ListFits(p, now), ListFits(p, next),
           RecordFits(p, a, r, now), NotAfter(p, now, next)
    PROVE  RecordFits(p, b, r, next)
<1>1. NotAfter(p, r.start, next)
  BY NotAfterChain DEF RecordFits, IsTraced
<1>2. \A s \in r.seen : NotAfter(p, s, next)
  BY NotAfterChain DEF RecordFits, IsTraced
<1>3. IsTraced(p, r, next)
  BY <1>1, <1>2 DEF RecordFits, IsTraced
<1>4. RowsFit(p, b, r)
  BY DEF RecordFits, RowsFit, ReplayFits
<1>5. QED
  BY <1>3, <1>4 DEF RecordFits

-----------------------------------------------------------------------------
(* The steps of the author.                                                *)
\* A step that takes the tree on and leaves the log alone.
LEMMA TreeStep ==
    ASSUME GatesInv, UNCHANGED <<phase, last, log, recorder>>,
           accepted \subseteq accepted', trouble' \in Nat,
           TreeFits(phase, trouble', tree'), NotAfter(phase, Sources(tree), Sources(tree')),
           tree'.gates \in {Nothing, tree.gates, log},
           recorder = "running" => tree'.index = tree.index
    PROVE  GatesInv'
<1>1. Sources(tree)' = Sources(tree')
  BY DEF Sources
<1>2. ListFits(phase, Sources(tree)) /\ ListFits(phase, Sources(tree'))
  BY SourcesFit DEF GatesInv
<1>3. ASSUME NEW r, RecordFits(phase, accepted, r, Sources(tree))
      PROVE  RecordFits(phase, accepted', r, Sources(tree'))
  BY <1>2, <1>3, RecordGoesOn
<1>4. log # Nothing \/ recorder = "running" => RecordFits(phase, accepted', log, Sources(tree'))
  BY <1>3 DEF GatesInv
<1>5. tree'.gates # Nothing => RecordFits(phase, accepted', tree'.gates, Sources(tree'))
  BY <1>3 DEF GatesInv
<1>6. recorder = "running" => log.start[6] = tree'.index
  BY DEF GatesInv
<1>7. QED
  BY <1>1, <1>4, <1>5, <1>6 DEF GatesInv

LEMMA NewIsLater ==
    ASSUME NEW n \in Nat, NEW c \in Made, c.version <= n, NEW k \in Qualities
    PROVE  /\ Content(n + 1, k) \in Made /\ Content(n + 1, k).version <= n + 1
           /\ Older(c, Content(n + 1, k))
BY DEF Content, Made, Older

\* A tree that was edited, or had a file generated: only forward.
Forward(t, u) ==
  /\ IsTree(u)
  /\ u.own \in Made /\ Older(t.own, u.own)
  /\ u.rest \in Made /\ Older(t.rest, u.rest)
  /\ u.shared \in [Earlier -> Made] /\ \A q \in Earlier : Older(t.shared[q], u.shared[q])
  /\ u.evidence \in Nat /\ t.evidence <= u.evidence
  /\ u.stray \in Nat /\ t.stray <= u.stray
  /\ u.authority \in Authorities
  /\ AuthorityOf[phase].exclusive => Stage(t.authority) <= Stage(u.authority)

WithinEdits(t, n) ==
  /\ t.own.version <= n /\ t.rest.version <= n /\ t.evidence <= n /\ t.stray <= n
  /\ \A q \in Earlier : t.shared[q].version <= n

LEMMA ForwardFits ==
    ASSUME GatesInv, NEW n \in Nat, NEW u, Forward(tree, u), WithinEdits(u, n)
    PROVE  /\ TreeFits(phase, n, u)
           /\ NotAfter(phase, Sources(tree), Sources(u))
<1>1. TreeFits(phase, n, u)
  BY DEF Forward, WithinEdits, TreeFits, Earlier
<1>2. NotAfter(phase, Sources(tree), Sources(u))
  BY DEF Forward, NotAfter, Sources, Earlier
<1>3. QED
  BY <1>1, <1>2

\* What stays as it is.
LEMMA StaysAsItIs ==
    ASSUME GatesInv
    PROVE  /\ phase \in Nat /\ trouble \in Nat
           /\ Forward(tree, tree) /\ WithinEdits(tree, trouble)
           /\ \A n \in Nat : trouble <= n => WithinEdits(tree, n)
<1>1. phase \in Nat /\ trouble \in Nat /\ TreeFits(phase, trouble, tree)
  BY DEF GatesInv, AllPhases
<1>2. Older(tree.own, tree.own) /\ Older(tree.rest, tree.rest)
  BY <1>1, OlderOrder DEF TreeFits
<1>3. \A q \in Earlier : tree.shared[q] \in Made
  BY <1>1 DEF TreeFits, Earlier
<1>4. \A q \in Earlier : Older(tree.shared[q], tree.shared[q])
  BY <1>3, OlderOrder
<1>5. Stage(tree.authority) <= Stage(tree.authority)
  BY <1>1, StageOrder DEF TreeFits
<1>6. Forward(tree, tree)
  BY <1>1, <1>2, <1>4, <1>5 DEF Forward, TreeFits, Earlier
<1>7. \A n \in Nat : trouble <= n => WithinEdits(tree, n)
  BY <1>1, <1>3 DEF WithinEdits, TreeFits, Earlier, Made
<1>8. QED
  BY <1>1, <1>6, <1>7

\* An edit makes the tree go forward, and no farther than the count of edits.
LEMMA EditForward ==
    ASSUME GatesInv, EditTree
    PROVE  /\ Forward(tree, tree') /\ WithinEdits(tree', trouble')
           /\ tree'.gates \in {Nothing, tree.gates} /\ tree'.index = tree.index
<1>1. /\ trouble \in Nat /\ trouble' = trouble + 1 /\ Fresh = trouble + 1 /\ phase \in Nat
      /\ TreeFits(phase, trouble, tree) /\ IsTree(tree) /\ "good" \in Qualities
  BY GatesAssumption DEF GatesInv, EditTree, Spend, Fresh, AllPhases, TreeFits, GatesAssumption
<1>2. Forward(tree, tree) /\ WithinEdits(tree, trouble')
  BY <1>1, StaysAsItIs
<1> DEFINE Goal ==
             /\ Forward(tree, tree') /\ WithinEdits(tree', trouble')
             /\ tree'.gates \in {Nothing, tree.gates} /\ tree'.index = tree.index
<1>3. ASSUME NEW k \in Qualities, tree' = [tree EXCEPT !.own = Content(Fresh, k)]
      PROVE  Goal
  <2>1. /\ tree'.own = Content(Fresh, k) /\ tree'.shared = tree.shared
        /\ tree'.rest = tree.rest /\ tree'.evidence = tree.evidence
        /\ tree'.stray = tree.stray /\ tree'.ticks = tree.ticks
        /\ tree'.authority = tree.authority /\ tree'.index = tree.index
        /\ tree'.gates = tree.gates /\ tree'.done = tree.done
        /\ IsTree(tree')
    BY <1>1, <1>3 DEF IsTree
  <2>2. /\ Content(Fresh, k) \in Made /\ Content(Fresh, k).version <= trouble'
        /\ Older(tree.own, Content(Fresh, k))
    BY <1>1, NewIsLater DEF TreeFits
  <2>3. QED
    BY <1>2, <2>1, <2>2 DEF Forward, WithinEdits
<1>4. ASSUME NEW k \in Qualities, NEW q \in Earlier,
             tree' = [tree EXCEPT !.shared[q] = Content(Fresh, k)]
      PROVE  Goal
  <2>1. /\ tree'.own = tree.own
        /\ tree'.shared = [tree.shared EXCEPT ![q] = Content(Fresh, k)]
        /\ tree'.rest = tree.rest /\ tree'.evidence = tree.evidence
        /\ tree'.stray = tree.stray /\ tree'.ticks = tree.ticks
        /\ tree'.authority = tree.authority /\ tree'.index = tree.index
        /\ tree'.gates = tree.gates /\ tree'.done = tree.done
        /\ IsTree(tree')
    BY <1>1, <1>4 DEF IsTree
  <2>2. /\ tree.shared \in [Earlier -> Made] /\ tree.shared[q] \in Made
        /\ tree.shared[q].version <= trouble
    BY <1>1 DEF TreeFits, Earlier
  <2>3. /\ Content(Fresh, k) \in Made /\ Content(Fresh, k).version <= trouble'
        /\ Older(tree.shared[q], Content(Fresh, k))
    BY <1>1, <2>2, NewIsLater
  <2>4. /\ tree'.shared \in [Earlier -> Made]
        /\ \A x \in Earlier : tree'.shared[x] = IF x = q THEN Content(Fresh, k) ELSE tree.shared[x]
    BY <2>1, <2>2, <2>3
  <2>5. \A x \in Earlier :
          Older(tree.shared[x], tree'.shared[x]) /\ tree'.shared[x].version <= trouble'
    BY <1>2, <2>3, <2>4 DEF Forward, WithinEdits
  <2>6. QED
    BY <1>2, <2>1, <2>4, <2>5 DEF Forward, WithinEdits
<1>5. ASSUME tree' = [tree EXCEPT !.rest = Content(Fresh, "good")]
      PROVE  Goal
  <2>1. /\ tree'.own = tree.own /\ tree'.shared = tree.shared
        /\ tree'.rest = Content(Fresh, "good") /\ tree'.evidence = tree.evidence
        /\ tree'.stray = tree.stray /\ tree'.ticks = tree.ticks
        /\ tree'.authority = tree.authority /\ tree'.index = tree.index
        /\ tree'.gates = tree.gates /\ tree'.done = tree.done
        /\ IsTree(tree')
    BY <1>1, <1>5 DEF IsTree
  <2>2. /\ Content(Fresh, "good") \in Made /\ Content(Fresh, "good").version <= trouble'
        /\ Older(tree.rest, Content(Fresh, "good"))
    BY <1>1, NewIsLater DEF TreeFits
  <2>3. QED
    BY <1>2, <2>1, <2>2 DEF Forward, WithinEdits
<1>6. ASSUME tree' = [tree EXCEPT !.evidence = Fresh]
      PROVE  Goal
  <2>1. /\ tree'.own = tree.own /\ tree'.shared = tree.shared /\ tree'.rest = tree.rest
        /\ tree'.evidence = Fresh /\ tree'.stray = tree.stray /\ tree'.ticks = tree.ticks
        /\ tree'.authority = tree.authority /\ tree'.index = tree.index
        /\ tree'.gates = tree.gates /\ tree'.done = tree.done
        /\ IsTree(tree')
    BY <1>1, <1>6 DEF IsTree
  <2>2. tree.evidence <= Fresh /\ Fresh \in Nat /\ Fresh <= trouble'
    BY <1>1 DEF TreeFits
  <2>3. QED
    BY <1>2, <2>1, <2>2 DEF Forward, WithinEdits
<1>7. ASSUME tree' = [tree EXCEPT !.stray = Fresh]
      PROVE  Goal
  <2>1. /\ tree'.own = tree.own /\ tree'.shared = tree.shared /\ tree'.rest = tree.rest
        /\ tree'.evidence = tree.evidence /\ tree'.stray = Fresh
        /\ tree'.ticks = tree.ticks /\ tree'.authority = tree.authority
        /\ tree'.index = tree.index /\ tree'.gates = tree.gates /\ tree'.done = tree.done
        /\ IsTree(tree')
    BY <1>1, <1>7 DEF IsTree
  <2>2. tree.stray <= Fresh /\ Fresh \in Nat /\ Fresh <= trouble'
    BY <1>1 DEF TreeFits
  <2>3. QED
    BY <1>2, <2>1, <2>2 DEF Forward, WithinEdits
<1>8. ASSUME NEW k, tree' = [tree EXCEPT !.ticks = @ \cup {k}]
      PROVE  Goal
  <2>1. /\ tree'.own = tree.own /\ tree'.shared = tree.shared /\ tree'.rest = tree.rest
        /\ tree'.evidence = tree.evidence /\ tree'.stray = tree.stray
        /\ tree'.authority = tree.authority /\ tree'.index = tree.index
        /\ tree'.gates = tree.gates /\ tree'.done = tree.done
        /\ IsTree(tree')
    BY <1>1, <1>8 DEF IsTree
  <2>2. QED
    BY <1>2, <2>1 DEF Forward, WithinEdits
<1>9. ASSUME tree.authority = "bound", tree' = [tree EXCEPT !.authority = "expanded"]
      PROVE  Goal
  <2>1. /\ tree'.own = tree.own /\ tree'.shared = tree.shared /\ tree'.rest = tree.rest
        /\ tree'.evidence = tree.evidence /\ tree'.stray = tree.stray
        /\ tree'.ticks = tree.ticks /\ tree'.authority = "expanded"
        /\ tree'.index = tree.index /\ tree'.gates = tree.gates /\ tree'.done = tree.done
        /\ IsTree(tree')
    BY <1>1, <1>9 DEF IsTree
  <2>2. Stage(tree.authority) <= Stage("expanded") /\ "expanded" \in Authorities
    BY <1>9 DEF Stage, Authorities
  <2>3. QED
    BY <1>2, <2>1, <2>2 DEF Forward, WithinEdits
<1>10. ASSUME tree' = [tree EXCEPT !.gates = Nothing, !.done = Nothing]
      PROVE  Goal
  <2>1. /\ tree'.own = tree.own /\ tree'.shared = tree.shared /\ tree'.rest = tree.rest
        /\ tree'.evidence = tree.evidence /\ tree'.stray = tree.stray
        /\ tree'.ticks = tree.ticks /\ tree'.authority = tree.authority
        /\ tree'.index = tree.index /\ tree'.gates = Nothing /\ tree'.done = Nothing
        /\ IsTree(tree')
    BY <1>1, <1>10 DEF IsTree
  <2>2. QED
    BY <1>2, <2>1 DEF Forward, WithinEdits
<1>11. QED
  BY <1>3, <1>4, <1>5, <1>6, <1>7, <1>8, <1>9, <1>10 DEF EditTree

LEMMA EditKeeps == GatesInv /\ EditTree => GatesInv'
<1> SUFFICES ASSUME GatesInv, EditTree
             PROVE  GatesInv'
  OBVIOUS
<1>1. /\ UNCHANGED <<phase, last, accepted, log, recorder>>
      /\ trouble' \in Nat
  BY DEF GatesInv, EditTree, Spend
<1>2. QED
  BY <1>1, EditForward, ForwardFits, TreeStep

LEMMA AuthorityKeeps == GatesInv /\ GenerateAuthority => GatesInv'
<1> SUFFICES ASSUME GatesInv, GenerateAuthority
             PROVE  GatesInv'
  OBVIOUS
<1>1. /\ UNCHANGED <<phase, last, accepted, log, recorder, trouble>>
      /\ tree' = [tree EXCEPT !.authority = "bound"]
      /\ TreeFits(phase, trouble, tree) /\ IsTree(tree) /\ trouble \in Nat
  BY DEF GatesInv, TreeFits, GenerateAuthority
<1>2. Forward(tree, tree) /\ WithinEdits(tree, trouble)
  BY StaysAsItIs
<1>3. /\ tree'.own = tree.own /\ tree'.shared = tree.shared /\ tree'.rest = tree.rest
      /\ tree'.evidence = tree.evidence /\ tree'.stray = tree.stray
      /\ tree'.ticks = tree.ticks /\ tree'.authority = "bound"
      /\ tree'.index = tree.index /\ tree'.gates = tree.gates /\ tree'.done = tree.done
      /\ IsTree(tree')
  BY <1>1 DEF IsTree
<1>4. /\ "bound" \in Authorities
      /\ AuthorityOf[phase].exclusive => Stage(tree.authority) <= Stage("bound")
  BY GatesAssumption DEF GatesAssumption, GenerateAuthority, Stage, Authorities
<1>5. Forward(tree, tree') /\ WithinEdits(tree', trouble')
  BY <1>1, <1>2, <1>3, <1>4 DEF Forward, WithinEdits
<1>6. recorder = "running" => tree'.index = tree.index
  BY <1>3 DEF GenerateAuthority
<1>7. QED
  BY <1>1, <1>3, <1>5, <1>6, ForwardFits, TreeStep

LEMMA IndexKeeps == GatesInv /\ GenerateIndex => GatesInv'
<1> SUFFICES ASSUME GatesInv, GenerateIndex
             PROVE  GatesInv'
  OBVIOUS
<1>1. /\ UNCHANGED <<phase, last, accepted, log, recorder, trouble>>
      /\ tree' = [tree EXCEPT !.index = Inventory(tree)]
      /\ TreeFits(phase, trouble, tree) /\ IsTree(tree) /\ trouble \in Nat
  BY DEF GatesInv, TreeFits, GenerateIndex
<1>2. Forward(tree, tree) /\ WithinEdits(tree, trouble)
  BY StaysAsItIs
<1>3. /\ tree'.own = tree.own /\ tree'.shared = tree.shared /\ tree'.rest = tree.rest
      /\ tree'.evidence = tree.evidence /\ tree'.stray = tree.stray
      /\ tree'.ticks = tree.ticks /\ tree'.authority = tree.authority
      /\ tree'.gates = tree.gates /\ tree'.done = tree.done
      /\ IsTree(tree')
  BY <1>1 DEF IsTree
<1>5. Forward(tree, tree') /\ WithinEdits(tree', trouble')
  BY <1>1, <1>2, <1>3 DEF Forward, WithinEdits
<1>6. recorder = "running" => tree'.index = tree.index
  BY <1>3 DEF GenerateIndex
<1>7. QED
  BY <1>1, <1>3, <1>5, <1>6, ForwardFits, TreeStep

LEMMA TickKeeps == GatesInv /\ Tick => GatesInv'
<1> SUFFICES ASSUME GatesInv, Tick
             PROVE  GatesInv'
  OBVIOUS
<1>1. /\ UNCHANGED <<phase, last, accepted, log, recorder, trouble>>
      /\ tree' = [tree EXCEPT !.ticks = @ \cup {"own"}]
      /\ TreeFits(phase, trouble, tree) /\ IsTree(tree) /\ trouble \in Nat
  BY DEF GatesInv, TreeFits, Tick
<1>2. Forward(tree, tree) /\ WithinEdits(tree, trouble)
  BY StaysAsItIs
<1>3. /\ tree'.own = tree.own /\ tree'.shared = tree.shared /\ tree'.rest = tree.rest
      /\ tree'.evidence = tree.evidence /\ tree'.stray = tree.stray
      /\ tree'.authority = tree.authority /\ tree'.index = tree.index
      /\ tree'.gates = tree.gates /\ tree'.done = tree.done
      /\ IsTree(tree')
  BY <1>1 DEF IsTree
<1>5. Forward(tree, tree') /\ WithinEdits(tree', trouble')
  BY <1>1, <1>2, <1>3 DEF Forward, WithinEdits
<1>6. recorder = "running" => tree'.index = tree.index
  BY <1>3 DEF Tick
<1>7. QED
  BY <1>1, <1>3, <1>5, <1>6, ForwardFits, TreeStep

-----------------------------------------------------------------------------
(* The steps of the recorder.                                              *)
LEMMA LogStep ==
    ASSUME GatesInv, UNCHANGED <<phase, last, accepted, tree>>,
           trouble' \in Nat, trouble <= trouble',
           RecordFits(phase, accepted, log', Sources(tree)),
           recorder' = "running" => log'.start[6] = tree.index
    PROVE  GatesInv'
<1>1. Sources(tree)' = Sources(tree)
  BY DEF Sources
<1>2. TreeFits(phase, trouble', tree)
  BY StaysAsItIs, ForwardFits
<1>3. QED
  BY <1>1, <1>2 DEF GatesInv

LEMMA StartKeeps == GatesInv /\ StartRun => GatesInv'
<1> SUFFICES ASSUME GatesInv, StartRun
             PROVE  GatesInv'
  OBVIOUS
<1>1. PICK checkouts \in {"exact", "mended"} :
        /\ Recording.exact => checkouts = "exact"
        /\ log' = [start |-> Sources(tree), rows |-> <<>>, end |-> <<>>,
                   checkouts |-> checkouts, seen |-> {}]
  BY DEF StartRun
<1>2. UNCHANGED <<phase, last, accepted, tree, trouble>> /\ trouble \in Nat
  BY DEF GatesInv, StartRun
<1>3. /\ ListFits(phase, Sources(tree)) /\ NotAfter(phase, Sources(tree), Sources(tree))
      /\ Sources(tree)[6] = tree.index
  BY SourcesFit, SameIsNotAfter DEF GatesInv
<1>4. IsTraced(phase, log', Sources(tree))
  BY <1>1, <1>3 DEF IsTraced
<1>5. RowsFit(phase, accepted, log')
  <2>1. log'.rows = <<>> /\ log'.rows \in Seq(Rows) /\ Len(log'.rows) = 0
    BY <1>1
  <2>2. Len(RecordingOf[phase].executed) \in Nat
    BY ExecutedIsRequired, TablesFit DEF GatesInv, TableFits
  <2>3. log'.end = <<>> /\ (RecordingOf[phase].exact => log'.checkouts = "exact")
    BY <1>1 DEF Recording
  <2>4. QED
    BY <1>1, <2>1, <2>2, <2>3 DEF RowsFit
<1>6. QED
  BY <1>1, <1>2, <1>3, <1>4, <1>5, LogStep DEF RecordFits

\* A gate says whether it passed.
LEMMA PassesSays ==
    ASSUME NEW gate
    PROVE  /\ Passes(gate, tree) \in BOOLEAN
           /\ Passes(gate, tree) /\ gate[1] = "replay" =>
                log.checkouts = "mended" \/ gate[2] \in accepted
BY DEF Passes, TreeValidates, IsInherited, Works

LEMMA RunKeeps == GatesInv /\ RunGate => GatesInv'
<1> SUFFICES ASSUME GatesInv, RunGate
             PROVE  GatesInv'
  OBVIOUS
<1> DEFINE n == Len(log.rows)
           gate == Recording.executed[n + 1]
           now == Sources(tree)
<1>1. /\ recorder = "running" /\ n < Len(Recording.executed)
      /\ UNCHANGED <<phase, last, accepted, tree, recorder>>
      /\ trouble \in Nat /\ trouble' \in Nat /\ trouble <= trouble'
      /\ RecordFits(phase, accepted, log, now) /\ log.start[6] = tree.index
  BY DEF GatesInv, RunGate, Spend
<1>2. PICK ok \in {Passes(gate, tree), FALSE} :
        log' = [log EXCEPT
                 !.rows = Append(@, [gate |-> gate, ok |-> ok,
                                     shows |-> gate[1] \in Boundary.shown
                                                => ok /\ tree.own.quality = "good"]),
                 !.seen = @ \cup {now}]
  BY DEF RunGate
<1> DEFINE shows == gate[1] \in Boundary.shown => ok /\ tree.own.quality = "good"
           entry == [gate |-> gate, ok |-> ok, shows |-> shows]
<1>3. /\ log'.start = log.start /\ log'.end = log.end /\ log'.checkouts = log.checkouts
      /\ log'.rows = Append(log.rows, entry) /\ log'.seen = log.seen \cup {now}
      /\ log' = [start |-> log'.start, rows |-> log'.rows, end |-> log'.end,
                 checkouts |-> log'.checkouts, seen |-> log'.seen]
  BY <1>1, <1>2 DEF RecordFits, IsTraced
<1>4. ListFits(phase, now) /\ NotAfter(phase, now, now) /\ now[6] = tree.index /\ now[1] = tree.own
  BY SourcesFit, SameIsNotAfter DEF GatesInv
<1>5. IsTraced(phase, log', now)
  BY <1>1, <1>3, <1>4 DEF RecordFits, IsTraced
<1>6. RowsFit(phase, accepted, log')
  <2>1. /\ Recording.executed \in Seq(GateNames) /\ log.rows \in Seq(Rows) /\ n \in Nat
        /\ RowsFit(phase, accepted, log) /\ Recording = RecordingOf[phase]
    BY <1>1, ExecutedIsRequired, TablesFit DEF GatesInv, TableFits, Recording, RecordFits, RowsFit
  <2>2. gate \in GateNames
    BY <1>1, <2>1
  <2>3. ok \in BOOLEAN /\ (ok /\ gate[1] = "replay" =>
                             log.checkouts = "mended" \/ gate[2] \in accepted)
    BY PassesSays
  <2>4. shows \in BOOLEAN
    OBVIOUS
  <2>5. entry \in Rows /\ entry.gate = gate /\ entry.ok = ok /\ entry.shows = shows
    BY <2>2, <2>3, <2>4 DEF Rows
  <2>6. ReplayFits(entry, log'.checkouts, accepted)
    BY <1>3, <2>3, <2>5 DEF ReplayFits
  <2>7. ShowsFit(phase, entry, log'.seen)
    BY <1>3, <1>4, <2>5 DEF ShowsFit, Boundary
  <2> HIDE DEF entry
  <2>8. /\ log'.rows \in Seq(Rows) /\ Len(log'.rows) = n + 1
        /\ \A i \in 1..n : log'.rows[i] = log.rows[i]
        /\ log'.rows[n + 1] = entry
    BY <1>3, <2>1, <2>5
  <2>9. ASSUME NEW i \in 1..Len(log'.rows)
        PROVE  /\ log'.rows[i].gate = Recording.executed[i]
               /\ ReplayFits(log'.rows[i], log'.checkouts, accepted)
               /\ ShowsFit(phase, log'.rows[i], log'.seen)
    <3>1. CASE i = n + 1
      BY <2>5, <2>6, <2>7, <2>8, <3>1
    <3>2. CASE i # n + 1
      <4>1. i \in 1..n /\ log'.rows[i] = log.rows[i]
        BY <2>1, <2>8, <3>2
      <4>2. ShowsFit(phase, log.rows[i], log.seen)
        BY <2>1, <4>1 DEF RowsFit
      <4>3. ShowsFit(phase, log.rows[i], log'.seen)
        BY <1>3, <4>2 DEF ShowsFit
      <4>4. QED
        BY <1>3, <2>1, <4>1, <4>3 DEF RowsFit
    <3>3. QED
      BY <3>1, <3>2
  <2>10. log.end = <<>>
    BY <1>1, <2>1 DEF RowsFit
  <2>11. Len(log'.rows) <= Len(Recording.executed)
    BY <1>1, <2>1, <2>8
  <2>12. QED
    BY <1>3, <2>1, <2>8, <2>9, <2>10, <2>11 DEF RowsFit
<1>7. QED
  BY <1>1, <1>3, <1>5, <1>6, LogStep DEF RecordFits

LEMMA EndKeeps == GatesInv /\ EndRun => GatesInv'
<1> SUFFICES ASSUME GatesInv, EndRun
             PROVE  GatesInv'
  OBVIOUS
<1>1. /\ Len(log.rows) = Len(Recording.executed) /\ recorder' = "idle"
      /\ UNCHANGED <<phase, last, accepted, tree, trouble>> /\ trouble \in Nat
      /\ RecordFits(phase, accepted, log, Sources(tree))
      /\ log' = [log EXCEPT !.end = Sources(tree)]
  BY DEF GatesInv, EndRun
<1>2. /\ log'.start = log.start /\ log'.checkouts = log.checkouts
      /\ log'.rows = log.rows /\ log'.seen = log.seen
      /\ log' = [start |-> log'.start, rows |-> log'.rows, end |-> log'.end,
                 checkouts |-> log'.checkouts, seen |-> log'.seen]
  BY <1>1 DEF RecordFits, IsTraced
<1>3. IsTraced(phase, log', Sources(tree))
  BY <1>1, <1>2 DEF RecordFits, IsTraced
<1>4. RowsFit(phase, accepted, log')
  BY <1>1, <1>2 DEF RecordFits, RowsFit, Recording
<1>5. QED
  BY <1>1, <1>3, <1>4, LogStep DEF RecordFits

\* The programs that stop, and those that look at the tree, leave it alone.
LEMMA QuietKeeps ==
    ASSUME GatesInv, UNCHANGED <<phase, last, accepted, tree, log>>,
           trouble' \in Nat, trouble <= trouble', recorder' \in {recorder, "idle"}
    PROVE  GatesInv'
<1>1. Sources(tree)' = Sources(tree)
  BY DEF Sources
<1>2. TreeFits(phase, trouble', tree)
  BY StaysAsItIs, ForwardFits
<1>3. QED
  BY <1>1, <1>2 DEF GatesInv

-----------------------------------------------------------------------------
(* The steps of publication.                                               *)

LEMMA GatesKeep == GatesInv /\ WriteGates => GatesInv'
<1> SUFFICES ASSUME GatesInv, WriteGates
             PROVE  GatesInv'
  OBVIOUS
<1>1. /\ UNCHANGED <<phase, last, accepted, log, recorder, trouble>>
      /\ TreeFits(phase, trouble, tree) /\ IsTree(tree) /\ trouble \in Nat
  BY DEF GatesInv, TreeFits, WriteGates
<1>2. CASE UNCHANGED tree
  BY <1>1, <1>2, QuietKeeps
<1>3. CASE tree' = [tree EXCEPT !.gates = log]
  <2>1. /\ tree'.own = tree.own /\ tree'.shared = tree.shared /\ tree'.rest = tree.rest
      /\ tree'.evidence = tree.evidence /\ tree'.stray = tree.stray
      /\ tree'.ticks = tree.ticks /\ tree'.authority = tree.authority
      /\ tree'.index = tree.index /\ tree'.gates = log /\ tree'.done = tree.done
      /\ IsTree(tree')
    BY <1>1, <1>3 DEF IsTree
  <2>2. Forward(tree, tree) /\ WithinEdits(tree, trouble)
    BY StaysAsItIs
  <2>3. Forward(tree, tree') /\ WithinEdits(tree', trouble')
    BY <1>1, <2>1, <2>2 DEF Forward, WithinEdits
  <2>4. QED
    BY <1>1, <2>1, <2>3, ForwardFits, TreeStep
<1>4. QED
  BY <1>2, <1>3 DEF WriteGates

LEMMA CompletionKeeps == GatesInv /\ WriteCompletion => GatesInv'
<1> SUFFICES ASSUME GatesInv, WriteCompletion
             PROVE  GatesInv'
  OBVIOUS
<1>1. /\ UNCHANGED <<phase, last, accepted, log, recorder, trouble>>
      /\ TreeFits(phase, trouble, tree) /\ IsTree(tree) /\ trouble \in Nat
  BY DEF GatesInv, TreeFits, WriteCompletion
<1>2. CASE UNCHANGED tree
  BY <1>1, <1>2, QuietKeeps
<1>3. CASE tree' = [tree EXCEPT !.done = Completion(tree)]
  <2>1. /\ tree'.own = tree.own /\ tree'.shared = tree.shared /\ tree'.rest = tree.rest
      /\ tree'.evidence = tree.evidence /\ tree'.stray = tree.stray
      /\ tree'.ticks = tree.ticks /\ tree'.authority = tree.authority
      /\ tree'.index = tree.index /\ tree'.gates = tree.gates
      /\ IsTree(tree')
    BY <1>1, <1>3 DEF IsTree
  <2>2. Forward(tree, tree) /\ WithinEdits(tree, trouble)
    BY StaysAsItIs
  <2>3. Forward(tree, tree') /\ WithinEdits(tree', trouble')
    BY <1>1, <2>1, <2>2 DEF Forward, WithinEdits
  <2>4. QED
    BY <1>1, <2>1, <2>3, ForwardFits, TreeStep
<1>4. QED
  BY <1>2, <1>3 DEF WriteCompletion

LEMMA RestKeeps ==
    GatesInv /\ (InterruptRun \/ BeginPublish \/ EndPublish \/ InterruptPublish) => GatesInv'
<1> SUFFICES ASSUME GatesInv, InterruptRun \/ BeginPublish \/ EndPublish \/ InterruptPublish
             PROVE  GatesInv'
  OBVIOUS
<1>1. trouble \in Nat
  BY DEF GatesInv
<1>2. /\ UNCHANGED <<phase, last, accepted, tree, log>>
      /\ trouble' \in Nat /\ trouble <= trouble' /\ recorder' \in {recorder, "idle"}
  BY <1>1 DEF InterruptRun, BeginPublish, EndPublish, InterruptPublish, Spend
<1>3. QED
  BY <1>2, QuietKeeps

\* The tree at the commit of a phase.
LEMMA BaseFits ==
    ASSUME NEW p \in AllPhases
    PROVE  TreeFits(p, 0, Base(p)) /\ Base(p).gates = Nothing
<1>1. AsCommitted \in Made /\ AsCommitted.version = 0
  BY GatesAssumption DEF GatesAssumption, AsCommitted, Content, Made
<1>2. IsTree(Base(p))
  BY DEF IsTree, Base
<1>3. QED
  BY <1>1, <1>2 DEF TreeFits, Base, Authorities

LEMMA MergeKeeps == GatesInv /\ Merge => GatesInv'
<1> SUFFICES ASSUME GatesInv, Merge
             PROVE  GatesInv'
  OBVIOUS
<1>1. /\ phase' = phase + 1 /\ phase' \in AllPhases /\ last' \in AllPhases
      /\ tree' = Base(phase') /\ log' = Nothing /\ trouble' = 0 /\ recorder' # "running"
  BY DEF GatesInv, Merge, AllPhases
<1>2. QED
  BY <1>1, BaseFits DEF GatesInv

LEMMA GatesStart == GatesInit => GatesInv
<1> SUFFICES ASSUME GatesInit
             PROVE  GatesInv
  OBVIOUS
<1>1. /\ phase \in AllPhases /\ last \in AllPhases /\ tree = Base(phase)
      /\ log = Nothing /\ trouble = 0 /\ recorder # "running"
  BY GatesAssumption DEF GatesAssumption, GatesInit, AllPhases
<1>2. QED
  BY <1>1, BaseFits DEF GatesInv

\* What a run of the gates has recorded is true of the sources it ran on, at every moment.
THEOREM RecordsAreTrue == GatesSpec => []GatesInv
<1>1. ASSUME GatesInv, UNCHANGED gateVars
      PROVE  GatesInv'
  <2>1. trouble \in Nat /\ UNCHANGED <<phase, last, accepted, tree, log, trouble, recorder>>
    BY <1>1 DEF GatesInv, gateVars
  <2>2. QED
    BY <1>1, <2>1, QuietKeeps
<1>2. GatesInv /\ [GatesNext]_gateVars => GatesInv'
  BY <1>1, EditKeeps, AuthorityKeeps, IndexKeeps, TickKeeps, StartKeeps, RunKeeps, EndKeeps,
     RestKeeps, GatesKeep, CompletionKeeps, MergeKeeps DEF GatesNext
<1>3. QED
  BY <1>2, GatesStart, PTL DEF GatesSpec

-----------------------------------------------------------------------------
(* The properties.                                                         *)
\* A record with which the gates pass: a row for each gate that is required, all of them ok.
LEMMA PassedRecord ==
    ASSUME GatesInv, NEW r, RecordFits(phase, accepted, r, Sources(tree)),
           GatesPass(r, Sources(tree))
    PROVE  /\ r.rows \in Seq(Rows) /\ Len(r.rows) = Len(Boundary.required) /\ Len(r.rows) > 0
           /\ Boundary.required \in Seq(GateNames)
           /\ \A i \in 1..Len(r.rows) : r.rows[i].gate = Boundary.required[i] /\ r.rows[i].ok
           /\ r.seen # {}
<1>1. /\ RecordingOf[phase].executed = Boundary.required
      /\ Boundary.required \in Seq(GateNames) /\ Len(Boundary.required) > 0
  BY ExecutedIsRequired, TablesFit DEF GatesInv, TableFits, Boundary
<1>2. RowsFit(phase, accepted, r) /\ r.rows \in Seq(Rows)
  BY DEF RecordFits, RowsFit
<1>3. /\ DOMAIN r.rows = 1..Len(r.rows) /\ Len(r.rows) \in Nat
      /\ \A i \in 1..Len(r.rows) : r.rows[i].ok
  BY <1>2 DEF GatesPass
<1>4. Len(r.rows) = Len(Boundary.required)
  <2>1. Names(r.rows) = [i \in 1..Len(r.rows) |-> r.rows[i].gate]
    BY <1>3 DEF Names
  <2>2. \A i \in 1..Len(r.rows) : r.rows[i].gate \in GateNames
    <3>1. \A i \in 1..Len(r.rows) : r.rows[i] \in Rows
      BY <1>2
    <3>2. QED
      BY <3>1 DEF Rows
  <2>3. Names(r.rows) \in [1..Len(r.rows) -> GateNames]
    BY <2>1, <2>2
  <2>4. Names(r.rows) \in Seq(GateNames) /\ Len(Names(r.rows)) = Len(r.rows)
    BY <1>3, <2>3
  <2>5. QED
    BY <1>1, <2>4 DEF GatesPass, SameGates
<1>5. \A i \in 1..Len(r.rows) : r.rows[i].gate = Boundary.required[i]
  BY <1>1, <1>2 DEF RowsFit
<1>6. r.seen # {}
  BY <1>1, <1>2, <1>4 DEF RowsFit
<1>7. QED
  BY <1>1, <1>2, <1>3, <1>4, <1>5, <1>6

LEMMA FinalRecord ==
    ASSUME GatesInv, Final(tree)
    PROVE  /\ RecordFits(phase, accepted, tree.gates, Sources(tree))
           /\ GatesPass(tree.gates, Sources(tree))
BY DEF GatesInv, Final, GatesPass

\* The final verdict of a phase stands for an execution of every gate on the sources it judges.
THEOREM AcceptedWasRun == GatesSpec => []AcceptedWasPassed
<1>1. GatesInv => AcceptedWasPassed
  <2> SUFFICES ASSUME GatesInv, Final(tree)
               PROVE  /\ AuthorityOf[phase].exclusive => tree.gates.seen = {Sources(tree)}
                      /\ \A i \in DOMAIN Boundary.required :
                           \E j \in DOMAIN tree.gates.rows :
                             /\ tree.gates.rows[j].gate = Boundary.required[i]
                             /\ tree.gates.rows[j].ok
    BY DEF AcceptedWasPassed
  <2> DEFINE r == tree.gates
             now == Sources(tree)
  <2>1. RecordFits(phase, accepted, r, now) /\ GatesPass(r, now)
    BY FinalRecord
  <2>2. /\ r.rows \in Seq(Rows) /\ Len(r.rows) = Len(Boundary.required)
        /\ Boundary.required \in Seq(GateNames)
        /\ \A i \in 1..Len(r.rows) : r.rows[i].gate = Boundary.required[i] /\ r.rows[i].ok
        /\ r.seen # {}
    BY <2>1, PassedRecord
  <2>3. ASSUME AuthorityOf[phase].exclusive, NEW s \in r.seen
        PROVE  s = now
    <3>1. /\ ListFits(phase, s) /\ NotAfter(phase, r.start, s) /\ NotAfter(phase, s, now)
          /\ s[6] = r.start[6] /\ r.start = now
      BY <2>1 DEF RecordFits, IsTraced, GatesPass
    <3>2. ListFits(phase, now) /\ phase \in Nat
      BY SourcesFit DEF GatesInv, AllPhases
    <3>3. QED
      BY <2>3, <3>1, <3>2, NotAfterEachOther
  <2>4. AuthorityOf[phase].exclusive => r.seen = {now}
    BY <2>2, <2>3
  <2>5. DOMAIN Boundary.required = 1..Len(r.rows) /\ DOMAIN r.rows = 1..Len(r.rows)
    BY <2>2
  <2>6. QED
    BY <2>2, <2>4, <2>5
<1>2. QED
  BY <1>1, RecordsAreTrue, PTL

\* A phase has the final verdict only on top of phases that have it, where checkouts are exact.
THEOREM AcceptedAreBelow == GatesSpec => []EarlierAreAccepted
<1>1. GatesInv => EarlierAreAccepted
  <2> SUFFICES ASSUME GatesInv, Final(tree), Recording.exact, NEW q \in Earlier
               PROVE  q \in accepted
    BY DEF EarlierAreAccepted
  <2> DEFINE r == tree.gates
  <2>1. RecordFits(phase, accepted, r, Sources(tree)) /\ GatesPass(r, Sources(tree))
    BY FinalRecord
  <2>2. /\ Len(r.rows) = Len(Boundary.required)
        /\ Boundary.required \in Seq(GateNames)
        /\ \A i \in 1..Len(r.rows) : r.rows[i].gate = Boundary.required[i] /\ r.rows[i].ok
    BY <2>1, PassedRecord
  <2>3. PICK i \in DOMAIN Boundary.required : Boundary.required[i] = <<"replay", q>>
    BY TablesFit DEF GatesInv, TableFits, ReplaysEach, Boundary, Recording, Earlier
  <2>4. i \in 1..Len(r.rows) /\ r.rows[i].gate = <<"replay", q>> /\ r.rows[i].ok
    BY <2>2, <2>3
  <2>5. ReplayFits(r.rows[i], r.checkouts, accepted) /\ r.checkouts = "exact"
    BY <2>1, <2>4 DEF RecordFits, RowsFit, Recording
  <2>6. QED
    BY <2>4, <2>5 DEF ReplayFits
<1>2. QED
  BY <1>1, RecordsAreTrue, PTL

\* The validator takes every run in which all gates passed on a tree that did not change.
THEOREM CleanRunsAreTaken == GatesSpec => []CleanRunIsTaken
<1>1. GatesInv => CleanRunIsTaken
  <2> SUFFICES ASSUME GatesInv, log # Nothing,
                      log.start = Sources(tree), log.end = Sources(tree),
                      \A i \in DOMAIN log.rows : log.rows[i].ok,
                      tree.own.quality = "good"
               PROVE  GatesPass(log, Sources(tree))
    BY DEF CleanRunIsTaken
  <2> DEFINE now == Sources(tree)
  <2>1. /\ IsTraced(phase, log, now) /\ RowsFit(phase, accepted, log)
        /\ phase \in AllPhases /\ phase \in Nat
    BY DEF GatesInv, RecordFits, AllPhases
  <2>2. ListFits(phase, now) /\ now[1] = tree.own
    BY SourcesFit DEF GatesInv
  <2>3. log.end # <<>>
    <3>1. Sources(tree) # <<>>
      BY DEF Sources
    <3>2. QED
      BY <3>1
  <2>4. /\ RecordingOf[phase].executed = Boundary.required
        /\ Boundary.required \in Seq(GateNames)
    BY <2>1, ExecutedIsRequired, TablesFit DEF TableFits, Boundary
  <2>5. /\ log.rows \in Seq(Rows) /\ Len(log.rows) = Len(Boundary.required)
        /\ DOMAIN log.rows = 1..Len(log.rows)
        /\ \A i \in 1..Len(log.rows) : log.rows[i].gate = Boundary.required[i]
    BY <2>1, <2>3, <2>4 DEF RowsFit
  <2>6. Names(log.rows) = Boundary.required
    <3>1. Names(log.rows) = [i \in 1..Len(Boundary.required) |-> Boundary.required[i]]
      BY <2>5 DEF Names
    <3>2. QED
      BY <2>4, <3>1
  <2>7. SameGates(Names(log.rows), Boundary.required)
    BY <2>6 DEF SameGates
  <2>8. \A s \in log.seen : s[1].quality = "good"
    <3>1. ASSUME NEW s \in log.seen
          PROVE  s[1] = now[1]
      <4>1. ListFits(phase, s) /\ NotAfter(phase, now, s) /\ NotAfter(phase, s, now)
        BY <2>1 DEF IsTraced
      <4>2. QED
        BY <2>1, <2>2, <4>1, NotAfterEachOther
    <3>2. QED
      BY <2>2, <3>1
  <2>9. \A i \in 1..Len(log.rows) :
          log.rows[i].gate[1] \in Boundary.shown => log.rows[i].shows
    BY <2>1, <2>5, <2>8 DEF RowsFit, ShowsFit, Boundary
  <2>10. QED
    BY <2>5, <2>7, <2>9 DEF GatesPass
<1>2. QED
  BY <1>1, RecordsAreTrue, PTL
=============================================================================
