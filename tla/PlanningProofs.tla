--------------------------- MODULE PlanningProofs ---------------------------
(***************************************************************************)
(* Two results on the planning documents.  The walk over prerequisites     *)
(* decides the transitive rules, for any classification of any finite      *)
(* number of families: what it accepts is sound, and what it refuses is    *)
(* not.  And a pass of check_all says what it is taken for, whatever the   *)
(* documents; when author and generators have nothing left to write, it    *)
(* is reached.                                                             *)
(*                                                                         *)
(* Reachable is an iteration, so the first lemmas say what it is good for: *)
(* it stays inside every set that has the prerequisites of its members     *)
(* (InsideClosed), and it has the end of every path that is no longer than *)
(* the number of families (AlongPath).                                     *)
(***************************************************************************)
EXTENDS PrerequisiteWalk, PlanningDocuments, FiniteSetTheorems, WellFoundedInduction,
        SequenceTheorems, TLAPS

Needed(R, f) == R[f].product.prerequisites

-----------------------------------------------------------------------------
(* Reachable prerequisites. *)

(* A set of naturals that is not empty has a least element. *)
LEMMA LeastNatural ==
  ASSUME NEW T \in SUBSET Nat, T # {}
  PROVE  \E x \in T : \A y \in T : x <= y
<1> DEFINE L == {p \in Nat \X Nat : p[1] < p[2]}
<1>1. IsWellFoundedOn(L, Nat)
  BY NatLessThanWellFounded DEF OpToRel
<1>2. PICK x \in T : \A y \in T : ~(<<y, x>> \in L)
  BY <1>1, WFMin, Zenon
<1>3. ASSUME NEW y \in T
      PROVE  x <= y
  <2>1. <<y, x>> \in Nat \X Nat
    OBVIOUS
  <2>2. ~(y < x)
    BY <1>2, <2>1
  <2> QED  BY <2>2
<1> QED  BY <1>3

(* What holds at zero and goes on from each number to the next holds up to any bound. *)
LEMMA UpTo ==
  ASSUME NEW S, 0 \in S, NEW m \in Nat, \A n \in 0 .. m : n # 0 /\ n - 1 \in S => n \in S
  PROVE  0 .. m \subseteq S
<1> SUFFICES ASSUME {n \in 0 .. m : n \notin S} # {} PROVE FALSE
  OBVIOUS
<1> DEFINE T == {n \in 0 .. m : n \notin S}
<1>1. PICK n \in T : \A y \in T : n <= y
  <2>1. T \in SUBSET Nat /\ T # {}
    OBVIOUS
  <2> HIDE DEF T
  <2> QED  BY <2>1, LeastNatural
<1>2. n # 0 /\ n \in 0 .. m /\ n \notin S
  OBVIOUS
<1>3. n - 1 \in 0 .. m /\ ~(n <= n - 1)
  BY <1>2
<1>4. n - 1 \in S
  BY <1>1, <1>3
<1> QED  BY <1>2, <1>4

(* One more step of the iteration. *)
Onward(R, S) == S \cup UNION {R[g].product.prerequisites : g \in S \cap DOMAIN R}

Iterates(R, f, m, s) ==
  s = [n \in 0 .. m |-> IF n = 0 THEN R[f].product.prerequisites ELSE Onward(R, s[n - 1])]

(* The iteration exists for any number of steps. *)
LEMMA IterationExists ==
  ASSUME NEW R, NEW f, NEW m \in Nat
  PROVE  \E s : Iterates(R, f, m, s)
<1> DEFINE S == {n \in Nat : \E s : Iterates(R, f, n, s)}
<1>1. 0 \in S
  <2> DEFINE s == [n \in 0 .. 0 |-> R[f].product.prerequisites]
  <2>1. Iterates(R, f, 0, s)
    BY DEF Iterates
  <2> QED  BY <2>1
<1>2. ASSUME NEW n \in 0 .. m, n # 0, n - 1 \in S PROVE n \in S
  <2>1. PICK s : Iterates(R, f, n - 1, s)
    BY <1>2
  <2> DEFINE t == [k \in 0 .. n |-> IF k = n THEN Onward(R, s[n - 1]) ELSE s[k]]
  <2>2. \A k \in 0 .. n : t[k] = IF k = 0 THEN R[f].product.prerequisites ELSE Onward(R, t[k - 1])
    <3> SUFFICES ASSUME NEW k \in 0 .. n
                 PROVE  t[k] = IF k = 0 THEN R[f].product.prerequisites ELSE Onward(R, t[k - 1])
      OBVIOUS
    <3>1. CASE k = n
      <4>1. n - 1 \in 0 .. n /\ n - 1 # n
        BY <1>2
      <4>2. t[n - 1] = s[n - 1] /\ t[k] = Onward(R, s[n - 1])
        BY <3>1, <4>1
      <4> QED  BY <1>2, <3>1, <4>2
    <3>2. CASE k # n /\ k # 0
      <4>1. k \in 0 .. (n - 1) /\ k - 1 \in 0 .. n /\ k - 1 # n
        BY <1>2, <3>2
      <4>2. s[k] = Onward(R, s[k - 1])
        BY <2>1, <3>2, <4>1 DEF Iterates
      <4>3. t[k] = s[k] /\ t[k - 1] = s[k - 1]
        BY <3>2, <4>1
      <4> QED  BY <3>2, <4>2, <4>3
    <3>3. CASE k # n /\ k = 0
      <4>1. k \in 0 .. (n - 1)
        BY <1>2, <3>3
      <4>2. s[k] = R[f].product.prerequisites
        BY <2>1, <3>3, <4>1 DEF Iterates
      <4> QED  BY <3>3, <4>2
    <3> QED  BY <3>1, <3>2, <3>3
  <2>3. Iterates(R, f, n, t)
    <3>1. t = [k \in 0 .. n |-> t[k]]
      OBVIOUS
    <3> HIDE DEF t
    <3> QED  BY <2>2, <3>1 DEF Iterates
  <2> QED  BY <2>3
<1>3. 0 .. m \subseteq S
  <2> HIDE DEF S
  <2> QED  BY <1>1, <1>2, UpTo
<1> QED  BY <1>3

(* Reachable is the last of its iterates. *)
LEMMA ReachableIterates ==
  ASSUME NEW R, NEW f, IsFiniteSet(DOMAIN R)
  PROVE  \E s : Iterates(R, f, Cardinality(DOMAIN R), s) /\ Reachable(R, f) = s[Cardinality(DOMAIN R)]
<1> DEFINE K == Cardinality(DOMAIN R)
           Step(S) == S \cup UNION {R[g].product.prerequisites : g \in S \cap DOMAIN R}
           reach[n \in 0 .. K] == IF n = 0 THEN R[f].product.prerequisites ELSE Step(reach[n - 1])
<1>1. Reachable(R, f) = reach[K]
  BY DEF Reachable
<1>2. reach = CHOOSE s : Iterates(R, f, K, s)
  BY DEF Iterates, Onward
<1>3. K \in Nat
  BY FS_CardinalityType
<1> HIDE DEF reach, K
<1>4. Iterates(R, f, K, reach)
  BY <1>2, <1>3, IterationExists
<1> QED  BY <1>1, <1>4 DEF K

(* What Reachable has stays inside a set that has the prerequisites of its members. *)
LEMMA InsideClosed ==
  ASSUME NEW R, NEW f, IsFiniteSet(DOMAIN R), NEW C,
         Needed(R, f) \subseteq C, \A g \in C \cap DOMAIN R : Needed(R, g) \subseteq C
  PROVE  Reachable(R, f) \subseteq C
<1> DEFINE K == Cardinality(DOMAIN R)
<1>1. K \in Nat
  BY FS_CardinalityType
<1>2. PICK s : Iterates(R, f, K, s) /\ Reachable(R, f) = s[K]
  BY ReachableIterates
<1> HIDE DEF K
<1> DEFINE S == {n \in 0 .. K : s[n] \subseteq C}
<1>3. 0 \in S
  BY <1>1, <1>2 DEF Iterates, Needed
<1>4. ASSUME NEW n \in 0 .. K, n # 0, n - 1 \in S PROVE n \in S
  <2>1. s[n] = Onward(R, s[n - 1])
    BY <1>2, <1>4 DEF Iterates
  <2>2. s[n - 1] \subseteq C
    BY <1>4
  <2> QED  BY <2>1, <2>2 DEF Onward, Needed
<1>5. 0 .. K \subseteq S
  <2> HIDE DEF S
  <2> QED  BY <1>1, <1>3, <1>4, UpTo
<1> QED  BY <1>1, <1>2, <1>5

(* Reachable has the end of a path that is no longer than the number of families. *)
LEMMA AlongPath ==
  ASSUME NEW R, NEW f, IsFiniteSet(DOMAIN R), NEW m \in Nat \ {0}, m <= Cardinality(DOMAIN R), NEW p,
         p[1] \in Needed(R, f),
         \A i \in 1 .. (m - 1) : p[i] \in DOMAIN R /\ p[i + 1] \in Needed(R, p[i])
  PROVE  p[m] \in Reachable(R, f)
<1> DEFINE K == Cardinality(DOMAIN R)
<1>1. K \in Nat /\ m <= K
  BY FS_CardinalityType
<1>2. PICK s : Iterates(R, f, K, s) /\ Reachable(R, f) = s[K]
  BY ReachableIterates
<1> HIDE DEF K
<1> DEFINE S == {n \in 0 .. K : \A i \in 1 .. m : i <= n + 1 => p[i] \in s[n]}
<1>3. 0 \in S
  <2>1. s[0] = R[f].product.prerequisites
    BY <1>1, <1>2 DEF Iterates
  <2>2. p[1] \in s[0]
    BY <2>1 DEF Needed
  <2>3. \A i \in 1 .. m : i <= 0 + 1 => i = 1
    OBVIOUS
  <2> QED  BY <1>1, <2>2, <2>3
<1>4. ASSUME NEW n \in 0 .. K, n # 0, n - 1 \in S PROVE n \in S
  <2>1. s[n] = Onward(R, s[n - 1])
    BY <1>2, <1>4 DEF Iterates
  <2>2. \A i \in 1 .. m : i <= (n - 1) + 1 => p[i] \in s[n - 1]
    BY <1>4
  <2>3. ASSUME NEW i \in 1 .. m, i <= n + 1 PROVE p[i] \in s[n]
    <3>1. CASE i <= n
      <4>1. p[i] \in s[n - 1]
        BY <2>2, <3>1
      <4> QED  BY <2>1, <4>1 DEF Onward
    <3>2. CASE i = n + 1
      <4>1. n \in 1 .. m /\ n \in 1 .. (m - 1) /\ n <= (n - 1) + 1 /\ i = n + 1
        BY <1>4, <2>3, <3>2
      <4>2. p[n] \in s[n - 1] /\ p[n] \in DOMAIN R /\ p[n + 1] \in Needed(R, p[n])
        BY <2>2, <4>1
      <4> QED  BY <2>1, <4>1, <4>2 DEF Onward, Needed
    <3> QED  BY <2>3, <3>1, <3>2
  <2> QED  BY <2>3
<1>5. 0 .. K \subseteq S
  <2> HIDE DEF S
  <2> QED  BY <1>1, <1>3, <1>4, UpTo
<1>6. K \in S
  BY <1>1, <1>5
<1>7. m \in 1 .. m /\ m <= K + 1
  BY <1>1
<1> QED  BY <1>2, <1>6, <1>7

(* The prerequisites of a family are reachable. *)
LEMMA NeededIsReachable ==
  ASSUME NEW R, NEW f \in DOMAIN R, IsFiniteSet(DOMAIN R), NEW g \in Needed(R, f)
  PROVE  g \in Reachable(R, f)
<1>1. Cardinality(DOMAIN R) # 0 /\ Cardinality(DOMAIN R) \in Nat
  BY FS_EmptySet, FS_CardinalityType
<1>2. 1 <= Cardinality(DOMAIN R)
  BY <1>1
<1> DEFINE p == [i \in {1} |-> g]
<1>3. p[1] \in Needed(R, f) /\ \A i \in 1 .. (1 - 1) : p[i] \in DOMAIN R /\ p[i + 1] \in Needed(R, p[i])
  OBVIOUS
<1>4. p[1] \in Reachable(R, f)
  <2> HIDE DEF p
  <2> QED  BY <1>2, <1>3, AlongPath
<1> QED  BY <1>4

-----------------------------------------------------------------------------
(* The inductive invariant. *)

Frames(R) == [family : DOMAIN R, todo : SUBSET UNION {Needed(R, f) : f \in DOMAIN R}]

(* Each frame is of a family of its own that the frame before it needs. *)
StackFits(R, st, vis) ==
  /\ st \in Seq(Frames(R))
  /\ \A i \in 1 .. Len(st) : st[i].family \notin vis /\ st[i].todo \subseteq Needed(R, st[i].family)
  /\ \A i, j \in 1 .. Len(st) : st[i].family = st[j].family => i = j
  /\ \A i \in 1 .. (Len(st) - 1) : st[i + 1].family \in Needed(R, st[i].family)

(* What a frame has taken from its prerequisites is allowed, and visited or being visited. *)
Judged(R, st, vis) ==
  \A i \in 1 .. Len(st) : \A g \in Needed(R, st[i].family) \ st[i].todo :
    /\ EdgeIsAllowed(R, st[i].family, g)
    /\ g \in vis \/ (i < Len(st) /\ g = st[i + 1].family)

(* What was visited needs only what was visited, and is allowed to. *)
VisitedFits(R, vis) ==
  /\ vis \subseteq DOMAIN R
  /\ \A f \in vis : \A g \in Needed(R, f) : EdgeIsAllowed(R, f, g) /\ g \in vis

(* The visited families can be ranked, each above those it needs. *)
Ranked(R, vis) ==
  \E n \in Nat : \E rank \in [vis -> Nat] :
    \A f \in vis : rank[f] < n /\ \A g \in Needed(R, f) : rank[g] < rank[f]

Walked(R, st, vis) == StackFits(R, st, vis) /\ Judged(R, st, vis) /\ VisitedFits(R, vis) /\ Ranked(R, vis)

(* The families of the frames. *)
Of(st) == {st[i].family : i \in 1 .. Len(st)}

Input == DOMAIN records \subseteq Family /\ \A f \in DOMAIN records : ProductIsCoherent(records[f].product)

Inv ==
  /\ Input
  /\ pending \subseteq DOMAIN records
  /\ DOMAIN records \subseteq pending \cup visited \cup Of(stack)
  /\ verdict \in {"walking", "accepted"} => Walked(records, stack, visited)
  /\ verdict = "accepted" => pending = {} /\ stack = <<>>
  /\ verdict \in {"refused", "died"} => ~Sound(records)

-----------------------------------------------------------------------------
(* Soundness. *)

(* Edges that are allowed one by one are allowed at any distance: tiers are ordered, and a package
   may depend on what the packages it depends on may depend on. *)
LEMMA AllowedIsTransitive ==
  ASSUME NEW R, \A f \in DOMAIN R : ProductIsCoherent(R[f].product),
         NEW f \in DOMAIN R, NEW g, NEW h, EdgeIsAllowed(R, f, g), EdgeIsAllowed(R, g, h)
  PROVE  EdgeIsAllowed(R, f, h)
<1>1. g \in DOMAIN R /\ h \in DOMAIN R
  BY DEF EdgeIsAllowed
<1>2. ASSUME NEW k \in DOMAIN R PROVE TierRank[R[k].product.tier] \in Int
  <2>1. R[k].product.tier \in {"F0", "F1", "F2", "F3", "F4", "na"}
    BY DEF ProductIsCoherent
  <2> QED  BY <2>1 DEF TierRank
<1>3. TierRank[R[h].product.tier] =< TierRank[R[f].product.tier]
  <2>1. /\ TierRank[R[h].product.tier] =< TierRank[R[g].product.tier]
        /\ TierRank[R[g].product.tier] =< TierRank[R[f].product.tier]
    BY DEF EdgeIsAllowed
  <2>2. TierRank[R[f].product.tier] \in Int /\ TierRank[R[g].product.tier] \in Int
        /\ TierRank[R[h].product.tier] \in Int
    BY <1>1, <1>2
  <2> QED  BY <2>1, <2>2
<1>4. \A a \in DOMAIN PackageDependencies : \A b \in PackageDependencies[a] :
        b \in DOMAIN PackageDependencies /\ PackageDependencies[b] \subseteq PackageDependencies[a]
  <2>1. DOMAIN PackageDependencies = {"ui_tree", "ui", "surfaces", "forms", "data", "charts"}
    BY DEF PackageDependencies
  <2>2. /\ PackageDependencies["ui_tree"] = {"ui_tree"}
        /\ PackageDependencies["ui"] = {"ui_tree", "ui"}
        /\ PackageDependencies["surfaces"] = {"ui_tree", "ui", "surfaces"}
        /\ PackageDependencies["forms"] = {"ui_tree", "ui", "surfaces", "forms"}
        /\ PackageDependencies["data"] = {"ui_tree", "ui", "surfaces", "forms", "data"}
        /\ PackageDependencies["charts"] = {"ui_tree", "ui", "surfaces", "forms", "data", "charts"}
    BY DEF PackageDependencies
  <2> QED  BY <2>1, <2>2
<1>5. R[h].product.package \in PackageDependencies[R[f].product.package]
  BY <1>4 DEF EdgeIsAllowed
<1> QED  BY <1>1, <1>3, <1>5 DEF EdgeIsAllowed

(* The prerequisites descend: a family has a higher rank than those it needs. *)
Descends(R, rank) ==
  /\ rank \in [DOMAIN R -> Nat]
  /\ \A f \in DOMAIN R : \A g \in Needed(R, f) : g \in DOMAIN R /\ rank[g] < rank[f]

(* A classification is sound if every edge is allowed and the edges descend. *)
LEMMA DescentIsSound ==
  ASSUME NEW R, IsFiniteSet(DOMAIN R), \A f \in DOMAIN R : ProductIsCoherent(R[f].product),
         \A f \in DOMAIN R : \A g \in Needed(R, f) : EdgeIsAllowed(R, f, g),
         NEW rank, Descends(R, rank)
  PROVE  Sound(R)
<1> SUFFICES ASSUME NEW f \in DOMAIN R
             PROVE  /\ f \notin Reachable(R, f)
                    /\ \A g \in Reachable(R, f) : EdgeIsAllowed(R, f, g)
  BY DEF Sound
<1>1. f \notin Reachable(R, f)
  <2> DEFINE C == {g \in DOMAIN R : rank[g] < rank[f]}
  <2>1. Needed(R, f) \subseteq C
    BY DEF Descends
  <2>2. ASSUME NEW g \in C \cap DOMAIN R, NEW h \in Needed(R, g) PROVE h \in C
    <3>1. h \in DOMAIN R /\ rank[h] < rank[g] /\ rank[g] < rank[f]
      BY DEF Descends
    <3>2. rank[h] \in Nat /\ rank[g] \in Nat /\ rank[f] \in Nat
      BY <3>1 DEF Descends
    <3> QED  BY <3>1, <3>2
  <2>3. f \notin C
    <3>1. rank[f] \in Nat
      BY DEF Descends
    <3> QED  BY <3>1
  <2>4. Reachable(R, f) \subseteq C
    <3> HIDE DEF C
    <3> QED  BY <2>1, <2>2, InsideClosed
  <2> QED  BY <2>3, <2>4
<1>2. ASSUME NEW g \in Reachable(R, f) PROVE EdgeIsAllowed(R, f, g)
  <2> DEFINE C == {h \in DOMAIN R : EdgeIsAllowed(R, f, h)}
  <2>1. Needed(R, f) \subseteq C
    BY DEF EdgeIsAllowed
  <2>2. ASSUME NEW h \in C \cap DOMAIN R, NEW k \in Needed(R, h) PROVE k \in C
    <3>1. EdgeIsAllowed(R, f, h) /\ EdgeIsAllowed(R, h, k)
      OBVIOUS
    <3>2. EdgeIsAllowed(R, f, k)
      BY <3>1, AllowedIsTransitive
    <3> QED  BY <3>2 DEF EdgeIsAllowed
  <2>3. Reachable(R, f) \subseteq C
    <3> HIDE DEF C
    <3> QED  BY <2>1, <2>2, InsideClosed
  <2> QED  BY <2>3
<1> QED  BY <1>1, <1>2

-----------------------------------------------------------------------------
(* The steps of the walk. *)

(* There are finitely many families, so every set of them has a size. *)
LEMMA InputIsFinite ==
  ASSUME Input
  PROVE  IsFiniteSet(DOMAIN records)
BY FamilyAssumption, FS_Subset DEF Input

(* The walk begins with nothing visited. *)
LEMMA InvAtFirst == Init => Inv
<1> SUFFICES ASSUME Init PROVE Inv
  OBVIOUS
<1>1. Input
  BY DocumentAssumption DEF Init, Input
<1>2. stack = <<>> /\ visited = {} /\ pending = DOMAIN records /\ verdict = "walking"
  BY DEF Init
<1>3. Ranked(records, {})
  <2>1. [x \in {} |-> 0] \in [{} -> Nat]
    OBVIOUS
  <2> QED  BY <2>1 DEF Ranked
<1>4. StackFits(records, <<>>, {}) /\ Judged(records, <<>>, {}) /\ VisitedFits(records, {})
  BY DEF StackFits, Judged, VisitedFits
<1> QED  BY <1>1, <1>2, <1>3, <1>4 DEF Inv, Walked

(* A frame of a family has all of its prerequisites left. *)
LEMMA FrameFits ==
  ASSUME NEW f \in DOMAIN records
  PROVE  /\ Frame(f) \in Frames(records)
         /\ Frame(f).family = f /\ Frame(f).todo = Needed(records, f)
BY DEF Frame, Frames, Needed

(* Taking the next family keeps the invariant. *)
LEMMA StartKept ==
  ASSUME Inv, Start
  PROVE  Inv'
<1>1. /\ verdict = "walking" /\ stack = <<>> /\ pending # {}
      /\ UNCHANGED <<records, visited, verdict>>
  BY DEF Start
<1> DEFINE f == Min(pending)
<1>2. f \in pending /\ f \in DOMAIN records
  <2>1. pending \in SUBSET Nat /\ pending \subseteq DOMAIN records
    BY FamilyAssumption DEF Inv, Input
  <2>2. \E x \in pending : \A y \in pending : x <= y
    BY <1>1, <2>1, LeastNatural
  <2> QED  BY <2>1, <2>2 DEF Min
<1>3. pending' = pending \ {f} /\ stack' = IF f \in visited THEN <<>> ELSE <<Frame(f)>>
  BY <1>1 DEF Start
<1> HIDE DEF f
<1>4. Walked(records, stack, visited)
  BY <1>1 DEF Inv
<1>5. CASE f \in visited
  <2>1. stack' = stack
    BY <1>1, <1>3, <1>5
  <2>2. DOMAIN records \subseteq pending' \cup visited \cup Of(stack)
    BY <1>3, <1>5 DEF Inv
  <2> QED  BY <1>1, <1>3, <1>4, <2>1, <2>2 DEF Inv, Input
<1>6. CASE f \notin visited
  <2> DEFINE st == <<Frame(f)>>
  <2>1. stack' = st
    BY <1>3, <1>6
  <2>2. Frame(f) \in Frames(records) /\ Frame(f).family = f /\ Frame(f).todo = Needed(records, f)
    BY <1>2, FrameFits
  <2>3. st \in Seq(Frames(records)) /\ Len(st) = 1 /\ st[1] = Frame(f)
    BY <2>2
  <2> HIDE DEF st
  <2>4. StackFits(records, st, visited)
    <3>1. \A i \in 1 .. Len(st) : i = 1
      BY <2>3
    <3>2. \A i \in 1 .. (Len(st) - 1) : FALSE
      BY <2>3
    <3> QED  BY <1>6, <2>2, <2>3, <3>1, <3>2 DEF StackFits
  <2>5. Judged(records, st, visited)
    BY <2>2, <2>3 DEF Judged
  <2>6. Of(st) = {f}
    BY <2>2, <2>3 DEF Of
  <2>7. Of(stack) = {}
    BY <1>1 DEF Of
  <2>8. DOMAIN records \subseteq pending' \cup visited \cup Of(st)
    BY <1>3, <2>6, <2>7 DEF Inv
  <2>9. Walked(records, st, visited)
    BY <1>4, <2>4, <2>5 DEF Walked
  <2> QED  BY <1>1, <1>2, <1>3, <2>1, <2>8, <2>9 DEF Inv, Input
<1> QED  BY <1>5, <1>6

(* Ending the walk keeps it. *)
LEMMA FinishKept ==
  ASSUME Inv, Finish
  PROVE  Inv'
BY DEF Inv, Input, Finish

(* A family whose prerequisites are visited can be ranked above all that were. *)
LEMMA RankedMore ==
  ASSUME NEW R, NEW vis, VisitedFits(R, vis), Ranked(R, vis), NEW f, f \notin vis, Needed(R, f) \subseteq vis
  PROVE  Ranked(R, vis \cup {f})
<1>1. PICK n \in Nat, rank \in [vis -> Nat] :
        \A g \in vis : rank[g] < n /\ \A h \in Needed(R, g) : rank[h] < rank[g]
  BY DEF Ranked
<1> DEFINE more == [g \in vis \cup {f} |-> IF g = f THEN n ELSE rank[g]]
<1>2. more \in [vis \cup {f} -> Nat] /\ n + 1 \in Nat
  OBVIOUS
<1>3. ASSUME NEW g \in vis \cup {f}
      PROVE  more[g] < n + 1 /\ \A h \in Needed(R, g) : more[h] < more[g]
  <2>1. \A h \in vis : more[h] = rank[h] /\ rank[h] \in Nat /\ rank[h] < n
    BY <1>1
  <2>2. CASE g = f
    <3>1. more[g] = n
      BY <2>2
    <3>2. \A h \in Needed(R, g) : h \in vis
      BY <2>2
    <3> HIDE DEF more
    <3> QED  BY <2>1, <3>1, <3>2
  <2>3. CASE g \in vis
    <3>1. \A h \in Needed(R, g) : h \in vis /\ rank[h] < rank[g]
      BY <1>1, <2>3 DEF VisitedFits
    <3> HIDE DEF more
    <3>2. more[g] < n + 1
      BY <2>1, <2>3
    <3>3. \A h \in Needed(R, g) : more[h] < more[g]
      BY <2>1, <2>3, <3>1
    <3> QED  BY <3>2, <3>3
  <2> QED  BY <2>2, <2>3
<1> HIDE DEF more
<1> QED  BY <1>2, <1>3 DEF Ranked

(* A visit that returns has ranked its family above its prerequisites. *)
LEMMA LeaveKept ==
  ASSUME Inv, Leave
  PROVE  Inv'
<1> DEFINE n == Len(stack)
           f == stack[n].family
           st == SubSeq(stack, 1, n - 1)
           vis == visited \cup {f}
<1>1. /\ verdict = "walking" /\ stack # <<>> /\ stack[n].todo = {}
      /\ visited' = vis /\ stack' = st /\ UNCHANGED <<records, pending, verdict>>
  BY DEF Leave, Top
<1>2. /\ StackFits(records, stack, visited) /\ Judged(records, stack, visited)
      /\ VisitedFits(records, visited) /\ Ranked(records, visited)
  BY <1>1 DEF Inv, Walked
<1>3. stack \in Seq(Frames(records)) /\ n \in Nat \ {0}
  BY <1>1, <1>2 DEF StackFits
<1>4. /\ st \in Seq(Frames(records)) /\ Len(st) = n - 1
      /\ \A i \in 1 .. (n - 1) : st[i] = stack[i]
  <2> HIDE DEF n
  <2>1. \A i \in 1 .. (n - 1) : stack[i] \in Frames(records)
    BY <1>3, ElementOfSeq DEF n
  <2>2. 1 \in Int /\ n - 1 \in Int
    BY <1>3
  <2>3. /\ st \in Seq(Frames(records))
        /\ Len(st) = IF 1 <= n - 1 THEN (n - 1) - 1 + 1 ELSE 0
        /\ \A i \in 1 .. (n - 1) - 1 + 1 : st[i] = stack[1 + i - 1]
    BY <2>1, <2>2, SubSeqProperties
  <2> HIDE DEF st
  <2>4. Len(st) = n - 1
    BY <1>3, <2>3
  <2>5. ASSUME NEW i \in 1 .. (n - 1) PROVE st[i] = stack[i]
    <3>1. i \in 1 .. (n - 1) - 1 + 1 /\ 1 + i - 1 = i
      BY <1>3
    <3> QED  BY <2>3, <3>1
  <2> QED  BY <2>3, <2>4, <2>5
<1>5. n \in 1 .. n /\ f \in DOMAIN records
  <2>1. n \in 1 .. n
    BY <1>3
  <2>2. stack[n] \in Frames(records)
    BY <1>3, <2>1, ElementOfSeq
  <2> QED  BY <2>1, <2>2 DEF Frames
<1>6. f \notin visited /\ \A g \in Needed(records, f) : EdgeIsAllowed(records, f, g) /\ g \in visited
  <2>1. \A g \in Needed(records, f) : EdgeIsAllowed(records, f, g) /\ (g \in visited \/ n < n)
    BY <1>1, <1>2, <1>5 DEF Judged
  <2>2. ~(n < n)
    BY <1>3
  <2> QED  BY <1>2, <1>5, <2>1, <2>2 DEF StackFits
<1> HIDE DEF st, f, n
<1>7. \A i \in 1 .. Len(st) : i \in 1 .. n /\ i # n /\ st[i] = stack[i]
  BY <1>3, <1>4
<1>8. StackFits(records, st, vis)
  <2>1. \A i \in 1 .. Len(st) : st[i].family \notin vis /\ st[i].todo \subseteq Needed(records, st[i].family)
    BY <1>2, <1>5, <1>7 DEF StackFits, n, f
  <2>2. \A i, j \in 1 .. Len(st) : st[i].family = st[j].family => i = j
    BY <1>2, <1>7 DEF StackFits, n
  <2>3. \A i \in 1 .. (Len(st) - 1) : st[i + 1].family \in Needed(records, st[i].family)
    <3>1. \A i \in 1 .. (Len(st) - 1) : i \in 1 .. (n - 1) /\ st[i] = stack[i] /\ st[i + 1] = stack[i + 1]
      BY <1>3, <1>4
    <3> QED  BY <1>2, <3>1 DEF StackFits, n
  <2> QED  BY <1>4, <2>1, <2>2, <2>3 DEF StackFits
<1>9. Judged(records, st, vis)
  <2>1. ASSUME NEW i \in 1 .. Len(st), NEW g \in Needed(records, st[i].family) \ st[i].todo
        PROVE  EdgeIsAllowed(records, st[i].family, g)
               /\ (g \in vis \/ (i < Len(st) /\ g = st[i + 1].family))
    <3>1. /\ EdgeIsAllowed(records, stack[i].family, g)
          /\ g \in visited \/ (i < n /\ g = stack[i + 1].family)
      BY <1>2, <1>7 DEF Judged, n
    <3>2. CASE i < Len(st)
      <4>1. st[i + 1] = stack[i + 1]
        BY <1>3, <1>4, <3>2
      <4> QED  BY <1>7, <3>1, <3>2, <4>1
    <3>3. CASE ~(i < Len(st))
      <4>1. i + 1 = n
        BY <1>3, <1>4, <3>3
      <4> QED  BY <1>7, <3>1, <4>1 DEF f
    <3> QED  BY <3>2, <3>3
  <2> QED  BY <2>1 DEF Judged
<1>10. VisitedFits(records, vis)
  BY <1>2, <1>5, <1>6 DEF VisitedFits
<1>11. Ranked(records, vis)
  BY <1>2, <1>6, RankedMore
<1>12. Of(stack) \subseteq Of(st) \cup {f}
  <2>1. ASSUME NEW i \in 1 .. n PROVE stack[i].family \in Of(st) \cup {f}
    <3>1. CASE i = n
      BY <3>1 DEF f
    <3>2. CASE i # n
      <4>1. i \in 1 .. Len(st) /\ st[i] = stack[i]
        BY <1>3, <1>4, <3>2
      <4> QED  BY <4>1 DEF Of
    <3> QED  BY <3>1, <3>2
  <2> QED  BY <2>1 DEF Of, n
<1>13. DOMAIN records \subseteq pending \cup vis \cup Of(st)
  BY <1>12 DEF Inv
<1>14. Walked(records, st, vis)
  BY <1>8, <1>9, <1>10, <1>11 DEF Walked
<1> QED  BY <1>1, <1>13, <1>14 DEF Inv, Input

(* The frames of the stack lead from each family to the later ones. *)
LEMMA CycleIsUnsound ==
  ASSUME NEW R, IsFiniteSet(DOMAIN R), NEW st, NEW vis, StackFits(R, st, vis),
         NEW i \in 1 .. Len(st), st[i].family \in Needed(R, st[Len(st)].family)
  PROVE  ~Sound(R)
<1> DEFINE n == Len(st)
           f == st[i].family
           m == n - i + 1
           p == [k \in 1 .. m |-> IF k = m THEN f ELSE st[i + k].family]
<1>1. st \in Seq(Frames(R)) /\ n \in Nat
  BY DEF StackFits
<1>2. \A k \in 1 .. n : st[k].family \in DOMAIN R
  <2>1. \A k \in 1 .. n : st[k] \in Frames(R)
    BY <1>1, ElementOfSeq
  <2> QED  BY <2>1 DEF Frames
<1>3. n <= Cardinality(DOMAIN R)
  <2> DEFINE h == [k \in 1 .. n |-> st[k].family]
  <2>1. h \in [1 .. n -> DOMAIN R]
    BY <1>2
  <2>2. \A k, l \in 1 .. n : h[k] = h[l] => k = l
    BY DEF StackFits
  <2>3. h \in Injection(1 .. n, DOMAIN R)
    <3> HIDE DEF h, n
    <3> QED  BY <2>1, <2>2 DEF Injection, IsInjective
  <2>4. Cardinality(1 .. n) <= Cardinality(DOMAIN R)
    <3> HIDE DEF h, n
    <3> QED  BY <2>3, FS_Injection
  <2>5. Cardinality(1 .. n) = IF 1 > n THEN 0 ELSE n - 1 + 1
    BY <1>1, FS_Interval
  <2> QED  BY <1>1, <2>4, <2>5
<1>4. Cardinality(DOMAIN R) \in Nat
  BY FS_CardinalityType
<1>5. m \in Nat \ {0} /\ m <= n /\ i \in 1 .. n
  BY <1>1
<1>6. m <= Cardinality(DOMAIN R)
  <2> HIDE DEF m, n
  <2> QED  BY <1>1, <1>3, <1>4, <1>5
<1>7. \A k \in 1 .. (n - 1) : st[k + 1].family \in Needed(R, st[k].family)
  BY DEF StackFits
<1>8. p[1] \in Needed(R, f)
  <2>1. CASE m = 1
    <3>1. n = i
      BY <1>1, <1>5, <2>1
    <3>2. p[1] = f
      BY <2>1
    <3> QED  BY <3>1, <3>2
  <2>2. CASE m # 1
    <3>1. i \in 1 .. (n - 1) /\ 1 \in 1 .. m
      BY <1>1, <1>5, <2>2
    <3>2. p[1] = st[i + 1].family
      BY <2>2, <3>1
    <3> QED  BY <1>7, <3>1, <3>2
  <2> QED  BY <2>1, <2>2
<1>9. ASSUME NEW k \in 1 .. (m - 1) PROVE p[k] \in DOMAIN R /\ p[k + 1] \in Needed(R, p[k])
  <2>1. k \in 1 .. m /\ k # m /\ k + 1 \in 1 .. m /\ i + k \in 1 .. n /\ (i + k) + 1 = i + (k + 1)
    BY <1>1, <1>5
  <2>2. p[k] = st[i + k].family /\ p[k] \in DOMAIN R
    BY <1>2, <2>1
  <2>3. CASE k + 1 = m
    <3>1. i + k = n
      BY <1>1, <1>5, <2>3
    <3>2. p[k + 1] = f
      BY <2>1, <2>3
    <3> QED  BY <2>2, <3>1, <3>2
  <2>4. CASE k + 1 # m
    <3>1. i + k \in 1 .. (n - 1)
      BY <1>1, <1>5, <2>1, <2>4
    <3>2. p[k + 1] = st[i + (k + 1)].family
      BY <2>1, <2>4
    <3>3. st[(i + k) + 1].family \in Needed(R, st[i + k].family)
      BY <1>7, <3>1
    <3> QED  BY <2>1, <2>2, <3>2, <3>3
  <2> QED  BY <2>2, <2>3, <2>4
<1>10. p[m] = f
  BY <1>5
<1> HIDE DEF p, m, n
<1>11. p[m] \in Reachable(R, f)
  BY <1>5, <1>6, <1>8, <1>9, AlongPath
<1>12. f \in DOMAIN R
  BY <1>2, <1>5
<1> QED  BY <1>10, <1>11, <1>12 DEF Sound

(* A prerequisite that is not allowed makes the classification unsound. *)
LEMMA EdgeIsUnsound ==
  ASSUME NEW R, IsFiniteSet(DOMAIN R), NEW f \in DOMAIN R, NEW g \in Needed(R, f), ~EdgeIsAllowed(R, f, g)
  PROVE  ~Sound(R)
BY NeededIsReachable DEF Sound

(* Judging a prerequisite keeps it: a refusal has a family that breaks the rules. *)
LEMMA FollowKept ==
  ASSUME Inv, NEW g, Follow(g)
  PROVE  Inv'
<1> DEFINE n == Len(stack)
           f == stack[n].family
           rest == [stack EXCEPT ![n].todo = @ \ {g}]
<1>1. /\ verdict = "walking" /\ stack # <<>> /\ g \in stack[n].todo
      /\ verdict' = Judgement(f, g) /\ UNCHANGED <<records, pending, visited>>
      /\ stack' = IF verdict' = "walking" /\ g \notin visited THEN Append(rest, Frame(g)) ELSE rest
  BY DEF Follow, Top
<1>2. /\ StackFits(records, stack, visited) /\ Judged(records, stack, visited)
      /\ VisitedFits(records, visited) /\ Ranked(records, visited)
  BY <1>1 DEF Inv, Walked
<1>3. stack \in Seq(Frames(records)) /\ n \in Nat \ {0} /\ n \in 1 .. n
  BY <1>1, <1>2 DEF StackFits
<1>4. \A i \in 1 .. n : stack[i] \in Frames(records)
  BY <1>3, ElementOfSeq
<1>5. f \in DOMAIN records /\ g \in Needed(records, f)
  BY <1>1, <1>2, <1>3, <1>4 DEF StackFits, Frames
<1>6. IsFiniteSet(DOMAIN records)
  BY InputIsFinite DEF Inv
<1>7. CASE verdict' # "walking"
  <2>1. \/ ~EdgeIsAllowed(records, f, g)
        \/ g \in Visiting
    <3>1. SUFFICES ASSUME EdgeIsAllowed(records, f, g) PROVE g \in Visiting
      OBVIOUS
    <3>2. g \in DOMAIN records /\ TierRank[records[g].product.tier] =< TierRank[records[f].product.tier]
      BY <3>1 DEF EdgeIsAllowed
    <3>3. \A h \in DOMAIN records : TierRank[records[h].product.tier] \in Int
      <4>1. \A h \in DOMAIN records : records[h].product.tier \in {"F0", "F1", "F2", "F3", "F4", "na"}
        BY DEF Inv, Input, ProductIsCoherent
      <4> QED  BY <4>1 DEF TierRank
    <3>4. ~(TierRank[records[g].product.tier] > TierRank[records[f].product.tier])
      BY <1>5, <3>2, <3>3
    <3>5. /\ records[f].product.package \in DOMAIN PackageDependencies
          /\ records[g].product.package \in PackageDependencies[records[f].product.package]
      BY <3>1 DEF EdgeIsAllowed
    <3>6. Judgement(f, g) # "walking"
      BY <1>1, <1>7
    <3> QED  BY <3>2, <3>4, <3>5, <3>6 DEF Judgement
  <2>2. ~Sound(records)
    <3>1. CASE ~EdgeIsAllowed(records, f, g)
      BY <1>5, <1>6, <3>1, EdgeIsUnsound
    <3>2. CASE g \in Visiting
      <4>1. DOMAIN stack = 1 .. Len(stack)
        BY <1>3
      <4>2. PICK i \in 1 .. Len(stack) : g = stack[i].family
        BY <3>2, <4>1 DEF Visiting
      <4>3. stack[i].family \in Needed(records, stack[Len(stack)].family)
        BY <1>5, <4>2
      <4> QED  BY <1>2, <1>6, <4>3, CycleIsUnsound
    <3> QED  BY <2>1, <3>1, <3>2
  <2>3. verdict' \notin {"walking", "accepted"}
    BY <1>1, <1>7 DEF Judgement
  <2>4. stack' = rest
    BY <1>1, <1>7
  <2>5. Of(rest) = Of(stack)
    <3>1. Len(rest) = n /\ \A i \in 1 .. n : rest[i].family = stack[i].family
      BY <1>3, <1>4 DEF Frames
    <3> HIDE DEF rest
    <3> QED  BY <3>1 DEF Of, n
  <2> QED  BY <1>1, <2>2, <2>3, <2>4, <2>5 DEF Inv, Input
<1>8. CASE verdict' = "walking"
  <2>1. g \in DOMAIN records /\ g \notin Visiting /\ EdgeIsAllowed(records, f, g)
    <3>1. /\ ~(g \notin DOMAIN records \/ TierRank[records[g].product.tier] > TierRank[records[f].product.tier])
          /\ records[f].product.package \in DOMAIN PackageDependencies
          /\ records[g].product.package \in PackageDependencies[records[f].product.package]
          /\ g \notin Visiting
      BY <1>1, <1>8 DEF Judgement
    <3>2. \A h \in DOMAIN records : TierRank[records[h].product.tier] \in Int
      <4>1. \A h \in DOMAIN records : records[h].product.tier \in {"F0", "F1", "F2", "F3", "F4", "na"}
        BY DEF Inv, Input, ProductIsCoherent
      <4> QED  BY <4>1 DEF TierRank
    <3>3. TierRank[records[g].product.tier] =< TierRank[records[f].product.tier]
      BY <1>5, <3>1, <3>2
    <3> QED  BY <3>1, <3>3 DEF EdgeIsAllowed
  <2>2. \A i \in 1 .. n : stack[i].family # g
    BY <1>3, <2>1 DEF Visiting
  <2>3. /\ rest \in Seq(Frames(records)) /\ Len(rest) = n
        /\ \A i \in 1 .. n : rest[i].family = stack[i].family
        /\ \A i \in 1 .. n : i # n => rest[i] = stack[i]
        /\ rest[n].todo = stack[n].todo \ {g}
    <3>1. [stack[n] EXCEPT !.todo = @ \ {g}] \in Frames(records)
      BY <1>3, <1>4 DEF Frames
    <3>2. rest \in Seq(Frames(records)) /\ Len(rest) = n
      <4>1. rest = [stack EXCEPT ![n] = [stack[n] EXCEPT !.todo = @ \ {g}]]
        OBVIOUS
      <4> QED  BY <1>3, <3>1, <4>1
    <3>3. \A i \in 1 .. n : i # n => rest[i] = stack[i]
      BY <1>3
    <3>4. rest[n].family = stack[n].family /\ rest[n].todo = stack[n].todo \ {g}
      BY <1>3, <1>4 DEF Frames
    <3> HIDE DEF rest
    <3> QED  BY <3>2, <3>3, <3>4
  <2> HIDE DEF rest
  <2>4. StackFits(records, rest, visited)
    <3>1. \A i \in 1 .. Len(rest) : rest[i].todo \subseteq stack[i].todo /\ rest[i].family = stack[i].family
      BY <2>3
    <3>2. \A i \in 1 .. (Len(rest) - 1) : i \in 1 .. n /\ i + 1 \in 1 .. n
      BY <1>3, <2>3
    <3> QED  BY <1>2, <2>3, <3>1, <3>2 DEF StackFits, n
  <2>5. \A i \in 1 .. n : \A h \in Needed(records, rest[i].family) \ rest[i].todo :
          /\ EdgeIsAllowed(records, rest[i].family, h)
          /\ \/ i = n /\ h = g
             \/ h \in visited
             \/ i < n /\ h = rest[i + 1].family
    <3> SUFFICES ASSUME NEW i \in 1 .. n, NEW h \in Needed(records, rest[i].family) \ rest[i].todo
                 PROVE  /\ EdgeIsAllowed(records, rest[i].family, h)
                        /\ \/ i = n /\ h = g
                           \/ h \in visited
                           \/ i < n /\ h = rest[i + 1].family
      OBVIOUS
    <3>1. CASE i = n /\ h = g
      BY <2>1, <2>3, <3>1
    <3>2. CASE ~(i = n /\ h = g)
      <4>1. h \in Needed(records, stack[i].family) \ stack[i].todo
        BY <2>3, <3>2
      <4>2. /\ EdgeIsAllowed(records, stack[i].family, h)
            /\ h \in visited \/ (i < n /\ h = stack[i + 1].family)
        BY <1>2, <4>1 DEF Judged, n
      <4>3. i < n => i + 1 \in 1 .. n
        BY <1>3
      <4> QED  BY <2>3, <4>2, <4>3
    <3> QED  BY <3>1, <3>2
  <2>6. Of(rest) = Of(stack)
    BY <2>3 DEF Of, n
  <2>7. CASE g \in visited
    <3>1. stack' = rest
      BY <1>1, <2>7
    <3>2. Judged(records, rest, visited)
      BY <2>3, <2>5, <2>7 DEF Judged
    <3>3. Walked(records, rest, visited)
      BY <1>2, <2>4, <3>2 DEF Walked
    <3> QED  BY <1>1, <1>8, <2>6, <3>1, <3>3 DEF Inv, Input
  <2>8. CASE g \notin visited
    <3> DEFINE st == Append(rest, Frame(g))
    <3>1. stack' = st
      BY <1>1, <1>8, <2>8
    <3>2. Frame(g) \in Frames(records) /\ Frame(g).family = g /\ Frame(g).todo = Needed(records, g)
      BY <2>1, FrameFits
    <3>3. /\ st \in Seq(Frames(records)) /\ Len(st) = n + 1
          /\ \A i \in 1 .. n : st[i] = rest[i]
          /\ st[n + 1] = Frame(g)
      BY <2>3, <3>2, AppendProperties
    <3> HIDE DEF st
    <3>4. \A i \in 1 .. Len(st) : (i = n + 1 /\ st[i] = Frame(g)) \/ (i \in 1 .. n /\ st[i] = rest[i])
      <4>1. \A i \in 1 .. Len(st) : i = n + 1 \/ i \in 1 .. n
        BY <1>3, <3>3
      <4> QED  BY <3>3, <4>1
    <3>5. StackFits(records, st, visited)
      <4>1. \A i \in 1 .. Len(st) : st[i].family \notin visited /\ st[i].todo \subseteq Needed(records, st[i].family)
        BY <2>3, <2>4, <2>8, <3>2, <3>4 DEF StackFits
      <4>2. \A i, j \in 1 .. Len(st) : st[i].family = st[j].family => i = j
        BY <2>2, <2>3, <2>4, <3>2, <3>4 DEF StackFits
      <4>3. ASSUME NEW i \in 1 .. (Len(st) - 1) PROVE st[i + 1].family \in Needed(records, st[i].family)
        <5>1. i \in 1 .. n /\ st[i] = rest[i] /\ rest[i].family = stack[i].family
          BY <1>3, <2>3, <3>3
        <5>2. CASE i = n
          BY <1>5, <3>2, <3>3, <5>1, <5>2
        <5>3. CASE i # n
          <6>1. i + 1 \in 1 .. n /\ i \in 1 .. (Len(rest) - 1)
            BY <1>3, <2>3, <5>1, <5>3
          <6>2. rest[i + 1].family \in Needed(records, rest[i].family)
            BY <2>4, <6>1 DEF StackFits
          <6> QED  BY <3>3, <5>1, <6>1, <6>2
        <5> QED  BY <5>2, <5>3
      <4> QED  BY <3>3, <4>1, <4>2, <4>3 DEF StackFits
    <3>6. Judged(records, st, visited)
      <4> SUFFICES ASSUME NEW i \in 1 .. Len(st), NEW h \in Needed(records, st[i].family) \ st[i].todo
                   PROVE  /\ EdgeIsAllowed(records, st[i].family, h)
                          /\ h \in visited \/ (i < Len(st) /\ h = st[i + 1].family)
        BY DEF Judged
      <4>1. i \in 1 .. n /\ st[i] = rest[i]
        BY <3>2, <3>4
      <4>2. /\ EdgeIsAllowed(records, st[i].family, h)
            /\ \/ i = n /\ h = g
               \/ h \in visited
               \/ i < n /\ h = rest[i + 1].family
        BY <2>5, <4>1
      <4>3. i < Len(st)
        BY <1>3, <3>3, <4>1
      <4>4. CASE i = n /\ h = g
        BY <3>2, <3>3, <4>2, <4>3, <4>4
      <4>5. CASE i < n /\ h = rest[i + 1].family
        <5>1. i + 1 \in 1 .. n
          BY <1>3, <4>1, <4>5
        <5> QED  BY <3>3, <4>2, <4>3, <4>5, <5>1
      <4> QED  BY <4>2, <4>4, <4>5
    <3>7. Of(stack) \subseteq Of(st)
      <4>1. \A i \in 1 .. n : i \in 1 .. Len(st) /\ st[i].family = stack[i].family
        BY <1>3, <2>3, <3>3
      <4> QED  BY <4>1 DEF Of, n
    <3>8. Walked(records, st, visited)
      BY <1>2, <3>5, <3>6 DEF Walked
    <3> QED  BY <1>1, <1>8, <3>1, <3>7, <3>8 DEF Inv, Input
  <2> QED  BY <2>7, <2>8
<1> QED  BY <1>7, <1>8

(* No step breaks the invariant. *)
LEMMA InvKept == Inv /\ [Next]_vars => Inv'
<1>1. ASSUME Inv, UNCHANGED vars PROVE Inv'
  BY <1>1 DEF Inv, Input, vars
<1> QED  BY <1>1, StartKept, FollowKept, LeaveKept, FinishKept DEF Next

(* The invariant holds throughout. *)
LEMMA InvAlways == Spec => []Inv
BY InvAtFirst, InvKept, PTL DEF Spec

(* An accepted classification has no cycle and no prerequisite, at any distance, that is absent,
   later or above its package, though only single edges are compared (_validate_graph). *)
THEOREM AcceptedIsAlwaysSound == Spec => []AcceptedIsSound
<1>1. ASSUME Inv PROVE AcceptedIsSound
  <2> SUFFICES ASSUME verdict = "accepted" PROVE Sound(records)
    BY DEF AcceptedIsSound
  <2>1. Input /\ pending = {} /\ stack = <<>> /\ VisitedFits(records, visited) /\ Ranked(records, visited)
    BY <1>1 DEF Inv, Walked
  <2>2. visited = DOMAIN records
    <3>1. Of(stack) = {}
      BY <2>1 DEF Of
    <3> QED  BY <1>1, <2>1, <3>1 DEF Inv, VisitedFits
  <2>3. PICK rank \in [DOMAIN records -> Nat] :
          \A f \in DOMAIN records : \A g \in Needed(records, f) : rank[g] < rank[f]
    BY <2>1, <2>2 DEF Ranked
  <2>4. Descends(records, rank)
    BY <2>1, <2>2, <2>3 DEF Descends, VisitedFits
  <2>5. \A f \in DOMAIN records : \A g \in Needed(records, f) : EdgeIsAllowed(records, f, g)
    BY <2>1, <2>2 DEF VisitedFits
  <2>6. \A f \in DOMAIN records : ProductIsCoherent(records[f].product)
    BY <2>1 DEF Input
  <2> QED  BY <2>1, <2>4, <2>5, <2>6, InputIsFinite, DescentIsSound
<1> QED  BY <1>1, InvAlways, PTL

(* A classification that is refused, or that the walk dies of, violates the rules. *)
THEOREM RefusedHasAlwaysCause == Spec => []RefusedHasCause
<1>1. Inv => RefusedHasCause
  BY DEF Inv, RefusedHasCause
<1> QED  BY <1>1, InvAlways, PTL

-----------------------------------------------------------------------------
(* The planning documents.  What a pass of check_all says of the disk is a *)
(* matter of its commands alone: ReleaseIsTrue and HistoryIsKept hold of   *)
(* any documents whatever, reachable or not.  That nothing is left to do   *)
(* when all is at rest needs DocumentsInv: every document is of its kind,  *)
(* and a generator has only generated files left to write.                 *)

(* A pass of check_all is a pass of each of its eight BH-00 commands. *)
LEMMA EveryCommandPasses ==
  ASSUME Passed
  PROVE  /\ GovernanceIsAccepted(disk) /\ CatalogIsAccepted(disk)
         /\ ClassificationDocumentIsAccepted(disk) /\ AcceptanceIsAccepted(disk)
         /\ IsFresh(disk, "registry") /\ IsFresh(disk, "release")
<1>1. \A i \in DOMAIN Commands : Passes(disk, Commands[i])
  BY DEF Passed
<1>2. Commands[1] = "governance" /\ 1 \in DOMAIN Commands
  BY DEF Commands
<1>3. Commands[2] = "catalog" /\ 2 \in DOMAIN Commands
  BY DEF Commands
<1>4. Commands[3] = "classification" /\ 3 \in DOMAIN Commands
  BY DEF Commands
<1>5. Commands[4] = "acceptance" /\ 4 \in DOMAIN Commands
  BY DEF Commands
<1>6. Commands[5] = "registry --check" /\ 5 \in DOMAIN Commands
  BY DEF Commands
<1>7. Commands[6] = "release --check" /\ 6 \in DOMAIN Commands
  BY DEF Commands
<1>8. /\ Passes(disk, "governance") /\ Passes(disk, "catalog") /\ Passes(disk, "classification")
      /\ Passes(disk, "acceptance") /\ Passes(disk, "registry --check")
      /\ Passes(disk, "release --check")
  BY <1>1, <1>2, <1>3, <1>4, <1>5, <1>6, <1>7, Zenon
<1> QED  BY <1>8 DEF Passes

(* A fresh registry is the one that the generator builds now, and so is its report. *)
LEMMA FreshRegistry ==
  ASSUME NEW d, IsFresh(d, "registry")
  PROVE  LET built == CommittedExpectation(Sources(d), d.policy, d.deferral)
         IN  d.registry = built /\ d.report = RenderReport(built) /\ IsBuildable(Sources(d))
<1> DEFINE built == CommittedExpectation(Sources(d), d.policy, d.deferral)
<1>1. RegistryTexts(d) # <<>> /\ IsWritten(d, RegistryTexts(d))
  BY DEF IsFresh, Texts
<1>2. IsBuildable(Sources(d))
  BY <1>1 DEF RegistryTexts
<1>3. RegistryTexts(d) = <<Text("registry", built), Text("report", RenderReport(built))>>
  BY <1>2 DEF RegistryTexts
<1> HIDE DEF built
<1>4. d["registry"] = built /\ d["report"] = RenderReport(built)
  BY <1>1, <1>3 DEF IsWritten, Text
<1> QED  BY <1>2, <1>4 DEF built

(* A release that can be generated is in a stage that has one, and it is current. *)
LEMMA ReleaseStands ==
  ASSUME NEW d, IsFresh(d, "release"), StageIsCoherent(d)
  PROVE  ReleaseIsCurrent(d)
<1>1. ReleaseTexts(d) # <<>>
  BY DEF IsFresh, Texts
<1>2. {} \notin {d.contract.release, d.contract.entry}
  BY <1>1 DEF ReleaseTexts
<1>3. d.contract.release # {}
  BY <1>2
<1> QED  BY <1>3 DEF StageIsCoherent

(* What the contract binds, except for the roadmap, is what is on disk. *)
LEMMA BoundIsOnDisk ==
  ASSUME NEW d, SourcesAreBound(d)
  PROVE  d.contract.bindings["acceptance"] = d.registry /\ d.contract.bindings["catalog"] = d.catalog
<1> DEFINE now == Bindable(d)
<1>1. {"acceptance", "catalog"} \subseteq DOMAIN now /\ now["acceptance"] = d.registry /\ now["catalog"] = d.catalog
  BY DEF Bindable, Bindings, Sources
<1> HIDE DEF now
<1>2. \A id \in DOMAIN now : BindingIsCurrent(id, d.contract.bindings[id], now, d.policy, d.deferral)
  BY DEF SourcesAreBound, now
<1> QED  BY <1>1, <1>2 DEF BindingIsCurrent

(* The generator records what it built from. *)
LEMMA BuiltFrom ==
  ASSUME NEW s, NEW policy, NEW deferral, NEW S1, NEW S2, NEW S3, NEW S4,
         s = [roadmap |-> S1, envelope |-> S2, classification |-> S3, quality |-> S4]
  PROVE  CommittedExpectation(s, policy, deferral).bindings.classification = S3
  BY DEF CommittedExpectation, HistoricalRegistry, BuildRegistry

(* A pass of check_all is true from one end of the chain to the other, for any set of families, *)
(* milestones and products, and for any documents on disk: the published index names the registry *)
(* that the sources give, and that registry answers for the families of the snapshot.            *)
THEOREM PassIsTrue == DocumentsSpec => []ReleaseIsTrue
<1>1. ReleaseIsTrue
  <2> SUFFICES ASSUME Passed PROVE
    LET bound == disk.releaseIndex.bindings
        built == CommittedExpectation(Sources(disk), disk.policy, disk.deferral)
    IN /\ bound.acceptance = built
       /\ bound.acceptance.bindings.classification.catalog = bound.catalog
       /\ {r.id[2] : r \in {q \in bound.acceptance.requirements : q.id[1] = "catalog-family"}}
            = disk.snapshot
       /\ disk.report = RenderReport(built)
       /\ disk.entryManifest = disk.contract.entry
    BY DEF ReleaseIsTrue
  <2> DEFINE built == CommittedExpectation(Sources(disk), disk.policy, disk.deferral)
             bound == disk.releaseIndex.bindings
             families == {r.id[2] : r \in {q \in disk.registry.requirements : q.id[1] = "catalog-family"}}
  <2>1. disk.registry = built /\ disk.report = RenderReport(built)
    BY EveryCommandPasses, FreshRegistry
  <2>2. disk.entryManifest = disk.contract.entry /\ bound = disk.contract.bindings
    <3>1. ReleaseIsCurrent(disk)
      BY EveryCommandPasses, ReleaseStands DEF GovernanceIsAccepted
    <3> QED  BY <3>1 DEF ReleaseIsCurrent, RenderRelease, RenderEntry
  <2>3. bound.acceptance = disk.registry /\ bound.catalog = disk.catalog
    BY <2>2, EveryCommandPasses, BoundIsOnDisk DEF GovernanceIsAccepted
  <2>4. disk.classification.catalog = disk.catalog /\ DOMAIN disk.classification.records = disk.catalog.families
    BY EveryCommandPasses DEF ClassificationDocumentIsAccepted, ClassificationIsAccepted
  <2>5. disk.catalog.families = disk.snapshot
    BY EveryCommandPasses DEF CatalogIsAccepted, CatalogIsCoherent, CatalogCovers
  <2>6. families = DOMAIN disk.classification.records
    <3>1. RegistryIsAccepted(disk.registry, Sources(disk), disk.policy, disk.deferral)
      BY EveryCommandPasses DEF AcceptanceIsAccepted
    <3>2. families = DOMAIN Sources(disk).classification.records
      BY <3>1 DEF RegistryIsAccepted
    <3> QED  BY <3>2 DEF Sources
  <2>7. disk.registry.bindings.classification = disk.classification
    BY <2>1, BuiltFrom DEF Sources
  <2> QED  BY <2>1, <2>2, <2>3, <2>4, <2>5, <2>6, <2>7
<1> QED  BY <1>1, PTL

-----------------------------------------------------------------------------
(* The amendment of the roadmap. *)

(* The wording that an amendment changes, in the registry that keeps the old one. *)
Restored(c) ==
  IF c.id[1] = "roadmap-milestone" /\ c.id[2] \in {"BH-01"} \cup Reworded
  THEN [c EXCEPT !.statement = "historical"] ELSE c

(* The conditions that do not come from the roadmap. *)
OtherConditions(s) ==
  ObligationConditions \cup NonGoalConditions
    \cup EnvelopeConditions(s.envelope)
    \cup FamilyConditions(s.classification.records)
    \cup PackageConditions(s.classification.records)
    \cup BudgetConditions(s.quality) \cup FailureConditions(s.quality)
    \cup BlockerConditions(s.quality) \cup GateConditions(s.quality)

(* No source but the roadmap gives a condition of its kind. *)
LEMMA OtherKinds ==
  ASSUME NEW s, NEW c \in OtherConditions(s)
  PROVE  c.id[1] # "roadmap-milestone"
<1>1. ASSUME c \in ObligationConditions PROVE c.id[1] # "roadmap-milestone"
  BY <1>1 DEF ObligationConditions, Condition
<1>2. ASSUME c \in NonGoalConditions PROVE c.id[1] # "roadmap-milestone"
  <2> DEFINE plain == Condition("non-goal", "server-dom", "historical", "BH-00", {"generated", "review"}, {})
  <2>1. c = [plain EXCEPT !.support = "not-applicable", !.implementation = "not-applicable"]
    BY <1>2 DEF NonGoalConditions
  <2>2. c.id = plain.id
    BY <2>1, Zenon DEF Condition
  <2>3. plain.id = <<"non-goal", "server-dom">>
    BY DEF Condition
  <2> QED  BY <2>2, <2>3
<1>3. ASSUME c \in EnvelopeConditions(s.envelope) PROVE c.id[1] # "roadmap-milestone"
  <2> DEFINE plain(item) == Condition("browser-envelope", item, s.envelope, "BH-07",
                                      {"automated", "browser", "review"}, {})
  <2>1. PICK item \in EnvelopeItems :
          c = [plain(item) EXCEPT !.support =
                 IF item[1] = "browser_configurations" THEN "unsupported" ELSE "candidate"]
    BY <1>3 DEF EnvelopeConditions
  <2>2. plain(item).id = <<"browser-envelope", item>>
    BY DEF Condition
  <2>3. c.id = plain(item).id
    BY <2>1 DEF Condition
  <2> QED  BY <2>2, <2>3
<1>4. ASSUME c \in FamilyConditions(s.classification.records) PROVE c.id[1] # "roadmap-milestone"
  BY <1>4 DEF FamilyConditions, Condition
<1>5. ASSUME c \in PackageConditions(s.classification.records) PROVE c.id[1] # "roadmap-milestone"
  <2>1. PICK p, owned :
          c = Condition("package-boundary", p, Cardinality(owned), "BH-09",
                        {"automated", "generated", "review"}, PackageBudgets[p])
    BY <1>5 DEF PackageConditions
  <2> QED  BY <2>1 DEF Condition
<1>6. ASSUME c \in BudgetConditions(s.quality) PROVE c.id[1] # "roadmap-milestone"
  BY <1>6 DEF BudgetConditions, Condition
<1>7. ASSUME c \in FailureConditions(s.quality) PROVE c.id[1] # "roadmap-milestone"
  BY <1>7 DEF FailureConditions, Condition
<1>8. ASSUME c \in BlockerConditions(s.quality) PROVE c.id[1] # "roadmap-milestone"
  BY <1>8 DEF BlockerConditions, Condition
<1>9. ASSUME c \in GateConditions(s.quality) PROVE c.id[1] # "roadmap-milestone"
  BY <1>9 DEF GateConditions, Condition
<1> QED  BY <1>1, <1>2, <1>3, <1>4, <1>5, <1>6, <1>7, <1>8, <1>9 DEF OtherConditions

(* The roadmap's condition for one milestone. *)
MilestoneCondition(roadmap, m) ==
  Condition("roadmap-milestone", m, Completion(roadmap, m), m,
            IF m = "BH-00" THEN {"generated", "review"} ELSE {"automated", "browser", "review"}, {})

(* The old wording of a milestone is the one that the historical roadmap gives. *)
LEMMA MilestoneRestored ==
  ASSUME NEW roadmap \in {"amended", "deferred"}, NEW m
  PROVE  Restored(MilestoneCondition(roadmap, m)) = MilestoneCondition("historical", m)
<1>1. Completion("historical", m) = "historical"
  BY DEF Completion
<1>2. m \notin {"BH-01"} \cup Reworded => Completion(roadmap, m) = "historical"
  BY DEF Completion
<1>3. MilestoneCondition(roadmap, m).id = <<"roadmap-milestone", m>>
  BY DEF MilestoneCondition, Condition
<1>4. CASE m \in {"BH-01"} \cup Reworded
  <2>1. Restored(MilestoneCondition(roadmap, m)) = [MilestoneCondition(roadmap, m) EXCEPT !.statement = "historical"]
    BY <1>3, <1>4 DEF Restored
  <2> QED  BY <2>1, <1>1 DEF MilestoneCondition, Condition
<1>5. CASE m \notin {"BH-01"} \cup Reworded
  <2>1. Restored(MilestoneCondition(roadmap, m)) = MilestoneCondition(roadmap, m)
    BY <1>3, <1>5 DEF Restored
  <2> QED  BY <2>1, <1>1, <1>2, <1>5 DEF MilestoneCondition
<1> QED  BY <1>4, <1>5

(* The wording is all that is restored. *)
LEMMA RestoredKeepsId ==
  ASSUME NEW s, NEW c \in ConditionsOf(s)
  PROVE  Restored(c).id = c.id
<1>1. CASE c \in OtherConditions(s)
  BY <1>1, OtherKinds DEF Restored
<1>2. CASE c \in RoadmapConditions(s.roadmap)
  <2>1. PICK m \in Milestones : c = MilestoneCondition(s.roadmap, m)
    BY <1>2 DEF RoadmapConditions, MilestoneCondition
  <2> QED  BY <2>1 DEF Restored, MilestoneCondition, Condition
<1> QED  BY <1>1, <1>2 DEF ConditionsOf, OtherConditions

(* The amended conditions, restored, are the historical ones. *)
LEMMA ConditionsRestored ==
  ASSUME NEW roadmap \in {"amended", "deferred"}, NEW s, NEW h,
         s.roadmap = roadmap, h.roadmap = "historical", h.envelope = s.envelope,
         h.classification = s.classification, h.quality = s.quality
  PROVE  ConditionsOf(h) = {Restored(c) : c \in ConditionsOf(s)}
<1>1. OtherConditions(h) = OtherConditions(s)
  BY DEF OtherConditions
<1>2. /\ ConditionsOf(s) = {MilestoneCondition(roadmap, m) : m \in Milestones} \cup OtherConditions(s)
      /\ ConditionsOf(h) = {MilestoneCondition("historical", m) : m \in Milestones} \cup OtherConditions(h)
  BY DEF ConditionsOf, OtherConditions, RoadmapConditions, MilestoneCondition
<1>3. \A c \in OtherConditions(s) : Restored(c) = c
  BY OtherKinds DEF Restored
<1>4. \A m \in Milestones : Restored(MilestoneCondition(roadmap, m)) = MilestoneCondition("historical", m)
  BY MilestoneRestored
<1> DEFINE other == OtherConditions(s)
           old(m) == MilestoneCondition("historical", m)
           new(m) == MilestoneCondition(roadmap, m)
<1> HIDE DEF other, old, new
<1>5. {Restored(c) : c \in {new(m) : m \in Milestones} \cup other} = {old(m) : m \in Milestones} \cup other
  BY <1>3, <1>4 DEF other, old, new
<1> QED  BY <1>1, <1>2, <1>5 DEF other, old, new

(* So the registry that is kept is the one that the historical roadmap gives. *)
LEMMA HistoryRestored ==
  ASSUME NEW roadmap \in {"amended", "deferred"}, NEW S2, NEW S3, NEW S4, NEW s, NEW h,
         s = [roadmap |-> roadmap, envelope |-> S2, classification |-> S3, quality |-> S4],
         h = [roadmap |-> "historical", envelope |-> S2, classification |-> S3, quality |-> S4]
  PROVE  HistoricalRegistry(BuildRegistry(s)) = BuildRegistry(h)
<1> DEFINE cs == ConditionsOf(s)
           ch == ConditionsOf(h)
           need(c) == Requirement(c.id[1], c.id[2], SourceOf(c.id[1]))
<1>1. ch = {Restored(c) : c \in cs}
  BY ConditionsRestored
<1>2. \A c \in cs : Restored(c).id = c.id
  BY RestoredKeepsId
<1>3. \A c \in cs : need(Restored(c)) = need(c)
  BY <1>2
<1>4. BuildRegistry(s) = [bindings |-> s, conditions |-> cs, requirements |-> {need(c) : c \in cs}]
  BY DEF BuildRegistry
<1>5. BuildRegistry(h) = [bindings |-> h, conditions |-> ch, requirements |-> {need(c) : c \in ch}]
  BY DEF BuildRegistry
<1> HIDE DEF cs, ch, need
<1>6. {need(c) : c \in ch} = {need(c) : c \in cs}
  BY <1>1, <1>3
<1>7. HistoricalRegistry(BuildRegistry(s)) =
        [bindings |-> [s EXCEPT !.roadmap = "historical"],
         conditions |-> {Restored(c) : c \in cs}, requirements |-> {need(c) : c \in cs}]
  <2> DEFINE kept == {need(c) : c \in cs}
             r == BuildRegistry(s)
  <2> HIDE DEF kept
  <2>1. r = [bindings |-> s, conditions |-> cs, requirements |-> kept]
    BY <1>4 DEF kept
  <2> HIDE DEF r
  <2>2. HistoricalRegistry(r) =
          [r EXCEPT !.bindings.roadmap = "historical", !.conditions = {Restored(c) : c \in r.conditions}]
    BY DEF HistoricalRegistry, Restored
  <2> DEFINE restored == {Restored(c) : c \in cs}
  <2> HIDE DEF restored
  <2>3. HistoricalRegistry(r) = [r EXCEPT !.bindings.roadmap = "historical", !.conditions = restored]
    BY <2>1, <2>2 DEF restored
  <2>4. HistoricalRegistry(r) =
          [bindings |-> [s EXCEPT !.roadmap = "historical"], conditions |-> restored, requirements |-> kept]
    BY <2>1, <2>3
  <2> QED  BY <2>4 DEF kept, restored, r
<1>8. [s EXCEPT !.roadmap = "historical"] = h
  OBVIOUS
<1> QED  BY <1>1, <1>5, <1>6, <1>7, <1>8

(* Under a bound amendment of the roadmap, a pass means the registry of the historical roadmap:   *)
(* restoring the wording of the amended milestones restores every condition and requirement.     *)
THEOREM AmendmentKeepsHistory == DocumentsSpec => []HistoryIsKept
<1>1. HistoryIsKept
  <2> SUFFICES ASSUME Passed, AmendmentIsBound("historical", disk.roadmap, disk.policy, disk.deferral)
               PROVE  disk.registry = BuildRegistry([Sources(disk) EXCEPT !.roadmap = "historical"])
    BY DEF HistoryIsKept
  <2>1. disk.roadmap \in {"amended", "deferred"}
    BY DEF AmendmentIsBound
  <2>2. disk.registry = HistoricalRegistry(BuildRegistry(Sources(disk)))
    <3>1. disk.registry = CommittedExpectation(Sources(disk), disk.policy, disk.deferral)
      BY EveryCommandPasses, FreshRegistry
    <3>2. Sources(disk).roadmap = disk.roadmap
      BY DEF Sources
    <3> QED  BY <3>1, <3>2 DEF CommittedExpectation
  <2>3. [Sources(disk) EXCEPT !.roadmap = "historical"] =
          [roadmap |-> "historical", envelope |-> disk.envelope,
           classification |-> disk.classification, quality |-> disk.quality]
    BY DEF Sources
  <2> QED  BY <2>1, <2>2, <2>3, HistoryRestored DEF Sources
<1> QED  BY <1>1, PTL

-----------------------------------------------------------------------------
(* What the generator builds, the validator accepts. *)

(* What the validator asks of every condition: it links back to the requirement of its own   *)
(* name, its state is coherent, and its budgets are known.                                   *)
Stands(c) ==
  /\ c.id = <<c.id[1], c.id[2]>> /\ c.requirements = {c.id}
  /\ StateIsCoherent(c) /\ c.budgets \subseteq Budgets

(* A planned condition stands, whatever its support. *)
LEMMA PlannedStands ==
  ASSUME NEW kind, NEW source, NEW statement, NEW milestone, NEW evidence,
         NEW budgets \in SUBSET Budgets, NEW support,
         NEW implementation \in {"not-started", "not-applicable"}, NEW c,
         c = [id |-> <<kind, source>>, requirements |-> {<<kind, source>>}, statement |-> statement,
              milestone |-> milestone, evidence |-> evidence, budgets |-> budgets,
              status |-> "planned", support |-> support,
              implementation |-> implementation, verification |-> "not-executed", claims |-> {}]
  PROVE  Stands(c) /\ c.id = <<kind, source>>
<1>1. c.status = "planned" /\ c.implementation = implementation /\ c.verification = "not-executed" /\ c.claims = {}
  OBVIOUS
<1>2. StateIsCoherent(c)
  BY <1>1 DEF StateIsCoherent
<1>3. c.id = <<kind, source>> /\ c.requirements = {<<kind, source>>} /\ c.budgets = budgets
  OBVIOUS
<1> QED  BY <1>2, <1>3 DEF Stands

(* So does a condition as it is made. *)
LEMMA ConditionStands ==
  ASSUME NEW kind, NEW source, NEW statement, NEW milestone, NEW evidence,
         NEW budgets \in SUBSET Budgets, NEW c,
         c = Condition(kind, source, statement, milestone, evidence, budgets)
  PROVE  Stands(c) /\ c.id = <<kind, source>>
  BY PlannedStands DEF Condition

(* The names of the conditions that one source gives. *)
Ids(kind, sources) == {<<kind, x>> : x \in sources}

Named(conditions, kind, sources) ==
  /\ {c.id : c \in conditions} = Ids(kind, sources)
  /\ \A c \in conditions : Stands(c)

(* It is enough that each condition stands under the name of a source, and each source has one. *)
LEMMA NamedBy ==
  ASSUME NEW conditions, NEW sources, NEW kind,
         \A x \in sources : \E c \in conditions : c.id = <<kind, x>>,
         \A c \in conditions : \E x \in sources : Stands(c) /\ c.id = <<kind, x>>
  PROVE  Named(conditions, kind, sources)
  BY DEF Named, Ids

OwnedPackages(families) == {families[f].product.package : f \in DOMAIN families}

(* The roadmap gives one standing condition for each milestone. *)
LEMMA RoadmapNamed ==
  ASSUME NEW roadmap
  PROVE  Named(RoadmapConditions(roadmap), "roadmap-milestone", Milestones)
<1> DEFINE form(m) == MilestoneCondition(roadmap, m)
<1>1. RoadmapConditions(roadmap) = {form(m) : m \in Milestones}
  BY DEF RoadmapConditions, MilestoneCondition
<1>2. \A m \in Milestones : Stands(form(m)) /\ form(m).id = <<"roadmap-milestone", m>>
  <2> TAKE m \in Milestones
  <2> QED  BY ConditionStands DEF MilestoneCondition
<1> HIDE DEF form
<1> QED  BY <1>1, <1>2, NamedBy

(* The cross-cutting obligation is one. *)
LEMMA ObligationsNamed == Named(ObligationConditions, "cross-cutting-obligation", {"tests"})
<1> DEFINE form(x) == Condition("cross-cutting-obligation", x, "historical", "BH-00",
                                {"automated", "review"}, {})
<1>1. ObligationConditions = {form(x) : x \in {"tests"}}
  BY DEF ObligationConditions
<1>2. \A x \in {"tests"} : Stands(form(x)) /\ form(x).id = <<"cross-cutting-obligation", x>>
  BY ConditionStands
<1> HIDE DEF form
<1> QED  BY <1>1, <1>2, NamedBy

(* So is the non-goal, which is not applicable. *)
LEMMA NonGoalsNamed == Named(NonGoalConditions, "non-goal", {"server-dom"})
<1> DEFINE plain == Condition("non-goal", "server-dom", "historical", "BH-00", {"generated", "review"}, {})
           id == <<"non-goal", "server-dom">>
           needs == {<<"non-goal", "server-dom">>}
           evidence == {"generated", "review"}
<1>1. PICK form : /\ NonGoalConditions = {form}
                  /\ form = [plain EXCEPT !.support = "not-applicable", !.implementation = "not-applicable"]
  BY DEF NonGoalConditions
<1>2. plain = [id |-> id, requirements |-> needs, statement |-> "historical", milestone |-> "BH-00",
               evidence |-> evidence, budgets |-> {}, status |-> "planned", support |-> "candidate",
               implementation |-> "not-started", verification |-> "not-executed", claims |-> {}]
  BY DEF Condition
<1> HIDE DEF plain, id, needs, evidence
<1>3. form = [id |-> id, requirements |-> needs, statement |-> "historical", milestone |-> "BH-00",
              evidence |-> evidence, budgets |-> {}, status |-> "planned",
              support |-> "not-applicable", implementation |-> "not-applicable",
              verification |-> "not-executed", claims |-> {}]
  BY <1>1, <1>2
<1>4. Stands(form) /\ form.id = <<"non-goal", "server-dom">>
  BY <1>3, PlannedStands DEF id, needs
<1> QED  BY <1>1, <1>4, NamedBy

(* The envelope gives one for each of its items. *)
LEMMA EnvelopeNamed ==
  ASSUME NEW envelope
  PROVE  Named(EnvelopeConditions(envelope), "browser-envelope", EnvelopeItems)
<1> DEFINE support(item) == IF item[1] = "browser_configurations" THEN "unsupported" ELSE "candidate"
           form(item) == [Condition("browser-envelope", item, envelope, "BH-07",
                                    {"automated", "browser", "review"}, {})
                           EXCEPT !.support = support(item)]
<1>1. EnvelopeConditions(envelope) = {form(item) : item \in EnvelopeItems}
  BY DEF EnvelopeConditions
<1>2. ASSUME NEW item \in EnvelopeItems
      PROVE  Stands(form(item)) /\ form(item).id = <<"browser-envelope", item>>
  <2> DEFINE s == support(item)
             c == form(item)
  <2>1. c = [Condition("browser-envelope", item, envelope, "BH-07",
                       {"automated", "browser", "review"}, {}) EXCEPT !.support = s]
    OBVIOUS
  <2> HIDE DEF s
  <2>2. c = [id |-> <<"browser-envelope", item>>, requirements |-> {<<"browser-envelope", item>>},
             statement |-> envelope, milestone |-> "BH-07",
             evidence |-> {"automated", "browser", "review"}, budgets |-> {},
             status |-> "planned", support |-> s, implementation |-> "not-started",
             verification |-> "not-executed", claims |-> {}]
    BY <2>1 DEF Condition
  <2> HIDE DEF c
  <2>3. Stands(c) /\ c.id = <<"browser-envelope", item>>
    BY <2>2, PlannedStands
  <2> QED  BY <2>3 DEF c
<1> HIDE DEF form
<1> QED  BY <1>1, <1>2, NamedBy

(* The classification gives one for each family, with budgets the contract has. *)
LEMMA FamiliesNamed ==
  ASSUME NEW families,
         \A f \in DOMAIN families : families[f].product.package \in DOMAIN PackageBudgets
  PROVE  Named(FamilyConditions(families), "catalog-family", DOMAIN families)
<1> DEFINE form(f) ==
             Condition("catalog-family", f, <<families[f].product.package, families[f].product.tier>>,
               TierMilestones[families[f].product.tier],
               {"accessibility", "automated", "browser", "review"}
                 \cup IF families[f].remote = "local-only" THEN {} ELSE {"security"},
               PackageBudgets[families[f].product.package])
<1>1. FamilyConditions(families) = {form(f) : f \in DOMAIN families}
  BY DEF FamilyConditions
<1>2. ASSUME NEW f \in DOMAIN families
      PROVE  Stands(form(f)) /\ form(f).id = <<"catalog-family", f>>
  <2>1. PackageBudgets[families[f].product.package] \in SUBSET Budgets
    BY BudgetsAssumption
  <2> QED  BY <2>1, ConditionStands
<1> HIDE DEF form
<1> QED  BY <1>1, <1>2, NamedBy

(* And one for each package that owns a family. *)
LEMMA PackagesNamed ==
  ASSUME NEW families,
         \A f \in DOMAIN families : families[f].product.package \in DOMAIN PackageBudgets
  PROVE  Named(PackageConditions(families), "package-boundary", OwnedPackages(families))
<1> DEFINE size(p) == Cardinality({f \in DOMAIN families : families[f].product.package = p})
           form(p) == Condition("package-boundary", p, size(p), "BH-09",
                                {"automated", "generated", "review"}, PackageBudgets[p])
<1>1. PackageConditions(families) = {form(p) : p \in OwnedPackages(families)}
  BY DEF PackageConditions, OwnedPackages
<1>2. ASSUME NEW p \in OwnedPackages(families)
      PROVE  Stands(form(p)) /\ form(p).id = <<"package-boundary", p>>
  <2>1. PackageBudgets[p] \in SUBSET Budgets
    BY BudgetsAssumption DEF OwnedPackages
  <2> HIDE DEF size
  <2> QED  BY <2>1, ConditionStands
<1> HIDE DEF form
<1> QED  BY <1>1, <1>2, NamedBy

(* The quality contract gives one for each budget, failure, blocker and gate. *)
LEMMA QualityNamed ==
  ASSUME NEW quality, quality.budgets = Budgets
  PROVE  /\ Named(BudgetConditions(quality), "quality-budget", Budgets)
         /\ Named(FailureConditions(quality), "quality-failure", quality.failures)
         /\ Named(BlockerConditions(quality), "quality-release-blocker", quality.blockers)
         /\ Named(GateConditions(quality), "quality-gate", quality.gates)
<1>1. Named(BudgetConditions(quality), "quality-budget", Budgets)
  <2> DEFINE form(b) == Condition("quality-budget", b, quality.threshold, "BH-22",
                                  {"benchmark", "generated", "review"}, {b})
  <2>1. BudgetConditions(quality) = {form(b) : b \in Budgets}
    BY DEF BudgetConditions
  <2>2. ASSUME NEW b \in Budgets
        PROVE  Stands(form(b)) /\ form(b).id = <<"quality-budget", b>>
    BY ConditionStands
  <2> HIDE DEF form
  <2> QED  BY <2>1, <2>2, NamedBy
<1>2. Named(FailureConditions(quality), "quality-failure", quality.failures)
  <2> DEFINE form(x) == Condition("quality-failure", x, "historical", "BH-22",
                                  {"automated", "browser", "review"}, {})
  <2>1. FailureConditions(quality) = {form(x) : x \in quality.failures}
    BY DEF FailureConditions
  <2>2. ASSUME NEW x \in quality.failures
        PROVE  Stands(form(x)) /\ form(x).id = <<"quality-failure", x>>
    BY ConditionStands
  <2> HIDE DEF form
  <2> QED  BY <2>1, <2>2, NamedBy
<1>3. Named(BlockerConditions(quality), "quality-release-blocker", quality.blockers)
  <2> DEFINE form(x) == Condition("quality-release-blocker", x, "historical", "BH-22",
                                  {"automated", "review"}, {})
  <2>1. BlockerConditions(quality) = {form(x) : x \in quality.blockers}
    BY DEF BlockerConditions
  <2>2. ASSUME NEW x \in quality.blockers
        PROVE  Stands(form(x)) /\ form(x).id = <<"quality-release-blocker", x>>
    BY ConditionStands
  <2> HIDE DEF form
  <2> QED  BY <2>1, <2>2, NamedBy
<1>4. Named(GateConditions(quality), "quality-gate", quality.gates)
  <2> DEFINE form(x) == Condition("quality-gate", x, "historical", "BH-22", {"review"}, {})
  <2>1. GateConditions(quality) = {form(x) : x \in quality.gates}
    BY DEF GateConditions
  <2>2. ASSUME NEW x \in quality.gates
        PROVE  Stands(form(x)) /\ form(x).id = <<"quality-gate", x>>
    BY ConditionStands
  <2> HIDE DEF form
  <2> QED  BY <2>1, <2>2, NamedBy
<1> QED  BY <1>1, <1>2, <1>3, <1>4

(* The names of everything the sources claim. *)
IdsOf(s) ==
  Ids("roadmap-milestone", Milestones) \cup Ids("cross-cutting-obligation", {"tests"})
    \cup Ids("non-goal", {"server-dom"}) \cup Ids("browser-envelope", EnvelopeItems)
    \cup Ids("catalog-family", DOMAIN s.classification.records)
    \cup Ids("package-boundary", OwnedPackages(s.classification.records))
    \cup Ids("quality-budget", Budgets) \cup Ids("quality-failure", s.quality.failures)
    \cup Ids("quality-release-blocker", s.quality.blockers)
    \cup Ids("quality-gate", s.quality.gates)

(* Every condition of a buildable registry stands, under the name of what it answers for. *)
LEMMA ConditionsNamed ==
  ASSUME NEW s, IsBuildable(s), s.quality.budgets = Budgets
  PROVE  {c.id : c \in ConditionsOf(s)} = IdsOf(s) /\ \A c \in ConditionsOf(s) : Stands(c)
<1>1. \A f \in DOMAIN s.classification.records :
        s.classification.records[f].product.package \in DOMAIN PackageBudgets
  BY DEF IsBuildable
<1>2. Named(FamilyConditions(s.classification.records), "catalog-family", DOMAIN s.classification.records)
  BY <1>1, FamiliesNamed
<1>3. Named(PackageConditions(s.classification.records), "package-boundary",
            OwnedPackages(s.classification.records))
  BY <1>1, PackagesNamed
<1> DEFINE c1 == RoadmapConditions(s.roadmap)
           c2 == ObligationConditions
           c3 == NonGoalConditions
           c4 == EnvelopeConditions(s.envelope)
           c5 == FamilyConditions(s.classification.records)
           c6 == PackageConditions(s.classification.records)
           c7 == BudgetConditions(s.quality)
           c8 == FailureConditions(s.quality)
           c9 == BlockerConditions(s.quality)
           c10 == GateConditions(s.quality)
<1>4. ConditionsOf(s) = c1 \cup c2 \cup c3 \cup c4 \cup c5 \cup c6 \cup c7 \cup c8 \cup c9 \cup c10
  BY DEF ConditionsOf
<1>5. /\ Named(c1, "roadmap-milestone", Milestones)
      /\ Named(c2, "cross-cutting-obligation", {"tests"})
      /\ Named(c3, "non-goal", {"server-dom"})
      /\ Named(c4, "browser-envelope", EnvelopeItems)
      /\ Named(c5, "catalog-family", DOMAIN s.classification.records)
      /\ Named(c6, "package-boundary", OwnedPackages(s.classification.records))
  BY <1>2, <1>3, RoadmapNamed, ObligationsNamed, NonGoalsNamed, EnvelopeNamed
<1>6. /\ Named(c7, "quality-budget", Budgets)
      /\ Named(c8, "quality-failure", s.quality.failures)
      /\ Named(c9, "quality-release-blocker", s.quality.blockers)
      /\ Named(c10, "quality-gate", s.quality.gates)
  BY QualityNamed
<1> HIDE DEF c1, c2, c3, c4, c5, c6, c7, c8, c9, c10
<1> DEFINE ids(conditions) == {c.id : c \in conditions}
<1>7. ids(ConditionsOf(s)) = ids(c1) \cup ids(c2) \cup ids(c3) \cup ids(c4) \cup ids(c5)
                               \cup ids(c6) \cup ids(c7) \cup ids(c8) \cup ids(c9) \cup ids(c10)
  BY <1>4
<1>8. \A c \in ConditionsOf(s) : Stands(c)
  BY <1>4, <1>5, <1>6 DEF Named
<1>9. IdsOf(s) = ids(c1) \cup ids(c2) \cup ids(c3) \cup ids(c4) \cup ids(c5)
                   \cup ids(c6) \cup ids(c7) \cup ids(c8) \cup ids(c9) \cup ids(c10)
  BY <1>5, <1>6 DEF Named, IdsOf
<1> QED  BY <1>7, <1>8, <1>9

SourcesIn(requirements, kind) == {r.id[2] : r \in {q \in requirements : q.id[1] = kind}}

(* A registry that is built answers for the claims of its sources, each once. *)
LEMMA BuiltSources ==
  ASSUME NEW s, IsBuildable(s), s.quality.budgets = Budgets, NEW kind
  PROVE  SourcesIn(BuildRegistry(s).requirements, kind) = {i[2] : i \in {j \in IdsOf(s) : j[1] = kind}}
<1> DEFINE need(i) == Requirement(i[1], i[2], SourceOf(i[1]))
           conditions == ConditionsOf(s)
           ids == IdsOf(s)
<1>1. BuildRegistry(s).requirements = {need(c.id) : c \in conditions}
  BY DEF BuildRegistry
<1>2. {c.id : c \in conditions} = ids /\ \A c \in conditions : Stands(c)
  BY ConditionsNamed
<1>3. \A c \in conditions : need(c.id).id = c.id
  <2> TAKE c \in conditions
  <2>1. c.id = <<c.id[1], c.id[2]>>
    BY <1>2 DEF Stands
  <2> QED  BY <2>1 DEF Requirement
<1> HIDE DEF need, conditions, ids
<1>4. BuildRegistry(s).requirements = {need(i) : i \in ids} /\ \A i \in ids : need(i).id = i
  BY <1>1, <1>2, <1>3
<1>5. SourcesIn({need(i) : i \in ids}, kind) = {i[2] : i \in {j \in ids : j[1] = kind}}
  BY <1>4 DEF SourcesIn
<1> QED  BY <1>4, <1>5 DEF ids

(* By kind, the names are those of the families, the budgets and the milestones. *)
LEMMA OfKind ==
  ASSUME NEW s
  PROVE  /\ {i[2] : i \in {j \in IdsOf(s) : j[1] = "catalog-family"}} = DOMAIN s.classification.records
         /\ {i[2] : i \in {j \in IdsOf(s) : j[1] = "quality-budget"}} = Budgets
         /\ {i[2] : i \in {j \in IdsOf(s) : j[1] = "roadmap-milestone"}} = Milestones
<1>1. \A kind, other, sources : \A i \in Ids(other, sources) : i[1] = other /\ i[2] \in sources
  BY DEF Ids
<1>2. ASSUME NEW kind, NEW sources, NEW x \in sources
      PROVE  \E i \in Ids(kind, sources) : i[1] = kind /\ i[2] = x
  <2>1. <<kind, x>> \in Ids(kind, sources) /\ <<kind, x>>[1] = kind /\ <<kind, x>>[2] = x
    BY DEF Ids
  <2> QED  BY <2>1
<1>3. ASSUME NEW i \in IdsOf(s), i[1] = "catalog-family"
      PROVE  i[2] \in DOMAIN s.classification.records
  BY <1>1, <1>3 DEF IdsOf
<1>4. ASSUME NEW i \in IdsOf(s), i[1] = "quality-budget"
      PROVE  i[2] \in Budgets
  BY <1>1, <1>4 DEF IdsOf
<1>5. ASSUME NEW i \in IdsOf(s), i[1] = "roadmap-milestone"
      PROVE  i[2] \in Milestones
  BY <1>1, <1>5 DEF IdsOf
<1>6. ASSUME NEW x \in DOMAIN s.classification.records
      PROVE  \E i \in IdsOf(s) : i[1] = "catalog-family" /\ i[2] = x
  BY <1>2 DEF IdsOf
<1>7. ASSUME NEW x \in Budgets
      PROVE  \E i \in IdsOf(s) : i[1] = "quality-budget" /\ i[2] = x
  BY <1>2 DEF IdsOf
<1>8. ASSUME NEW x \in Milestones
      PROVE  \E i \in IdsOf(s) : i[1] = "roadmap-milestone" /\ i[2] = x
  BY <1>2 DEF IdsOf
<1> QED  BY <1>3, <1>4, <1>5, <1>6, <1>7, <1>8

(* What is built links every requirement to its condition and back. *)
LEMMA BuiltLinks ==
  ASSUME NEW s, IsBuildable(s), s.quality.budgets = Budgets
  PROVE  LET registry == BuildRegistry(s) IN
         /\ \A r \in registry.requirements :
              /\ r.binding \in {"roadmap", "envelope", "classification", "quality"}
              /\ \A a \in r.acceptance : \E c \in registry.conditions : c.id = a /\ r.id \in c.requirements
         /\ \A c \in registry.conditions :
              /\ StateIsCoherent(c) /\ c.budgets \subseteq Budgets
              /\ \A q \in c.requirements : \E r \in registry.requirements : r.id = q /\ c.id \in r.acceptance
<1> DEFINE conditions == ConditionsOf(s)
           need(c) == Requirement(c.id[1], c.id[2], SourceOf(c.id[1]))
<1>1. BuildRegistry(s).conditions = conditions /\ BuildRegistry(s).requirements = {need(c) : c \in conditions}
  BY DEF BuildRegistry
<1>2. \A c \in conditions : Stands(c)
  BY ConditionsNamed
<1>3. ASSUME NEW c \in conditions
      PROVE  /\ need(c).id = c.id /\ need(c).acceptance = {c.id}
             /\ need(c).binding \in {"roadmap", "envelope", "classification", "quality"}
  <2>1. c.id = <<c.id[1], c.id[2]>>
    BY <1>2 DEF Stands
  <2>2. SourceOf(c.id[1]) \in {"roadmap", "envelope", "classification", "quality"}
    BY DEF SourceOf
  <2> QED  BY <2>1, <2>2 DEF Requirement
<1> HIDE DEF conditions, need
<1> QED  BY <1>1, <1>2, <1>3 DEF Stands

(* What the generator writes is what the validator accepts, under an amendment or not. *)
LEMMA CommittedIsAccepted ==
  ASSUME NEW roadmap, NEW S2, NEW S3, NEW S4, NEW s, NEW policy, NEW deferral,
         s = [roadmap |-> roadmap, envelope |-> S2, classification |-> S3, quality |-> S4],
         IsBuildable(s), S4.budgets = Budgets
  PROVE  RegistryIsAccepted(CommittedExpectation(s, policy, deferral), s, policy, deferral)
<1> DEFINE amended == AmendmentIsBound("historical", s.roadmap, policy, deferral)
           h == [roadmap |-> "historical", envelope |-> S2, classification |-> S3, quality |-> S4]
<1>1. PICK x : x = IF amended THEN h ELSE s
  OBVIOUS
<1>2. CommittedExpectation(s, policy, deferral) = BuildRegistry(x)
  <2>1. CASE amended
    <3>1. roadmap \in {"amended", "deferred"}
      BY <2>1 DEF AmendmentIsBound
    <3>2. HistoricalRegistry(BuildRegistry(s)) = BuildRegistry(h)
      BY <3>1, HistoryRestored
    <3> QED  BY <1>1, <2>1, <3>2 DEF CommittedExpectation
  <2>2. CASE ~amended
    BY <1>1, <2>2 DEF CommittedExpectation
  <2> QED  BY <2>1, <2>2
<1>3. x.classification = S3 /\ x.quality = S4 /\ x.envelope = S2
      /\ s.classification = S3 /\ s.quality = S4 /\ s.roadmap = roadmap
  BY <1>1
<1>4. IsBuildable(x) /\ x.quality.budgets = Budgets
  BY <1>3 DEF IsBuildable
<1> DEFINE registry == BuildRegistry(x)
<1>5. DOMAIN registry.bindings = {"roadmap", "envelope", "classification", "quality"} /\ registry.bindings = x
  BY <1>1 DEF BuildRegistry
<1>6. \A id \in DOMAIN registry.bindings : BindingIsCurrent(id, registry.bindings[id], s, policy, deferral)
  BY <1>1, <1>5 DEF BindingIsCurrent
<1>7. registry = IF registry.bindings.roadmap # s.roadmap
                 THEN HistoricalRegistry(BuildRegistry(s)) ELSE BuildRegistry(s)
  <2>1. CASE amended
    <3>1. roadmap \in {"amended", "deferred"}
      BY <1>3, <2>1 DEF AmendmentIsBound
    <3>2. HistoricalRegistry(BuildRegistry(s)) = BuildRegistry(h)
      BY <3>1, HistoryRestored
    <3>3. registry.bindings.roadmap = "historical"
      BY <1>1, <1>5, <2>1
    <3> QED  BY <1>1, <1>3, <2>1, <3>1, <3>2, <3>3
  <2>2. CASE ~amended
    BY <1>1, <1>5, <2>2
  <2> QED  BY <2>1, <2>2
<1>8. /\ SourcesIn(registry.requirements, "catalog-family") = DOMAIN S3.records
      /\ SourcesIn(registry.requirements, "quality-budget") = Budgets
      /\ SourcesIn(registry.requirements, "roadmap-milestone") = Milestones
  <2>1. \A kind : SourcesIn(registry.requirements, kind) = {i[2] : i \in {j \in IdsOf(x) : j[1] = kind}}
    BY <1>4, BuiltSources
  <2> HIDE DEF registry
  <2> QED  BY <1>3, <2>1, OfKind
<1>9. /\ \A r \in registry.requirements :
           /\ r.binding \in DOMAIN registry.bindings
           /\ \A a \in r.acceptance : \E c \in registry.conditions : c.id = a /\ r.id \in c.requirements
      /\ \A c \in registry.conditions :
           /\ StateIsCoherent(c) /\ c.budgets \subseteq Budgets
           /\ \A q \in c.requirements : \E r \in registry.requirements : r.id = q /\ c.id \in r.acceptance
  BY <1>4, <1>5, BuiltLinks
<1> HIDE DEF registry
<1>10. RegistryIsAccepted(registry, s, policy, deferral)
  BY <1>3, <1>6, <1>7, <1>8, <1>9 DEF RegistryIsAccepted, SourcesIn
<1> QED  BY <1>2, <1>10 DEF registry

-----------------------------------------------------------------------------
(* The invariant of the documents. *)

(* What every document looks like, however it is revised. *)
CatalogOf(families, premature) ==
  [families |-> families, premature |-> premature, relations |-> {}]

DocumentOf(catalog, p) ==
  [catalog |-> catalog, records |-> RecordsOf(p, catalog.families), stage |-> "complete", locked |-> TRUE]

QualityAt(threshold) ==
  [budgets |-> Budgets, failures |-> {"renderer"}, blockers |-> {"leak"},
   gates |-> Gates, stage |-> "complete", measured |-> FALSE, threshold |-> threshold]

IsCatalog(c) == \E s \in Snapshots, premature \in {{}, {1}} : c = CatalogOf(s, premature)

IsDocument(x) == \E c, p : IsCatalog(c) /\ p \in Products /\ x = DocumentOf(c, p)

IsQuality(q) == \E threshold \in {0, 1} : q = QualityAt(threshold)

(* The contract has at each stage what the sections before it have left. *)
IsContract(c) ==
  /\ c = [stage |-> c.stage, reviewed |-> c.reviewed, bindings |-> c.bindings,
          release |-> c.release, entry |-> c.entry, closed |-> c.closed]
  /\ c.stage \in {"6.1", "6.2", "6.3", "complete"}
  /\ c.stage # "6.1" => c.reviewed = TRUE
  /\ c.stage \in {"6.3", "complete"} => c.release # {} /\ c.entry = {TRUE}
  /\ c.stage = "complete" => c.closed = TRUE

Authored == {"snapshot", "lock", "catalog", "classification", "quality", "contract"}
Generated == {"registry", "report", "releaseIndex", "entryManifest", "catalogView", "classificationView"}

AuthoredFits(d) ==
  /\ Authored \subseteq DOMAIN d
  /\ d.snapshot \in Snapshots
  /\ IsCatalog(d.catalog) /\ IsDocument(d.classification)
  /\ IsQuality(d.quality) /\ IsContract(d.contract)

(* A generator has one or two texts left, all of generated files. *)
GeneratorFits ==
  gen = Idle \/ \E name, a, b : /\ {a.file, b.file} \subseteq Generated
                                /\ \/ gen = [name |-> name, texts |-> <<a>>]
                                   \/ gen = [name |-> name, texts |-> <<a, b>>]

DocumentsInv == AuthoredFits(disk) /\ GeneratorFits

-----------------------------------------------------------------------------
(* What rest means for each document, from the snapshot to the release. *)

(* At rest, lock, catalogue and its view are those of the snapshot. *)
LEMMA RestCatalog ==
  ASSUME AuthoredFits(disk), AtRest
  PROVE  /\ disk.lock = disk.snapshot /\ disk.catalog = CatalogOf(disk.snapshot, {})
         /\ CatalogIsCoherent(disk.catalog, disk.snapshot) /\ disk.catalogView = disk.catalog
<1>1. disk.lock = disk.snapshot
  BY DEF AtRest, Settled, Relocking
<1>2. PICK s \in Snapshots, premature \in {{}, {1}} : disk.catalog = CatalogOf(s, premature)
  BY DEF AuthoredFits, IsCatalog
<1>3. disk.catalog = [disk.catalog EXCEPT !.families = disk.snapshot, !.premature = {}]
  <2> DEFINE revised == [disk.catalog EXCEPT !.families = disk.snapshot, !.premature = {}]
  <2>1. CatalogRevision(disk) = {<<"catalog", revised>>}
    BY <1>1 DEF CatalogRevision
  <2> HIDE DEF revised
  <2>2. disk["catalog"] = revised
    BY <2>1 DEF AtRest, Settled
  <2> QED  BY <2>2 DEF revised
<1>4. disk.catalog = CatalogOf(disk.snapshot, {})
  <2> DEFINE k == disk.catalog
             snapshot == disk.snapshot
  <2>1. k = [families |-> s, premature |-> premature, relations |-> {}]
    BY <1>2 DEF CatalogOf
  <2>2. k = [k EXCEPT !.families = snapshot, !.premature = {}]
    BY <1>3
  <2> HIDE DEF k, snapshot
  <2>3. k = [families |-> snapshot, premature |-> {}, relations |-> {}]
    BY <2>1, <2>2
  <2> QED  BY <2>3 DEF k, snapshot, CatalogOf
<1>5. CatalogIsCoherent(disk.catalog, disk.snapshot)
  BY <1>4 DEF CatalogOf, CatalogIsCoherent, CatalogCovers, RelationsAreReviewed
<1>6. disk.catalogView = disk.catalog
  <2>1. CatalogTexts(disk) # <<>> => IsWritten(disk, CatalogTexts(disk))
    BY DEF AtRest, Generators, Texts
  <2> DEFINE view == disk.catalog
  <2> HIDE DEF view
  <2>2. CatalogTexts(disk) = <<Text("catalogView", view)>>
    BY DEF CatalogTexts, view
  <2>3. disk["catalogView"] = view
    BY <2>1, <2>2 DEF IsWritten, Text
  <2> QED  BY <2>3 DEF view
<1> QED  BY <1>1, <1>4, <1>5, <1>6

(* At rest, the classification is the catalogue's, and a registry can be built from it. *)
LEMMA RestClassification ==
  ASSUME AuthoredFits(disk), AtRest, AuthoredIsCoherent
  PROVE  /\ ClassificationDocumentIsAccepted(disk) /\ IsBuildable(Sources(disk))
         /\ disk.classification.catalog = disk.catalog
<1> DEFINE document == disk.classification
           families == disk.catalog.families
<1>1. families = disk.snapshot /\ Cardinality(families) = EntryCount
      /\ CatalogIsCoherent(disk.catalog, disk.snapshot)
  BY RestCatalog DEF CatalogOf, AuthoredIsCoherent, IsReconciled
<1>2. disk.snapshot \in Snapshots
  BY DEF AuthoredFits
<1>3. document.catalog = disk.catalog
  <2> SUFFICES ASSUME document.catalog # disk.catalog PROVE FALSE
    OBVIOUS
  <2>1. PICK p \in Products : ProductsAreLocked(p, families)
    BY <1>1, <1>2, DocumentsAssumption
  <2> DEFINE revised == [document EXCEPT !.catalog = disk.catalog, !.records = RecordsOf(p, families)]
  <2>2. <<"classification", revised>> \in Reclassification(disk)
    BY <1>1, <2>1 DEF Reclassification
  <2>3. disk["classification"] = revised
    <3> HIDE DEF revised
    <3> QED  BY <2>2 DEF AtRest, Settled
  <2>4. PICK c, p0 : document = DocumentOf(c, p0)
    BY DEF AuthoredFits, IsDocument
  <2>5. revised.catalog = disk.catalog
    BY <2>4 DEF DocumentOf
  <2> QED  BY <2>3, <2>5
<1>4. PICK p \in Products : document = DocumentOf(disk.catalog, p)
  <2>1. PICK c, p : p \in Products /\ document = DocumentOf(c, p)
    BY DEF AuthoredFits, IsDocument
  <2>2. c = disk.catalog
    BY <1>3, <2>1 DEF DocumentOf
  <2> QED  BY <2>1, <2>2
<1>5. /\ document.records = RecordsOf(p, families) /\ document.stage = "complete"
      /\ document.locked = TRUE
  BY <1>4 DEF DocumentOf
<1>6. DOMAIN document.records = families
  BY <1>5 DEF RecordsOf
<1>7. /\ \A f \in DOMAIN document.records : ProductIsCoherent(document.records[f].product)
      /\ Sound(document.records) /\ Counts(document.records) = LockedCounts
  BY DEF AuthoredIsCoherent
<1>8. ASSUME NEW f \in DOMAIN document.records
      PROVE  StageIsKept("complete", document.records[f], Known)
  <2> DEFINE r == document.records[f]
  <2>1. r = [product |-> p[f],
             capability |-> [required |-> {"accessibility"}, optional |-> {}, lifecycle |-> "none"],
             remote |-> IF p[f].package = "forms" THEN "optional-remote" ELSE "local-only",
             fallback |-> "offline",
             portability |-> [status |-> IF p[f].disposition = "renderer-extension"
                                         THEN "renderer-extension" ELSE "portable-semantic",
                              gate |-> TRUE]]
    BY <1>5, <1>6 DEF RecordsOf
  <2> HIDE DEF r
  <2>2. CapabilityIsComplete(r, Known)
    BY <2>1 DEF CapabilityIsComplete, Known
  <2>3. PortabilityIsProven(r)
    BY <2>1 DEF PortabilityIsProven, Specialised
  <2> QED  BY <2>2, <2>3 DEF StageIsKept, r
<1>9. disk.classificationView = <<document, disk.catalog>>
  <2>1. ClassificationTexts(disk) # <<>> => IsWritten(disk, ClassificationTexts(disk))
    BY DEF AtRest, Generators, Texts
  <2> DEFINE view == <<document, disk.catalog>>
  <2>2. ClassificationTexts(disk) = <<Text("classificationView", view)>>
    BY DEF ClassificationTexts
  <2> HIDE DEF view
  <2>3. disk["classificationView"] = view
    BY <2>1, <2>2 DEF IsWritten, Text
  <2> QED  BY <2>3 DEF view
<1>10. ClassificationDocumentIsAccepted(disk)
  BY <1>3, <1>5, <1>6, <1>7, <1>8, <1>9
  DEF ClassificationDocumentIsAccepted, ClassificationIsAccepted
<1>11. ASSUME NEW f \in DOMAIN document.records
       PROVE  /\ document.records[f].product.tier \in DOMAIN TierMilestones
              /\ document.records[f].product.package \in DOMAIN PackageBudgets
  <2> DEFINE product == document.records[f].product
  <2>1. product.package \in DOMAIN Counts(document.records)
    BY DEF Counts
  <2>2. product.package \in DOMAIN PackageBudgets
    BY <1>7, <2>1, DocumentsAssumption
  <2>3. ProductIsCoherent(product)
    BY <1>7
  <2> HIDE DEF product
  <2>4. product.package # "none"
    BY <2>2 DEF PackageBudgets
  <2>5. product.tier \in {"F0", "F1", "F2", "F3", "F4"}
    BY <2>3, <2>4 DEF ProductIsCoherent
  <2> QED  BY <2>2, <2>5 DEF TierMilestones, product
<1>12. IsBuildable(Sources(disk))
  BY <1>11 DEF IsBuildable, Sources
<1> QED  BY <1>3, <1>10, <1>12

(* At rest, the registry is fresh, and the validator accepts it. *)
LEMMA RestRegistry ==
  ASSUME AuthoredFits(disk), AtRest, IsBuildable(Sources(disk))
  PROVE  IsFresh(disk, "registry") /\ AcceptanceIsAccepted(disk)
<1>1. RegistryTexts(disk) # <<>>
  BY DEF RegistryTexts
<1>2. IsFresh(disk, "registry")
  <2>1. RegistryTexts(disk) # <<>> => IsWritten(disk, RegistryTexts(disk))
    BY DEF AtRest, Generators, Texts
  <2> QED  BY <1>1, <2>1 DEF IsFresh, Texts
<1>3. PICK threshold : disk.quality = QualityAt(threshold)
  BY DEF AuthoredFits, IsQuality
<1>4. QualityIsCoherent(disk.quality) /\ disk.quality.budgets = Budgets
  BY <1>3 DEF QualityIsCoherent, QualityAt, GatesAreComplete
<1>5. RegistryIsAccepted(CommittedExpectation(Sources(disk), disk.policy, disk.deferral),
                         Sources(disk), disk.policy, disk.deferral)
  <2> DEFINE s == Sources(disk)
  <2>1. s = [roadmap |-> disk.roadmap, envelope |-> disk.envelope,
             classification |-> disk.classification, quality |-> disk.quality]
    BY DEF Sources
  <2> HIDE DEF s
  <2>2. IsBuildable(s)
    BY DEF s
  <2>3. RegistryIsAccepted(CommittedExpectation(s, disk.policy, disk.deferral), s, disk.policy, disk.deferral)
    BY <1>4, <2>1, <2>2, CommittedIsAccepted
  <2> QED  BY <2>3 DEF s
<1> QED  BY <1>2, <1>4, <1>5, FreshRegistry DEF AcceptanceIsAccepted

(* At rest, the contract binds the disk, its stage is the last, and its release is fresh. *)
LEMMA RestContract ==
  ASSUME AuthoredFits(disk), AtRest, IsFresh(disk, "registry"),
         disk.classification.catalog = disk.catalog
  PROVE  SourcesAreBound(disk) /\ StageIsCoherent(disk) /\ IsFresh(disk, "release")
<1> DEFINE c == disk.contract
           bindings == BindingsNow(disk)
<1>1. IsContract(c)
  BY DEF AuthoredFits
<1>2. c = [c EXCEPT !.bindings = bindings, !.release = IF @ = {} THEN @ ELSE {bindings}]
  <2> DEFINE revised == [c EXCEPT !.bindings = bindings, !.release = IF @ = {} THEN @ ELSE {bindings}]
  <2>1. <<"contract", revised>> \in Rebinding(disk)
    BY DEF Rebinding
  <2>2. disk["contract"] = revised
    <3> HIDE DEF revised, bindings
    <3> QED  BY <2>1 DEF AtRest, Settled
  <2> QED  BY <2>2
<1>3. c.stage = "complete"
  <2>1. \A r \in Advancement(disk) : r[1] = "contract" => c = r[2]
    BY DEF AtRest, Settled
  <2>2. c.stage # "6.1"
    <3> SUFFICES ASSUME c.stage = "6.1" PROVE FALSE
      OBVIOUS
    <3> DEFINE revised == [c EXCEPT !.stage = "6.2", !.reviewed = TRUE]
    <3>1. Advancement(disk) = {<<"contract", revised>>}
      BY DEF Advancement
    <3>2. revised.stage = "6.2"
      BY <1>1 DEF IsContract
    <3>3. c = revised
      <4> HIDE DEF revised, c
      <4> QED  BY <2>1, <3>1
    <3> QED  BY <3>2, <3>3
  <2>3. c.stage # "6.2"
    <3> SUFFICES ASSUME c.stage = "6.2" PROVE FALSE
      OBVIOUS
    <3> DEFINE revised == [c EXCEPT !.stage = "6.3", !.release = {c.bindings}, !.entry = {TRUE}]
    <3>1. Advancement(disk) = {<<"contract", revised>>}
      BY DEF Advancement
    <3>2. revised.stage = "6.3"
      BY <1>1 DEF IsContract
    <3>3. c = revised
      <4> HIDE DEF revised, c
      <4> QED  BY <2>1, <3>1
    <3> QED  BY <3>2, <3>3
  <2>4. c.stage # "6.3"
    <3> SUFFICES ASSUME c.stage = "6.3" PROVE FALSE
      OBVIOUS
    <3> DEFINE revised == [c EXCEPT !.stage = "complete", !.closed = TRUE]
    <3>1. Advancement(disk) = {<<"contract", revised>>}
      BY DEF Advancement
    <3>2. revised.stage = "complete"
      BY <1>1 DEF IsContract
    <3>3. c = revised
      <4> HIDE DEF revised, c
      <4> QED  BY <2>1, <3>1
    <3> QED  BY <3>2, <3>3
  <2> QED  BY <1>1, <2>2, <2>3, <2>4 DEF IsContract
<1>4. /\ c.reviewed = TRUE /\ c.closed = TRUE /\ c.release # {} /\ c.entry = {TRUE}
  BY <1>1, <1>3 DEF IsContract
<1>5. c.bindings = bindings /\ c.release = {c.bindings}
  <2> HIDE DEF bindings
  <2>1. PICK b, r : /\ b = bindings /\ r = IF c.release = {} THEN c.release ELSE {bindings}
                    /\ c = [c EXCEPT !.bindings = b, !.release = r]
    BY <1>2
  <2>2. c.bindings = b /\ c.release = r
    <3>1. DOMAIN c = {"stage", "reviewed", "bindings", "release", "entry", "closed"}
      BY <1>1 DEF IsContract
    <3>2. [c EXCEPT !.bindings = b, !.release = r].bindings = b /\ [c EXCEPT !.bindings = b, !.release = r].release = r
      BY <3>1
    <3> QED  BY <2>1, <3>2
  <2> QED  BY <1>4, <2>1, <2>2
<1>6. IsFresh(disk, "release") /\ disk.releaseIndex = RenderRelease(c) /\ disk.entryManifest = RenderEntry(c)
  <2> DEFINE index == RenderRelease(c)
             entry == RenderEntry(c)
  <2>1. ReleaseTexts(disk) # <<>> => IsWritten(disk, ReleaseTexts(disk))
    BY DEF AtRest, Generators, Texts
  <2>2. ReleaseTexts(disk) = <<Text("releaseIndex", index), Text("entryManifest", entry)>>
    BY <1>4 DEF ReleaseTexts
  <2> HIDE DEF index, entry
  <2>3. ReleaseTexts(disk) # <<>>
    BY <2>2
  <2>4. disk["releaseIndex"] = index /\ disk["entryManifest"] = entry
    BY <2>1, <2>2, <2>3 DEF IsWritten, Text
  <2> QED  BY <2>1, <2>3, <2>4 DEF IsFresh, Texts, index, entry
<1>7. StageIsCoherent(disk)
  BY <1>3, <1>4, <1>5, <1>6
  DEF StageIsCoherent, ReviewIsComplete, ReleaseIsCurrent, CompletionIsEvidenced
<1>8. SourcesAreBound(disk)
  <2> DEFINE now == Bindable(disk)
             kept == c.bindings.roadmap
             road == IF AmendmentIsBound(kept, now.roadmap, disk.policy, disk.deferral) THEN kept ELSE now.roadmap
  <2>1. bindings = [now EXCEPT !.roadmap = road]
    BY DEF BindingsNow
  <2>2. DOMAIN now = {"roadmap", "envelope", "classification", "quality", "catalog", "acceptance"}
    BY DEF Bindable, Bindings
  <2> HIDE DEF now
  <2>3. bindings["roadmap"] = road /\ \A id \in DOMAIN now : id # "roadmap" => bindings[id] = now[id]
    <3> HIDE DEF road, bindings
    <3> QED  BY <2>1, <2>2
  <2>4. c.bindings.roadmap = road
    <3> HIDE DEF road, bindings
    <3> QED  BY <1>5, <2>3
  <2>5. BindingIsCurrent("roadmap", c.bindings["roadmap"], now, disk.policy, disk.deferral)
    BY <2>4 DEF BindingIsCurrent
  <2>6. \A id \in DOMAIN now : id # "roadmap" => BindingIsCurrent(id, c.bindings[id], now, disk.policy, disk.deferral)
    <3> HIDE DEF road, bindings
    <3> QED  BY <1>5, <2>3 DEF BindingIsCurrent
  <2> QED  BY <2>5, <2>6 DEF SourcesAreBound, now
<1> QED  BY <1>6, <1>7, <1>8

(* check_all passes when validators and generators do. *)
LEMMA PassesAll ==
  ASSUME GovernanceIsAccepted(disk), CatalogIsAccepted(disk), ClassificationDocumentIsAccepted(disk),
         AcceptanceIsAccepted(disk), \A name \in Generators : IsFresh(disk, name)
  PROVE  Passed
<1>1. /\ Passes(disk, "governance") /\ Passes(disk, "catalog") /\ Passes(disk, "classification")
      /\ Passes(disk, "acceptance")
  BY DEF Passes
<1>2. /\ Passes(disk, "registry --check") /\ Passes(disk, "release --check")
      /\ Passes(disk, "catalog --check") /\ Passes(disk, "classification --check")
  BY DEF Passes, Generators
<1>3. DOMAIN Commands = {1, 2, 3, 4, 5, 6, 7, 8}
  BY DEF Commands
<1>4. /\ Commands[1] = "governance" /\ Commands[2] = "catalog" /\ Commands[3] = "classification"
      /\ Commands[4] = "acceptance" /\ Commands[5] = "registry --check"
      /\ Commands[6] = "release --check" /\ Commands[7] = "catalog --check"
      /\ Commands[8] = "classification --check"
  BY DEF Commands
<1>5. \A i \in DOMAIN Commands : Passes(disk, Commands[i])
  BY <1>1, <1>2, <1>3, <1>4
<1> QED  BY <1>5 DEF Passed

(* At rest, every command passes. *)
LEMMA RestPasses ==
  ASSUME AuthoredFits(disk), AtRest, AuthoredIsCoherent
  PROVE  Passed
<1>1. /\ disk.lock = disk.snapshot /\ CatalogIsCoherent(disk.catalog, disk.snapshot)
      /\ disk.catalogView = disk.catalog /\ disk.catalog.families = disk.snapshot
  BY RestCatalog DEF CatalogOf
<1>2. CatalogIsAccepted(disk)
  BY <1>1 DEF CatalogIsAccepted, ReferenceIsLocked, AuthoredIsCoherent, IsReconciled
<1>3. ClassificationDocumentIsAccepted(disk) /\ IsBuildable(Sources(disk))
      /\ disk.classification.catalog = disk.catalog
  BY RestClassification
<1>4. IsFresh(disk, "registry") /\ AcceptanceIsAccepted(disk)
  BY <1>3, RestRegistry
<1>5. GovernanceIsAccepted(disk) /\ IsFresh(disk, "release")
  BY <1>3, <1>4, RestContract DEF GovernanceIsAccepted, AuthoredIsCoherent
<1>6. IsFresh(disk, "catalog") /\ IsFresh(disk, "classification")
  <2>1. CatalogTexts(disk) # <<>> /\ ClassificationTexts(disk) # <<>>
    BY DEF CatalogTexts, ClassificationTexts
  <2>2. Texts(disk, "catalog") = CatalogTexts(disk) /\ Texts(disk, "classification") = ClassificationTexts(disk)
    BY DEF Texts
  <2> QED  BY <2>1, <2>2 DEF AtRest, Generators, IsFresh
<1>7. \A name \in Generators : IsFresh(disk, name)
  BY <1>4, <1>5, <1>6 DEF Generators
<1> QED  BY <1>2, <1>3, <1>4, <1>5, <1>7, PassesAll

-----------------------------------------------------------------------------
(* The invariant is kept. *)

(* A document that is written is the only one that changes. *)
LEMMA Written ==
  ASSUME NEW file, NEW content, disk' = [disk EXCEPT ![file] = content]
  PROVE  /\ DOMAIN disk' = DOMAIN disk
         /\ file \in DOMAIN disk => disk'[file] = content
         /\ \A other \in DOMAIN disk : other # file => disk'[other] = disk[other]
  OBVIOUS

(* The invariant of the documents, one file at a time. *)
FileFits(file, content) ==
  /\ file = "snapshot" => content \in Snapshots
  /\ file = "catalog" => IsCatalog(content)
  /\ file = "classification" => IsDocument(content)
  /\ file = "quality" => IsQuality(content)
  /\ file = "contract" => IsContract(content)

(* AuthoredFits, one file at a time. *)
LEMMA FileByFile ==
  ASSUME NEW d
  PROVE  AuthoredFits(d) <=> Authored \subseteq DOMAIN d /\ \A file \in Authored : FileFits(file, d[file])
  BY DEF AuthoredFits, FileFits, Authored

(* Writing one document of its kind keeps the documents of their kinds. *)
LEMMA WriteKept ==
  ASSUME AuthoredFits(disk), NEW file, NEW content, FileFits(file, content),
         disk' = [disk EXCEPT ![file] = content]
  PROVE  AuthoredFits(disk')
<1>1. /\ Authored \subseteq DOMAIN disk'
      /\ \A other \in Authored : disk'[other] = IF other = file THEN content ELSE disk[other]
  BY FileByFile, Written
<1>2. \A other \in Authored : FileFits(other, disk[other])
  BY FileByFile
<1>3. \A other \in Authored : FileFits(other, disk'[other])
  BY <1>1, <1>2
<1> QED  BY <1>1, <1>3, FileByFile

(* There is a record for each family. *)
LEMMA RecordsFit ==
  ASSUME NEW p, NEW families
  PROVE  DOMAIN RecordsOf(p, families) = families
  BY DEF RecordsOf

(* Every revision of the author is a document of its kind. *)
LEMMA RevisionFits ==
  ASSUME AuthoredFits(disk), NEW r \in Revisions
  PROVE  FileFits(r[1], r[2])
<1>1. CASE r \in {<<"snapshot", s>> : s \in Snapshots}
  BY <1>1 DEF FileFits
<1>2. CASE r \in {<<"catalog", [disk.catalog EXCEPT !.premature = {f}]>> : f \in {1}}
  <2>1. PICK s \in Snapshots, premature \in {{}, {1}} : disk.catalog = CatalogOf(s, premature)
    BY DEF AuthoredFits, IsCatalog
  <2>2. r[1] = "catalog" /\ r[2] = [disk.catalog EXCEPT !.premature = {1}]
    BY <1>2
  <2>3. r[2] = CatalogOf(s, {1})
    BY <2>1, <2>2 DEF CatalogOf
  <2> QED  BY <2>2, <2>3 DEF FileFits, IsCatalog
<1>3. CASE r \in {<<"classification", [disk.classification EXCEPT
                     !.records = RecordsOf(p, DOMAIN disk.classification.records)]>> : p \in Products}
  <2>1. PICK c, p0 : IsCatalog(c) /\ disk.classification = DocumentOf(c, p0)
    BY DEF AuthoredFits, IsDocument
  <2>2. PICK p \in Products : r = <<"classification", [disk.classification EXCEPT
                                      !.records = RecordsOf(p, DOMAIN disk.classification.records)]>>
    BY <1>3
  <2>3. DOMAIN disk.classification.records = c.families
    BY <2>1, RecordsFit DEF DocumentOf
  <2>4. r[1] = "classification" /\ r[2] = [disk.classification EXCEPT !.records = RecordsOf(p, c.families)]
    BY <2>2, <2>3
  <2>5. r[2] = DocumentOf(c, p)
    <3> DEFINE old == disk.classification
               assigned == RecordsOf(p, c.families)
               before == RecordsOf(p0, c.families)
    <3>1. old = [catalog |-> c, records |-> before, stage |-> "complete", locked |-> TRUE]
      BY <2>1 DEF DocumentOf
    <3>2. r[2] = [old EXCEPT !.records = assigned]
      BY <2>4
    <3> HIDE DEF old, assigned, before
    <3>3. r[2] = [catalog |-> c, records |-> assigned, stage |-> "complete", locked |-> TRUE]
      BY <3>1, <3>2
    <3> QED  BY <3>3 DEF DocumentOf, assigned
  <2> QED  BY <2>1, <2>4, <2>5 DEF FileFits, IsDocument
<1>4. CASE r = <<"quality", [disk.quality EXCEPT !.threshold = 1 - @]>>
  <2>1. PICK threshold \in {0, 1} : disk.quality = QualityAt(threshold)
    BY DEF AuthoredFits, IsQuality
  <2> DEFINE old == disk.quality
  <2>2. r[1] = "quality" /\ r[2] = [old EXCEPT !.threshold = 1 - old.threshold]
    BY <1>4
  <2>3. old.threshold = threshold
    BY <2>1 DEF QualityAt
  <2>4. PICK t : t = 1 - threshold /\ r[2] = [old EXCEPT !.threshold = t]
    BY <2>2, <2>3
  <2> DEFINE failures == {"renderer"}
             blockers == {"leak"}
  <2>5. old = [budgets |-> Budgets, failures |-> failures, blockers |-> blockers, gates |-> Gates,
               stage |-> "complete", measured |-> FALSE, threshold |-> threshold]
    BY <2>1 DEF QualityAt
  <2> HIDE DEF old, failures, blockers
  <2>6. r[2] = [budgets |-> Budgets, failures |-> failures, blockers |-> blockers, gates |-> Gates,
                stage |-> "complete", measured |-> FALSE, threshold |-> t]
    BY <2>4, <2>5
  <2>7. r[2] = QualityAt(t)
    BY <2>6 DEF QualityAt, failures, blockers
  <2>8. t \in {0, 1}
    BY <2>4
  <2> QED  BY <2>2, <2>7, <2>8 DEF FileFits, IsQuality
<1>5. CASE r[1] \in {"roadmap", "policy", "deferral", "catalogView", "activated", "authorised", "registry"}
  BY <1>5 DEF FileFits
<1> DEFINE snapshots == {<<"snapshot", s>> : s \in Snapshots}
           catalogs == {<<"catalog", [disk.catalog EXCEPT !.premature = {f}]>> : f \in {1}}
           documents == {<<"classification", [disk.classification EXCEPT
                           !.records = RecordsOf(p, DOMAIN disk.classification.records)]>> : p \in Products}
           versions == CASE disk.roadmap = "historical" -> {"amended", "edited"}
                         [] disk.roadmap = "amended" -> {"deferred"}
                         [] OTHER -> {}
           roadmaps == {<<"roadmap", v>> : v \in versions}
           quality == [disk.quality EXCEPT !.threshold = 1 - @]
           policy == ~disk.policy
           deferral == ~disk.deferral
           claimed(c) == [disk.registry EXCEPT !.conditions =
                            (@ \ {c}) \cup {[c EXCEPT !.status = "passed", !.implementation = "implemented",
                                                      !.verification = "passed", !.claims = {"claim"}]}]
           claimants == {x \in disk.registry.conditions : x.id = <<"roadmap-milestone", "BH-01">>}
           registries == {<<"registry", claimed(c)>> : c \in claimants}
<1>6. Revisions = snapshots \cup catalogs \cup documents \cup roadmaps
                    \cup {<<"policy", policy>>, <<"deferral", deferral>>, <<"quality", quality>>,
                          <<"catalogView", None>>, <<"activated", {"ui_tree"}>>, <<"authorised", {"bh01"}>>}
                    \cup registries
  BY Zenon DEF Revisions
<1>7. \A x \in roadmaps : x[1] = "roadmap"
  <2> HIDE DEF versions
  <2> QED  OBVIOUS
<1>8. \A x \in registries : x[1] = "registry"
  <2> HIDE DEF claimed, claimants
  <2> QED  OBVIOUS
<1>9. \/ r \in snapshots \/ r \in catalogs \/ r \in documents
      \/ r = <<"quality", quality>>
      \/ r[1] \in {"roadmap", "policy", "deferral", "catalogView", "activated", "authorised", "registry"}
  <2> HIDE DEF snapshots, catalogs, documents, roadmaps, registries, quality, policy, deferral
  <2> QED  BY <1>6, <1>7, <1>8
<1> QED  BY <1>1, <1>2, <1>3, <1>4, <1>5, <1>9

(* An edit keeps the invariant. *)
LEMMA EditKept == DocumentsInv /\ Edit => DocumentsInv'
<1> SUFFICES ASSUME DocumentsInv, Edit PROVE DocumentsInv'
  OBVIOUS
<1>1. PICK r \in Revisions : disk' = [disk EXCEPT ![r[1]] = r[2]]
  BY DEF Edit, Write
<1>2. AuthoredFits(disk')
  BY <1>1, RevisionFits, WriteKept DEF DocumentsInv
<1> QED  BY <1>2 DEF DocumentsInv, GeneratorFits, Edit

(* What a follow-up writes is a document of its kind. *)
LEMMA CatalogRevisionFits ==
  ASSUME AuthoredFits(disk), NEW r \in CatalogRevision(disk)
  PROVE  FileFits(r[1], r[2])
<1>1. PICK s \in Snapshots, premature \in {{}, {1}} : disk.catalog = CatalogOf(s, premature)
  BY DEF AuthoredFits, IsCatalog
<1>2. r[1] = "catalog" /\ r[2] = [disk.catalog EXCEPT !.families = disk.snapshot, !.premature = {}]
  BY DEF CatalogRevision
<1>3. r[2] = CatalogOf(disk.snapshot, {})
  <2> DEFINE k == disk.catalog
             snapshot == disk.snapshot
  <2>1. k = [families |-> s, premature |-> premature, relations |-> {}]
    BY <1>1 DEF CatalogOf
  <2>2. r[2] = [k EXCEPT !.families = snapshot, !.premature = {}]
    BY <1>2
  <2> HIDE DEF k, snapshot
  <2>3. r[2] = [families |-> snapshot, premature |-> {}, relations |-> {}]
    BY <2>1, <2>2
  <2> QED  BY <2>3 DEF snapshot, CatalogOf
<1>4. disk.snapshot \in Snapshots
  BY DEF AuthoredFits
<1> QED  BY <1>2, <1>3, <1>4 DEF FileFits, IsCatalog

(* So is the classification of the new catalogue. *)
LEMMA ReclassificationFits ==
  ASSUME AuthoredFits(disk), NEW r \in Reclassification(disk)
  PROVE  FileFits(r[1], r[2])
<1>1. PICK c, p0 : IsCatalog(c) /\ disk.classification = DocumentOf(c, p0)
  BY DEF AuthoredFits, IsDocument
<1>2. PICK p \in Products :
        r = <<"classification", [disk.classification EXCEPT
                !.catalog = disk.catalog, !.records = RecordsOf(p, disk.catalog.families)]>>
  BY DEF Reclassification
<1>3. r[2] = DocumentOf(disk.catalog, p)
  <2> DEFINE k == disk.catalog
             old == disk.classification
             assigned == RecordsOf(p, k.families)
             before == RecordsOf(p0, c.families)
  <2>1. old = [catalog |-> c, records |-> before, stage |-> "complete", locked |-> TRUE]
    BY <1>1 DEF DocumentOf
  <2>2. r[2] = [old EXCEPT !.catalog = k, !.records = assigned]
    BY <1>2
  <2> HIDE DEF k, old, assigned, before
  <2>3. r[2] = [catalog |-> k, records |-> assigned, stage |-> "complete", locked |-> TRUE]
    BY <2>1, <2>2
  <2> QED  BY <2>3 DEF DocumentOf, k, assigned
<1>4. IsCatalog(disk.catalog)
  BY DEF AuthoredFits
<1>5. r[1] = "classification"
  BY <1>2
<1> QED  BY <1>3, <1>4, <1>5 DEF FileFits, IsDocument

(* So is the contract, bound again or one stage on. *)
LEMMA ContractFits ==
  ASSUME AuthoredFits(disk), NEW r \in Rebinding(disk) \cup Advancement(disk)
  PROVE  FileFits(r[1], r[2])
<1> DEFINE c == disk.contract
<1>1. IsContract(c)
  BY DEF AuthoredFits
<1>2. CASE r \in Rebinding(disk)
  <2> DEFINE bindings == BindingsNow(disk)
             release == IF c.release = {} THEN c.release ELSE {bindings}
  <2>1. r[1] = "contract" /\ r[2] = [c EXCEPT !.bindings = bindings, !.release = release]
    BY <1>2 DEF Rebinding
  <2>2. c.release # {} => release # {}
    OBVIOUS
  <2> HIDE DEF c, bindings, release
  <2>3. r[2] = [stage |-> c.stage, reviewed |-> c.reviewed, bindings |-> bindings,
                release |-> release, entry |-> c.entry, closed |-> c.closed]
    BY <1>1, <2>1 DEF IsContract
  <2> DEFINE x == r[2]
  <2>4. /\ x.stage = c.stage /\ x.reviewed = c.reviewed /\ x.bindings = bindings
        /\ x.release = release /\ x.entry = c.entry /\ x.closed = c.closed
        /\ x = [stage |-> x.stage, reviewed |-> x.reviewed, bindings |-> x.bindings,
                release |-> x.release, entry |-> x.entry, closed |-> x.closed]
    BY <2>3
  <2>5. /\ c.stage \in {"6.1", "6.2", "6.3", "complete"}
        /\ c.stage # "6.1" => c.reviewed = TRUE
        /\ c.stage \in {"6.3", "complete"} => c.release # {} /\ c.entry = {TRUE}
        /\ c.stage = "complete" => c.closed = TRUE
    BY <1>1 DEF IsContract
  <2> HIDE DEF x
  <2>6. IsContract(x)
    BY <2>2, <2>4, <2>5 DEF IsContract
  <2> QED  BY <2>1, <2>6 DEF FileFits, x
<1>3. CASE r \in Advancement(disk)
  <2>1. r[1] = "contract"
    BY <1>1, <1>3 DEF Advancement, IsContract
  <2>2. \/ c.stage = "6.1" /\ r[2] = [c EXCEPT !.stage = "6.2", !.reviewed = TRUE]
        \/ c.stage = "6.2" /\ r[2] = [c EXCEPT !.stage = "6.3", !.release = {c.bindings}, !.entry = {TRUE}]
        \/ c.stage = "6.3" /\ r[2] = [c EXCEPT !.stage = "complete", !.closed = TRUE]
    BY <1>1, <1>3 DEF Advancement, IsContract
  <2> HIDE DEF c
  <2>3. CASE c.stage = "6.1" /\ r[2] = [c EXCEPT !.stage = "6.2", !.reviewed = TRUE]
    <3>1. r[2] = [stage |-> "6.2", reviewed |-> TRUE, bindings |-> c.bindings,
                  release |-> c.release, entry |-> c.entry, closed |-> c.closed]
      BY <1>1, <2>3 DEF IsContract
    <3>2. IsContract(r[2])
      BY <3>1 DEF IsContract
    <3> QED  BY <2>1, <3>2 DEF FileFits
  <2>4. CASE c.stage = "6.2" /\ r[2] = [c EXCEPT !.stage = "6.3", !.release = {c.bindings}, !.entry = {TRUE}]
    <3> DEFINE release == {c.bindings}
               entry == {TRUE}
    <3>1. release # {} /\ entry = {TRUE} /\ c.reviewed = TRUE
      BY <1>1, <2>4 DEF IsContract
    <3>2. r[2] = [c EXCEPT !.stage = "6.3", !.release = release, !.entry = entry]
      BY <2>4
    <3> HIDE DEF release, entry
    <3>3. r[2] = [stage |-> "6.3", reviewed |-> c.reviewed, bindings |-> c.bindings,
                  release |-> release, entry |-> entry, closed |-> c.closed]
      BY <1>1, <3>2 DEF IsContract
    <3>4. IsContract(r[2])
      BY <3>1, <3>3 DEF IsContract
    <3> QED  BY <2>1, <3>4 DEF FileFits
  <2>5. CASE c.stage = "6.3" /\ r[2] = [c EXCEPT !.stage = "complete", !.closed = TRUE]
    <3>1. c.release # {} /\ c.entry = {TRUE} /\ c.reviewed = TRUE
      BY <1>1, <2>5 DEF IsContract
    <3>2. r[2] = [stage |-> "complete", reviewed |-> c.reviewed, bindings |-> c.bindings,
                  release |-> c.release, entry |-> c.entry, closed |-> TRUE]
      BY <1>1, <2>5 DEF IsContract
    <3>3. IsContract(r[2])
      BY <3>1, <3>2 DEF IsContract
    <3> QED  BY <2>1, <3>3 DEF FileFits
  <2> QED  BY <2>2, <2>3, <2>4, <2>5
<1> QED  BY <1>2, <1>3

(* A follow-up keeps the invariant. *)
LEMMA FollowUpKept ==
  ASSUME DocumentsInv, NEW repairs, \A r \in repairs : FileFits(r[1], r[2]), FollowUp(repairs)
  PROVE  DocumentsInv'
<1>1. PICK r \in repairs : disk' = [disk EXCEPT ![r[1]] = r[2]]
  BY DEF FollowUp, Write
<1>2. AuthoredFits(disk')
  BY <1>1, WriteKept DEF DocumentsInv
<1> QED  BY <1>2 DEF DocumentsInv, GeneratorFits, FollowUp

(* Each of the five follow-ups is one. *)
LEMMA RepairKept == DocumentsInv /\ Repair => DocumentsInv'
<1> SUFFICES ASSUME DocumentsInv, Repair PROVE DocumentsInv'
  OBVIOUS
<1>1. AuthoredFits(disk)
  BY DEF DocumentsInv
<1>2. CASE Relock
  <2>1. \A r \in Relocking(disk) : FileFits(r[1], r[2])
    BY DEF Relocking, FileFits
  <2> QED  BY <1>2, <2>1, FollowUpKept DEF Relock
<1>3. CASE ReviseCatalog
  BY <1>1, <1>3, CatalogRevisionFits, FollowUpKept DEF ReviseCatalog
<1>4. CASE Reclassify
  BY <1>1, <1>4, ReclassificationFits, FollowUpKept DEF Reclassify
<1>5. CASE Rebind
  BY <1>1, <1>5, ContractFits, FollowUpKept DEF Rebind
<1>6. CASE Advance
  BY <1>1, <1>6, ContractFits, FollowUpKept DEF Advance
<1> QED  BY <1>2, <1>3, <1>4, <1>5, <1>6 DEF Repair

(* A generator computes one or two texts, all of generated files. *)
LEMMA TextsFit ==
  ASSUME NEW d, NEW name \in Generators, Texts(d, name) # <<>>
  PROVE  \E a, b : {a.file, b.file} \subseteq Generated /\ Texts(d, name) \in {<<a>>, <<a, b>>}
<1>1. \A file, content : Text(file, content).file = file
  BY DEF Text
<1>2. CASE name = "registry"
  <2> DEFINE registry == CommittedExpectation(Sources(d), d.policy, d.deferral)
             a == Text("registry", registry)
             b == Text("report", RenderReport(registry))
  <2>1. Texts(d, name) = <<a, b>>
    BY <1>2 DEF Texts, RegistryTexts
  <2>2. {a.file, b.file} \subseteq Generated
    BY <1>1 DEF Generated
  <2> QED  BY <2>1, <2>2
<1>3. CASE name = "release"
  <2> DEFINE a == Text("releaseIndex", RenderRelease(d.contract))
             b == Text("entryManifest", RenderEntry(d.contract))
  <2>1. Texts(d, name) = <<a, b>>
    BY <1>3 DEF Texts, ReleaseTexts
  <2>2. {a.file, b.file} \subseteq Generated
    BY <1>1 DEF Generated
  <2> QED  BY <2>1, <2>2
<1>4. CASE name = "catalog"
  <2> DEFINE a == Text("catalogView", d.catalog)
  <2>1. Texts(d, name) = <<a>>
    BY <1>4 DEF Texts, CatalogTexts
  <2>2. {a.file, a.file} \subseteq Generated
    BY <1>1 DEF Generated
  <2> QED  BY <2>1, <2>2
<1>5. CASE name = "classification"
  <2> DEFINE a == Text("classificationView", <<d.classification, d.catalog>>)
  <2>1. Texts(d, name) = <<a>>
    BY <1>5 DEF Texts, ClassificationTexts
  <2>2. {a.file, a.file} \subseteq Generated
    BY <1>1 DEF Generated
  <2> QED  BY <2>1, <2>2
<1> QED  BY <1>2, <1>3, <1>4, <1>5 DEF Generators

(* A generator that starts keeps the invariant. *)
LEMMA GenerateKept ==
  ASSUME DocumentsInv, NEW name \in Generators, Generate(name)
  PROVE  DocumentsInv'
<1>1. PICK a, b : {a.file, b.file} \subseteq Generated /\ Texts(disk, name) \in {<<a>>, <<a, b>>}
  BY TextsFit DEF Generate
<1>2. gen' = [name |-> name, texts |-> Texts(disk, name)]
  BY DEF Generate
<1>3. GeneratorFits'
  BY <1>1, <1>2 DEF GeneratorFits
<1>4. AuthoredFits(disk')
  BY DEF DocumentsInv, Generate
<1> QED  BY <1>3, <1>4 DEF DocumentsInv

(* One of its writes keeps it. *)
LEMMA WriteTextKept == DocumentsInv /\ WriteText => DocumentsInv'
<1> SUFFICES ASSUME DocumentsInv, WriteText PROVE DocumentsInv'
  OBVIOUS
<1>1. PICK name, a, b : /\ {a.file, b.file} \subseteq Generated
                        /\ \/ gen = [name |-> name, texts |-> <<a>>]
                           \/ gen = [name |-> name, texts |-> <<a, b>>]
  BY DEF DocumentsInv, GeneratorFits, WriteText
<1>2. Head(gen.texts) = a /\ Tail(gen.texts) \in {<<>>, <<b>>}
  <2>1. Head(<<a>>) = a /\ Tail(<<a>>) = <<>> /\ Head(<<a, b>>) = a /\ Tail(<<a, b>>) = <<b>>
    OBVIOUS
  <2>2. gen.texts = <<a>> \/ gen.texts = <<a, b>>
    BY <1>1
  <2> QED  BY <2>1, <2>2
<1>3. disk' = [disk EXCEPT ![a.file] = a.content]
  BY <1>2 DEF WriteText
<1>4. FileFits(a.file, a.content)
  BY <1>1 DEF FileFits, Generated
<1>5. AuthoredFits(disk')
  BY <1>3, <1>4, WriteKept DEF DocumentsInv
<1>6. GeneratorFits'
  <2>1. CASE Tail(gen.texts) = <<>>
    BY <2>1 DEF WriteText, GeneratorFits
  <2>2. CASE Tail(gen.texts) # <<>>
    <3>1. gen' = [gen EXCEPT !.texts = <<b>>]
      BY <1>2, <2>2 DEF WriteText
    <3>2. gen' = [name |-> name, texts |-> <<b>>]
      BY <1>1, <3>1
    <3> QED  BY <1>1, <3>2 DEF GeneratorFits
  <2> QED  BY <2>1, <2>2
<1> QED  BY <1>5, <1>6 DEF DocumentsInv

(* No step breaks the invariant. *)
LEMMA DocumentsInvKept == DocumentsInv /\ [DocumentsNext]_documentVars => DocumentsInv'
<1> SUFFICES ASSUME DocumentsInv, [DocumentsNext]_documentVars PROVE DocumentsInv'
  OBVIOUS
<1>1. CASE Edit
  BY <1>1, EditKept
<1>2. CASE Repair
  BY <1>2, RepairKept
<1>3. CASE \E name \in Generators : Generate(name)
  BY <1>3, GenerateKept
<1>4. CASE WriteText
  BY <1>4, WriteTextKept
<1>5. CASE Interrupt
  BY <1>5 DEF Interrupt, DocumentsInv, GeneratorFits
<1>6. CASE UNCHANGED documentVars
  BY <1>6 DEF documentVars, DocumentsInv, GeneratorFits
<1> QED  BY <1>1, <1>2, <1>3, <1>4, <1>5, <1>6 DEF DocumentsNext

(* A repository at rest has documents of their kinds, and so has one before its release. *)
LEMMA ConsistentFits ==
  ASSUME NEW s \in Snapshots, NEW p \in Products
  PROVE  AuthoredFits(Consistent(s, p)) /\ AuthoredFits(Reconciled(Consistent(s, p)))
<1> DEFINE d == Consistent(s, p)
           catalog == CatalogOf(s, {})
           document == DocumentOf(catalog, p)
           quality == QualityAt(0)
           sources == [roadmap |-> "historical", envelope |-> 0, classification |-> document, quality |-> quality]
           registry == BuildRegistry(sources)
           bindings == Bindings(sources, catalog, registry)
           contract == [stage |-> "complete", reviewed |-> TRUE, bindings |-> bindings,
                        release |-> {bindings}, entry |-> {TRUE}, closed |-> TRUE]
<1>1. d = [roadmap |-> "historical", envelope |-> 0, classification |-> document,
           quality |-> quality, catalog |-> catalog,
           snapshot |-> s, lock |-> s, catalogView |-> catalog,
           classificationView |-> <<document, catalog>>,
           policy |-> TRUE, deferral |-> TRUE, activated |-> {}, authorised |-> {},
           registry |-> registry, report |-> RenderReport(registry), contract |-> contract,
           releaseIndex |-> RenderRelease(contract), entryManifest |-> RenderEntry(contract)]
  BY DEF Consistent, CatalogOf, DocumentOf, QualityAt
<1>2. IsCatalog(catalog) /\ IsQuality(quality)
  BY DEF IsCatalog, IsQuality
<1>3. IsDocument(document)
  BY <1>2 DEF IsDocument
<1> HIDE DEF catalog, document, quality, registry
<1> DEFINE release == {bindings}
           entry == {TRUE}
<1>4. contract = [stage |-> "complete", reviewed |-> TRUE, bindings |-> bindings,
                  release |-> release, entry |-> entry, closed |-> TRUE]
  OBVIOUS
<1>5. release # {} /\ entry = {TRUE}
  OBVIOUS
<1> DEFINE index == RenderRelease(contract)
           manifest == RenderEntry(contract)
           report == RenderReport(registry)
           view == <<document, catalog>>
           none == {}
<1> HIDE DEF bindings, release, entry, contract, index, manifest, report, view, d, none
<1>6. d = [roadmap |-> "historical", envelope |-> 0, classification |-> document,
           quality |-> quality, catalog |-> catalog,
           snapshot |-> s, lock |-> s, catalogView |-> catalog,
           classificationView |-> view,
           policy |-> TRUE, deferral |-> TRUE, activated |-> none, authorised |-> none,
           registry |-> registry, report |-> report, contract |-> contract,
           releaseIndex |-> index, entryManifest |-> manifest]
  BY <1>1 DEF view, report, index, manifest, none
<1>7. IsContract(contract)
  BY <1>4, <1>5 DEF IsContract
<1>8. AuthoredFits(d)
  BY <1>2, <1>3, <1>6, <1>7 DEF AuthoredFits, Authored
<1> DEFINE before == [contract EXCEPT !.stage = "6.1", !.reviewed = FALSE, !.release = none,
                                      !.entry = none, !.closed = FALSE]
<1>9. before = [stage |-> "6.1", reviewed |-> FALSE, bindings |-> bindings,
                release |-> none, entry |-> none, closed |-> FALSE]
  <2> DEFINE yes == TRUE
             no == FALSE
             last == "complete"
             first == "6.1"
  <2>1. contract = [stage |-> last, reviewed |-> yes, bindings |-> bindings,
                    release |-> release, entry |-> entry, closed |-> yes]
    BY <1>4
  <2>2. before = [contract EXCEPT !.stage = first, !.reviewed = no, !.release = none,
                                  !.entry = none, !.closed = no]
    OBVIOUS
  <2> HIDE DEF yes, no, last, first, before
  <2>3. before = [stage |-> first, reviewed |-> no, bindings |-> bindings,
                  release |-> none, entry |-> none, closed |-> no]
    BY <2>1, <2>2
  <2> QED  BY <2>3 DEF no, first
<1>10. IsContract(before)
  BY <1>9 DEF IsContract
<1> DEFINE e == Reconciled(d)
<1>11. e = [d EXCEPT !.contract = before, !.releaseIndex = None, !.entryManifest = None]
  BY <1>6 DEF Reconciled, none
<1> HIDE DEF before, e
<1>12. DOMAIN e = DOMAIN d /\ e["contract"] = before
       /\ \A file \in {"snapshot", "lock", "catalog", "classification", "quality"} : e[file] = d[file]
  BY <1>6, <1>11
<1>13. AuthoredFits(e)
  BY <1>8, <1>10, <1>12 DEF AuthoredFits, Authored
<1> QED  BY <1>8, <1>13 DEF d, e

(* The documents are always of their kinds. *)
LEMMA DocumentsInvAlways == DocumentsSpec => []DocumentsInv
<1>1. DocumentsInit => DocumentsInv
  BY ConsistentFits, DocumentsAssumption DEF DocumentsInit, DocumentsInv, GeneratorFits
<1> QED  BY <1>1, DocumentsInvKept, PTL DEF DocumentsSpec

(* When the author's follow-ups and the generators have nothing left to write, check_all passes:  *)
(* no two of the recorded digests keep making each other stale, for any number of edits and      *)
(* interrupted generators.                                                                       *)
THEOREM NothingLeftPasses == DocumentsSpec => []RepairsSuffice
<1>1. DocumentsInv => RepairsSuffice
  BY RestPasses DEF DocumentsInv, RepairsSuffice
<1> QED  BY <1>1, DocumentsInvAlways, PTL
=============================================================================
