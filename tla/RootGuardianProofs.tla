------------------------- MODULE RootGuardianProofs -------------------------
(***************************************************************************)
(* A guardian and its coordinator, for any number of receipts: between     *)
(* them each receipt is answered for, and once, wherever a crash falls,    *)
(* and the terminal record of a root is the one it keeps.                  *)
(*                                                                         *)
(* The guardian cancels what its last list says.  So the invariant speaks  *)
(* of the list it would have if it drained its mailbox now (View): a       *)
(* receipt the host was told of is not on it and will not be put on it     *)
(* (Once), and one a caller was promised stays on it until its outcome is  *)
(* due (Owed).                                                             *)
(***************************************************************************)
EXTENDS RootGuardian, SequenceTheorems, FiniteSetTheorems, TLAPS

-----------------------------------------------------------------------------
(* The list of work after a sequence of checkpoints. *)

(* The message says nothing of the receipt r. *)
Silent(m, r) == m.kind # "work" /\ ~(m.kind = "done" /\ m.receipt = r)

(* The receipts on the list after these checkpoints, given the list before. *)
Listed(work, b) ==
  {r \in Receipts :
     \/ \E k \in 1 .. Len(b) : /\ b[k].kind = "work" /\ r \in b[k].live
                               /\ \A j \in 1 .. Len(b) : j > k => Silent(b[j], r)
     \/ r \in work /\ \A j \in 1 .. Len(b) : Silent(b[j], r)}

View == Listed(guardian.work, box)

(* The guardian still has to account for what is on its list. *)
Watching == ~IsTerminal(guardian) /\ guardian.phase # "gone"

(* The k-th emission of a script reports, forgets or lists the receipt r. *)
Reports(s, k, r) == s[k].kind = "outcome" /\ s[k].receipt = r

Forgets(s, k, r) == s[k].kind = "done" /\ s[k].receipt = r

Lists(s, k, r) == s[k].kind = "work" /\ r \in s[k].live

Due(s, r) == \E k \in 1 .. Len(s) : Reports(s, k, r)

Told(r) == host.outcomes[r] >= 1

-----------------------------------------------------------------------------
(* The inductive invariant. *)

(* Phases of the guardian and what it knows of its coordinator. *)
Phases ==
  /\ guardian.phase = "waiting" => ~IsTerminal(guardian)
  /\ guardian.phase \in {"crashing", "killing"} =>
       /\ IsTerminal(guardian)
       /\ ~guardian.late => ~worker.alive
  /\ ~guardian.known \/ guardian.late => IsTerminal(guardian)
  /\ guardian.phase = "killing" => guardian.todo = {}
  /\ ~worker.alive => worker.script = <<>>
  /\ \A k \in 1 .. Len(box) : box[k].kind = "exit" => ~worker.alive

(* Only a running root has work, and no message is ahead of the coordinator's end. *)
NotFinal(s) == \A k \in 1 .. Len(s) : s[k].status \notin Final

Ends ==
  /\ worker.status # "running" => worker.live = {}
  /\ worker.status = "none" => worker.receipt = 0
  /\ worker.status \notin Final =>
       /\ NotFinal(box) /\ NotFinal(worker.script)
       /\ \A e \in worker.reply : e.status \notin Final
       /\ IsTerminal(guardian) =>
            \/ guardian.phase \in {"crashing", "killing", "gone"}
            \/ ~worker.alive /\ (worker.torn \/ \A r \in host.given : Told(r))

(* A receipt is live, due, told, promised: numbered as they were given. *)
Numbers ==
  /\ worker.live \subseteq 1 .. worker.receipt
  /\ \A r \in Receipts : Due(worker.script, r) => r <= worker.receipt
  /\ host.given \subseteq 1 .. worker.receipt
  /\ \A e \in worker.reply : e.receipt <= worker.receipt

(* A script ends with the last list and the return of the handler. *)
Returns(s, live) ==
  s # <<>> =>
    /\ s[Len(s)].kind = "end"
    /\ \A k \in 1 .. Len(s) : s[k].kind = "end" => k = Len(s)
    /\ Len(s) >= 2 => s[Len(s) - 1].kind = "work" /\ s[Len(s) - 1].live = live

Scripts ==
  /\ Returns(worker.script, worker.live)
  /\ Len(worker.script) = 1 /\ Watching => View = worker.live
  /\ \A k \in 1 .. Len(worker.script) :
       worker.script[k].kind = "end" /\ worker.script[k].receipt # 0 =>
         LET r == worker.script[k].receipt
         IN  /\ r <= worker.receipt
             /\ worker.torn \/ Told(r) \/ Due(worker.script, r) \/ r \in worker.live

(* The receipt r is reported once, off the list by then. *)
OnceDue(s, r) ==
  \A k \in 1 .. Len(s) : Reports(s, k, r) =>
    /\ \A i \in 1 .. Len(s) : Reports(s, i, r) => i = k
    /\ Watching =>
         \/ r \notin View /\ \A i \in 1 .. Len(s) : ~Lists(s, i, r)
         \/ \E j \in 1 .. Len(s) : /\ j < k /\ Forgets(s, j, r)
                                   /\ \A i \in 1 .. Len(s) : Lists(s, i, r) => i < j

(* No receipt has two outcomes, past or to come. *)
Once ==
  ~guardian.late =>
    /\ \A r \in Receipts : host.outcomes[r] <= 1
    /\ worker.alive => \A r \in Receipts : Told(r) => r <= worker.receipt
    /\ \A r \in Receipts : OnceDue(worker.script, r)
    /\ \A r \in Receipts : Due(worker.script, r) => ~Told(r) /\ r \notin worker.live
    /\ worker.alive => \A r \in worker.live : ~Told(r)
    /\ Watching =>
         \A r \in Receipts : Told(r) =>
           r \notin View /\ \A i \in 1 .. Len(worker.script) : ~Lists(worker.script, i, r)
    /\ guardian.phase = "crashing" => \A r \in guardian.todo : ~Told(r)

(* The receipts that callers were given, or that wait in a reply. *)
Promised == host.given \cup ({e.receipt : e \in worker.reply} \ {0})

(* A promised receipt was reported, is due, or is live and on the list until then. *)
Owed ==
  /\ worker.torn \/ \A r \in Promised : Told(r) \/ Due(worker.script, r) \/ r \in worker.live
  /\ Watching =>
       \A r \in Promised \cap worker.live :
         /\ r \in View
         /\ \A k \in 1 .. Len(worker.script) :
              /\ worker.script[k].kind = "work" => Lists(worker.script, k, r)
              /\ ~Forgets(worker.script, k, r)
  /\ guardian.phase \in {"crashing", "killing"} =>
       worker.torn \/ \A r \in host.given : Told(r) \/ Due(worker.script, r) \/ r \in guardian.todo

IInv == TypeOK /\ Phases /\ Ends /\ Numbers /\ Scripts /\ Once /\ Owed

-----------------------------------------------------------------------------
(* The list of work. *)

(* A further checkpoint replaces the list, takes one receipt off it, or says nothing. *)
LEMMA ListedAppend ==
  ASSUME NEW work \in SUBSET Receipts, NEW b \in Seq(Emission), NEW e \in Emission
  PROVE  Listed(work, Append(b, e)) =
           IF e.kind = "work" THEN e.live ELSE {r \in Listed(work, b) : Silent(e, r)}
<1> DEFINE c == Append(b, e)
           n == Len(b)
<1>1. n \in Nat /\ Len(c) = n + 1 /\ c[n + 1] = e /\ \A i \in 1 .. n : c[i] = b[i]
  BY AppendProperties, LenProperties
<1>2. e.live \subseteq Receipts
  BY DEF Emission
<1> HIDE DEF c, n
<1> SUFFICES ASSUME NEW r \in Receipts
             PROVE  r \in Listed(work, c) <=>
                      IF e.kind = "work" THEN r \in e.live ELSE r \in Listed(work, b) /\ Silent(e, r)
  <2>1. Listed(work, c) \subseteq Receipts /\ Listed(work, b) \subseteq Receipts
    BY DEF Listed
  <2>2. QED BY <1>2, <2>1 DEF c
<1>3. r \in Listed(work, c) <=>
        \/ \E k \in 1 .. n + 1 : /\ c[k].kind = "work" /\ r \in c[k].live
                                 /\ \A j \in 1 .. n + 1 : j > k => Silent(c[j], r)
        \/ r \in work /\ \A j \in 1 .. n + 1 : Silent(c[j], r)
  BY <1>1 DEF Listed
<1>4. r \in Listed(work, b) <=>
        \/ \E k \in 1 .. n : /\ b[k].kind = "work" /\ r \in b[k].live
                             /\ \A j \in 1 .. n : j > k => Silent(b[j], r)
        \/ r \in work /\ \A j \in 1 .. n : Silent(b[j], r)
  BY DEF Listed, n
<1>5. CASE e.kind = "work"
  <2>1. ~Silent(c[n + 1], r)
    BY <1>1, <1>5 DEF Silent
  <2>2. r \in e.live => r \in Listed(work, c)
    BY <1>1, <1>3, <1>5
  <2>3. r \in Listed(work, c) => r \in e.live
    <3>1. ASSUME NEW k \in 1 .. n + 1, c[k].kind = "work", r \in c[k].live,
                 \A j \in 1 .. n + 1 : j > k => Silent(c[j], r)
          PROVE  r \in e.live
      <4>1. k = n + 1
        BY <1>1, <2>1, <3>1
      <4>2. QED BY <1>1, <3>1, <4>1
    <3>2. ~(\A j \in 1 .. n + 1 : Silent(c[j], r))
      BY <1>1, <2>1
    <3>3. QED BY <1>3, <3>1, <3>2
  <2>4. QED BY <1>5, <2>2, <2>3
<1>6. CASE e.kind # "work"
  <2>1. ASSUME r \in Listed(work, b), Silent(e, r) PROVE r \in Listed(work, c)
    <3>1. ASSUME NEW k \in 1 .. n, b[k].kind = "work", r \in b[k].live,
                 \A j \in 1 .. n : j > k => Silent(b[j], r)
          PROVE  r \in Listed(work, c)
      <4>1. k \in 1 .. n + 1 /\ c[k].kind = "work" /\ r \in c[k].live
        BY <1>1, <3>1
      <4>2. \A j \in 1 .. n + 1 : j > k => Silent(c[j], r)
        <5> SUFFICES ASSUME NEW j \in 1 .. n + 1, j > k PROVE Silent(c[j], r)
          OBVIOUS
        <5>1. j \in 1 .. n \/ j = n + 1
          BY <1>1
        <5>2. QED BY <1>1, <2>1, <3>1, <5>1
      <4>3. QED BY <1>3, <4>1, <4>2
    <3>2. ASSUME r \in work, \A j \in 1 .. n : Silent(b[j], r) PROVE r \in Listed(work, c)
      <4>1. \A j \in 1 .. n + 1 : Silent(c[j], r)
        <5> SUFFICES ASSUME NEW j \in 1 .. n + 1 PROVE Silent(c[j], r)
          OBVIOUS
        <5>1. j \in 1 .. n \/ j = n + 1
          BY <1>1
        <5>2. QED BY <1>1, <2>1, <3>2, <5>1
      <4>2. QED BY <1>3, <3>2, <4>1
    <3>3. QED BY <1>4, <2>1, <3>1, <3>2
  <2>2. ASSUME r \in Listed(work, c) PROVE r \in Listed(work, b) /\ Silent(e, r)
    <3>1. n + 1 \in 1 .. n + 1
      BY <1>1
    <3>2. ASSUME NEW k \in 1 .. n + 1, c[k].kind = "work", r \in c[k].live,
                 \A j \in 1 .. n + 1 : j > k => Silent(c[j], r)
          PROVE  r \in Listed(work, b) /\ Silent(e, r)
      <4>1. k \in 1 .. n
        BY <1>1, <1>6, <3>2
      <4>2. Silent(e, r)
        BY <1>1, <3>1, <3>2, <4>1
      <4>3. b[k].kind = "work" /\ r \in b[k].live
        BY <1>1, <3>2, <4>1
      <4>4. \A j \in 1 .. n : j > k => Silent(b[j], r)
        BY <1>1, <3>2
      <4>5. QED BY <1>4, <4>1, <4>2, <4>3, <4>4
    <3>3. ASSUME r \in work, \A j \in 1 .. n + 1 : Silent(c[j], r)
          PROVE  r \in Listed(work, b) /\ Silent(e, r)
      <4>1. Silent(e, r)
        BY <1>1, <3>1, <3>3
      <4>2. \A j \in 1 .. n : Silent(b[j], r)
        BY <1>1, <3>3
      <4>3. QED BY <1>4, <3>3, <4>1, <4>2
    <3>4. QED BY <1>3, <2>2, <3>2, <3>3
  <2>3. QED BY <1>6, <2>1, <2>2
<1>7. QED BY <1>5, <1>6

(* The list after one checkpoint. *)
Noted(work, m) ==
  IF m.kind = "work" THEN m.live ELSE IF m.kind = "done" THEN work \ {m.receipt} ELSE work

(* Taking the first checkpoint of the mailbox does not change the list it amounts to. *)
LEMMA ListedTail ==
  ASSUME NEW work \in SUBSET Receipts, NEW b \in Seq(Emission), b # <<>>
  PROVE  Listed(Noted(work, Head(b)), Tail(b)) = Listed(work, b)
<1> DEFINE c == Tail(b)
           n == Len(c)
           w == Noted(work, Head(b))
<1>1. n \in Nat /\ Len(b) = n + 1 /\ \A i \in 1 .. n : c[i] = b[i + 1]
  BY HeadTailProperties, LenProperties
<1>2. Head(b) = b[1]
  OBVIOUS
<1> HIDE DEF c, n
<1> SUFFICES ASSUME NEW r \in Receipts PROVE r \in Listed(w, c) <=> r \in Listed(work, b)
  <2>1. Listed(w, c) \subseteq Receipts /\ Listed(work, b) \subseteq Receipts
    BY DEF Listed
  <2>2. QED BY <2>1 DEF c
<1>3. r \in Listed(w, c) <=>
        \/ \E k \in 1 .. n : /\ c[k].kind = "work" /\ r \in c[k].live
                             /\ \A j \in 1 .. n : j > k => Silent(c[j], r)
        \/ r \in w /\ \A j \in 1 .. n : Silent(c[j], r)
  BY <1>1 DEF Listed, n
<1>4. r \in Listed(work, b) <=>
        \/ \E k \in 1 .. n + 1 : /\ b[k].kind = "work" /\ r \in b[k].live
                                 /\ \A j \in 1 .. n + 1 : j > k => Silent(b[j], r)
        \/ r \in work /\ \A j \in 1 .. n + 1 : Silent(b[j], r)
  BY <1>1 DEF Listed
<1>5. r \in w <=> \/ b[1].kind = "work" /\ r \in b[1].live
                  \/ r \in work /\ Silent(b[1], r)
  BY <1>2 DEF Noted, Silent
<1> HIDE DEF w
<1>6. \A j \in 1 .. n + 1 : j = 1 \/ (j - 1 \in 1 .. n /\ c[j - 1] = b[j])
  BY <1>1
<1>7. ASSUME r \in Listed(w, c) PROVE r \in Listed(work, b)
  <2>1. ASSUME NEW k \in 1 .. n, c[k].kind = "work", r \in c[k].live,
               \A j \in 1 .. n : j > k => Silent(c[j], r)
        PROVE  r \in Listed(work, b)
    <3>1. k + 1 \in 1 .. n + 1 /\ b[k + 1].kind = "work" /\ r \in b[k + 1].live
      BY <1>1, <2>1
    <3>2. \A j \in 1 .. n + 1 : j > k + 1 => Silent(b[j], r)
      <4> SUFFICES ASSUME NEW j \in 1 .. n + 1, j > k + 1 PROVE Silent(b[j], r)
        OBVIOUS
      <4>1. j - 1 \in 1 .. n /\ c[j - 1] = b[j] /\ j - 1 > k
        BY <1>1, <1>6
      <4>2. QED BY <2>1, <4>1
    <3>3. QED BY <1>4, <3>1, <3>2
  <2>2. ASSUME r \in w, \A j \in 1 .. n : Silent(c[j], r) PROVE r \in Listed(work, b)
    <3>1. \A j \in 1 .. n + 1 : j > 1 => Silent(b[j], r)
      BY <1>1, <1>6, <2>2
    <3>2. CASE b[1].kind = "work" /\ r \in b[1].live
      <4>1. 1 \in 1 .. n + 1
        BY <1>1
      <4>2. QED BY <1>4, <3>1, <3>2, <4>1
    <3>3. CASE r \in work /\ Silent(b[1], r)
      <4>1. \A j \in 1 .. n + 1 : Silent(b[j], r)
        <5> SUFFICES ASSUME NEW j \in 1 .. n + 1 PROVE Silent(b[j], r)
          OBVIOUS
        <5>1. j = 1 \/ j > 1
          BY <1>1
        <5>2. QED BY <3>1, <3>3, <5>1
      <4>2. QED BY <1>4, <3>3, <4>1
    <3>4. QED BY <1>5, <2>2, <3>2, <3>3
  <2>3. QED BY <1>3, <1>7, <2>1, <2>2
<1>8. ASSUME r \in Listed(work, b) PROVE r \in Listed(w, c)
  <2>1. ASSUME NEW k \in 1 .. n + 1, b[k].kind = "work", r \in b[k].live,
               \A j \in 1 .. n + 1 : j > k => Silent(b[j], r)
        PROVE  r \in Listed(w, c)
    <3>1. CASE k = 1
      <4>1. \A j \in 1 .. n : Silent(c[j], r)
        <5> SUFFICES ASSUME NEW j \in 1 .. n PROVE Silent(c[j], r)
          OBVIOUS
        <5>1. j + 1 \in 1 .. n + 1 /\ j + 1 > k /\ c[j] = b[j + 1]
          BY <1>1, <3>1
        <5>2. QED BY <2>1, <5>1
      <4>2. QED BY <1>3, <1>5, <2>1, <3>1, <4>1
    <3>2. CASE k # 1
      <4>1. k - 1 \in 1 .. n /\ c[k - 1] = b[k]
        BY <1>6, <3>2
      <4>2. \A j \in 1 .. n : j > k - 1 => Silent(c[j], r)
        <5> SUFFICES ASSUME NEW j \in 1 .. n, j > k - 1 PROVE Silent(c[j], r)
          OBVIOUS
        <5>1. j + 1 \in 1 .. n + 1 /\ j + 1 > k /\ c[j] = b[j + 1]
          BY <1>1
        <5>2. QED BY <2>1, <5>1
      <4>3. QED BY <1>3, <2>1, <4>1, <4>2
    <3>3. QED BY <3>1, <3>2
  <2>2. ASSUME r \in work, \A j \in 1 .. n + 1 : Silent(b[j], r) PROVE r \in Listed(w, c)
    <3>1. Silent(b[1], r)
      BY <1>1, <2>2
    <3>2. \A j \in 1 .. n : Silent(c[j], r)
      <4> SUFFICES ASSUME NEW j \in 1 .. n PROVE Silent(c[j], r)
        OBVIOUS
      <4>1. j + 1 \in 1 .. n + 1 /\ c[j] = b[j + 1]
        BY <1>1
      <4>2. QED BY <2>2, <4>1
    <3>3. QED BY <1>3, <1>5, <2>2, <3>1, <3>2
  <2>3. QED BY <1>4, <1>8, <2>1, <2>2
<1>9. QED BY <1>7, <1>8

(* A set of positions has a last one. *)
LEMMA LastIn ==
  ASSUME NEW n \in Nat, NEW S, S \subseteq 1 .. n, S # {}
  PROVE  \E k \in S : \A j \in S : j <= k
<1> DEFINE R == OpToRel(<, Nat)
           T == {n - m : m \in S}
<1>1. IsWellFoundedOn(R, Nat)
  BY NatLessThanWellFounded
<1>2. T \subseteq Nat /\ T # {}
  <2>1. \A m \in S : n - m \in Nat
    OBVIOUS
  <2>2. PICK m \in S : TRUE
    OBVIOUS
  <2>3. n - m \in T
    OBVIOUS
  <2>4. QED BY <2>1, <2>3
<1>3. \A x, y \in Nat : x < y => <<x, y>> \in R
  BY DEF OpToRel
<1> HIDE DEF R
<1>4. PICK x \in T : \A y \in T : <<y, x>> \notin R
  <2> HIDE DEF T
  <2> QED BY <1>1, <1>2, WFMin, Zenon
<1>5. PICK m \in S : x = n - m
  OBVIOUS
<1>6. \A k \in S : k <= m
  <2> SUFFICES ASSUME NEW k \in S, ~(k <= m) PROVE FALSE
    OBVIOUS
  <2>1. n - k \in T /\ n - k < x /\ n - k \in Nat /\ x \in Nat
    BY <1>5
  <2>2. QED BY <2>1, <1>3, <1>4
<1>7. QED BY <1>6

(* Draining the mailbox gives the list that its checkpoints amount to, and changes nothing of the
   guardian but its list and its snapshot. *)
LEMMA DrainedIsListed ==
  ASSUME guardian \in Guardian, box \in Seq(Emission)
  PROVE  /\ Drained(guardian) \in Guardian
         /\ Drained(guardian).work = View
         /\ Drained(guardian).phase = guardian.phase /\ Drained(guardian).known = guardian.known
         /\ Drained(guardian).todo = guardian.todo /\ Drained(guardian).late = guardian.late
<1> DEFINE works == {k \in DOMAIN box : box[k].kind = "work"}
           snaps == {k \in DOMAIN box : box[k].kind = "snapshot"}
           last(S) == CHOOSE k \in S : \A j \in S : j <= k
           from  == IF works = {} THEN 0 ELSE last(works)
           work  == IF works = {} THEN guardian.work ELSE box[from].live
           done  == {box[k].receipt : k \in {j \in DOMAIN box : j > from /\ box[j].kind = "done"}}
           n     == Len(box)
<1>1. n \in Nat /\ DOMAIN box = 1 .. n /\ \A k \in 1 .. n : box[k] \in Emission
  BY LenProperties
<1>2. guardian.work \subseteq Receipts /\ guardian.status \in Statuses
        /\ guardian.error \in {"none", "reported", "crashed"}
  BY DEF Guardian
<1>3. works \subseteq 1 .. n /\ snaps \subseteq 1 .. n
  BY <1>1
<1>4. \A S : S \subseteq 1 .. n /\ S # {} => last(S) \in S /\ \A j \in S : j <= last(S)
  BY <1>1, LastIn
<1>5. /\ works # {} => from \in 1 .. n /\ box[from].kind = "work"
                        /\ \A j \in 1 .. n : box[j].kind = "work" => j <= from
      /\ works = {} => from = 0 /\ \A j \in 1 .. n : box[j].kind # "work"
  <2>1. CASE works # {}
    <3>1. from = last(works)
      BY <2>1
    <3>2. from \in works /\ \A j \in works : j <= from
      BY <1>3, <1>4, <2>1, <3>1
    <3>3. QED BY <1>1, <2>1, <3>2
  <2>2. CASE works = {}
    BY <1>1, <2>2
  <2>3. QED BY <2>1, <2>2
<1>6. work \subseteq Receipts
  <2>1. \A k \in 1 .. n : box[k].live \subseteq Receipts
    BY <1>1 DEF Emission
  <2>2. QED BY <1>2, <1>5, <2>1
<1>7. \A r : r \in done <=> \E j \in 1 .. n : j > from /\ box[j].kind = "done" /\ box[j].receipt = r
  BY <1>1
<1>8. from \in Nat
  BY <1>5
<1> DEFINE status == IF snaps = {} THEN guardian.status ELSE box[last(snaps)].status
           error  == IF snaps = {} THEN guardian.error
                     ELSE IF box[last(snaps)].status = "failed" THEN "reported" ELSE "none"
<1>9. status \in Statuses /\ error \in {"none", "reported", "crashed"}
  <2>1. CASE snaps = {}
    BY <1>2, <2>1
  <2>2. CASE snaps # {}
    <3>1. last(snaps) \in 1 .. n
      BY <1>3, <1>4, <2>2
    <3>2. box[last(snaps)].status \in Statuses
      BY <1>1, <3>1 DEF Emission
    <3>3. QED BY <2>2, <3>2
  <2>3. QED BY <2>1, <2>2
<1>10. Drained(guardian) = [guardian EXCEPT !.work = work \ done, !.status = status, !.error = error]
  BY DEF Drained
<1> HIDE DEF status, error, done, work, from, works, snaps, last, n
<1>11. /\ Drained(guardian) \in Guardian /\ Drained(guardian).work = work \ done
       /\ Drained(guardian).phase = guardian.phase /\ Drained(guardian).known = guardian.known
       /\ Drained(guardian).todo = guardian.todo /\ Drained(guardian).late = guardian.late
  BY <1>6, <1>9, <1>10 DEF Guardian
<1>12. work \ done = View
  <2> SUFFICES ASSUME NEW r \in Receipts PROVE r \in work \ done <=> r \in View
    <3>1. View \subseteq Receipts
      BY DEF View, Listed
    <3>2. QED BY <1>6, <3>1
  <2>1. r \in View <=>
          \/ \E k \in 1 .. n : /\ box[k].kind = "work" /\ r \in box[k].live
                               /\ \A j \in 1 .. n : j > k => Silent(box[j], r)
          \/ r \in guardian.work /\ \A j \in 1 .. n : Silent(box[j], r)
    BY DEF View, Listed, n
  <2>2. CASE works # {}
    <3>1. work = box[from].live
      BY <2>2 DEF work
    <3>2. ASSUME r \in work \ done PROVE r \in View
      <4>1. \A j \in 1 .. n : j > from => Silent(box[j], r)
        BY <1>5, <1>7, <1>8, <2>2, <3>2 DEF Silent
      <4>2. QED BY <1>5, <2>1, <2>2, <3>1, <3>2, <4>1
    <3>3. ASSUME r \in View PROVE r \in work \ done
      <4>1. ~(\A j \in 1 .. n : Silent(box[j], r))
        BY <1>5, <2>2 DEF Silent
      <4>2. PICK k \in 1 .. n : /\ box[k].kind = "work" /\ r \in box[k].live
                                /\ \A j \in 1 .. n : j > k => Silent(box[j], r)
        BY <2>1, <3>3, <4>1
      <4>3. k = from
        <5>1. k <= from /\ ~(from > k)
          BY <1>5, <2>2, <4>2 DEF Silent
        <5>2. QED BY <1>8, <5>1
      <4>4. r \notin done
        BY <1>7, <4>2, <4>3 DEF Silent
      <4>5. QED BY <3>1, <4>2, <4>3, <4>4
    <3>4. QED BY <3>2, <3>3
  <2>3. CASE works = {}
    <3>1. work = guardian.work /\ from = 0
      BY <1>5, <2>3 DEF work
    <3>2. \A j \in 1 .. n : box[j].kind # "work" /\ j > from
      BY <1>5, <2>3, <3>1
    <3>3. r \in done <=> \E j \in 1 .. n : box[j].kind = "done" /\ box[j].receipt = r
      BY <1>7, <3>2
    <3>4. (\A j \in 1 .. n : Silent(box[j], r)) <=> r \notin done
      BY <3>2, <3>3 DEF Silent
    <3>5. QED BY <2>1, <3>1, <3>2, <3>4
  <2>4. QED BY <2>2, <2>3
<1>13. QED BY <1>11, <1>12

(* What draining leaves is an exit or nothing, and adds nothing to the list. *)
LEMMA UndrainedIsQuiet ==
  ASSUME box \in Seq(Emission), NEW work \in SUBSET Receipts
  PROVE  /\ Undrained \in Seq(Emission)
         /\ NotFinal(Undrained)
         /\ Listed(work, Undrained) = work
         /\ \A k \in 1 .. Len(Undrained) :
              Undrained[k].kind = "exit" => \E j \in 1 .. Len(box) : box[j].kind = "exit"
<1> DEFINE x == Say("exit", "none")
<1>1. x \in Emission /\ x.kind = "exit" /\ x.status \notin Final
  BY GuardianAssumption DEF Say, Emission, Statuses, Final
<1>2. DOMAIN box = 1 .. Len(box)
  BY LenProperties
<1> HIDE DEF x
<1>3. Undrained = IF \E k \in DOMAIN box : box[k].kind = "exit" THEN <<x>> ELSE <<>>
  BY DEF Undrained, x
<1>4. CASE \E k \in DOMAIN box : box[k].kind = "exit"
  <2>1. Undrained = <<x>> /\ Len(<<x>>) = 1 /\ <<x>>[1] = x /\ <<x>> \in Seq(Emission)
    BY <1>1, <1>3, <1>4
  <2>2. \A r : Silent(x, r)
    BY <1>1 DEF Silent
  <2>3. Listed(work, <<x>>) = work
    BY <1>1, <2>1, <2>2 DEF Listed
  <2>4. QED BY <1>1, <1>2, <1>4, <2>1, <2>3 DEF NotFinal
<1>5. CASE ~ \E k \in DOMAIN box : box[k].kind = "exit"
  <2>1. Undrained = <<>> /\ Len(<<>>) = 0 /\ <<>> \in Seq(Emission)
    BY <1>3, <1>5
  <2>2. QED BY <2>1 DEF Listed, NotFinal
<1>6. QED BY <1>4, <1>5

-----------------------------------------------------------------------------
(* Scripts. *)

Saying == {"work", "done", "snapshot", "outcome", "event", "end", "exit"}

(* What is said is an emission with these fields. *)
LEMMA Sayings ==
  /\ \A kind \in Saying, status \in Statuses :
       LET e == Say(kind, status)
       IN  e \in Emission /\ e.kind = kind /\ e.status = status /\ e.live = {} /\ e.receipt = 0
  /\ \A live \in SUBSET Receipts :
       LET e == SayWork(live)
       IN  e \in Emission /\ e.kind = "work" /\ e.status = "none" /\ e.live = live /\ e.receipt = 0
  /\ \A kind \in Saying, r \in Receipts :
       LET e == SayReceipt(kind, r)
       IN  e \in Emission /\ e.kind = kind /\ e.status = "none" /\ e.live = {} /\ e.receipt = r
  /\ \A status \in Statuses, r \in 0 .. MaxReceipt :
       LET e == [Say("end", status) EXCEPT !.receipt = r]
       IN  e \in Emission /\ e.kind = "end" /\ e.status = status /\ e.live = {} /\ e.receipt = r
BY GuardianAssumption DEF Say, SayWork, SayReceipt, Emission, Saying, Statuses, Receipts

(* A report of r comes once, and the guardian has forgotten r by then for good. *)
Accounts(s, r) ==
  \A k \in 1 .. Len(s) : Reports(s, k, r) =>
    /\ \A i \in 1 .. Len(s) : Reports(s, i, r) => i = k
    /\ \E j \in 1 .. Len(s) : /\ j < k /\ Forgets(s, j, r)
                              /\ \A i \in 1 .. Len(s) : Lists(s, i, r) => i < j

(* Emissions that report the receipts X and list at least low and at most high. *)
Speaks(s, X, low, high, final) ==
  /\ s \in Seq(Emission)
  /\ \A k \in 1 .. Len(s) :
       /\ s[k].kind \notin {"end", "exit"}
       /\ s[k].kind \in {"done", "outcome"} => s[k].receipt \in X
       /\ s[k].kind = "work" => low \subseteq s[k].live /\ s[k].live \subseteq high
       /\ s[k].status \in Final => final
  /\ \A r \in X : Due(s, r) /\ Accounts(s, r)

Avoids(s, X) == \A k \in 1 .. Len(s) : s[k].kind = "work" => s[k].live \cap X = {}

(* Positions of a concatenation. *)
LEMMA Places ==
  ASSUME NEW a \in Seq(Emission), NEW b \in Seq(Emission)
  PROVE  /\ a \o b \in Seq(Emission)
         /\ Len(a) \in Nat /\ Len(b) \in Nat /\ Len(a \o b) = Len(a) + Len(b)
         /\ \A k \in 1 .. Len(a) : k \in 1 .. Len(a \o b) /\ (a \o b)[k] = a[k]
         /\ \A k \in 1 .. Len(b) : Len(a) + k \in 1 .. Len(a \o b) /\ (a \o b)[Len(a) + k] = b[k]
         /\ \A k \in 1 .. Len(a \o b) : k \in 1 .. Len(a) \/ \E j \in 1 .. Len(b) : k = Len(a) + j
<1>1. /\ a \o b \in Seq(Emission) /\ Len(a \o b) = Len(a) + Len(b)
      /\ \A i \in 1 .. Len(a) + Len(b) : (a \o b)[i] = IF i <= Len(a) THEN a[i] ELSE b[i - Len(a)]
  BY ConcatProperties
<1>2. Len(a) \in Nat /\ Len(b) \in Nat
  BY LenProperties
<1> DEFINE c == a \o b
           m == Len(a)
           n == Len(b)
<1>3. /\ m \in Nat /\ n \in Nat /\ Len(c) = m + n
      /\ \A i \in 1 .. m + n : c[i] = IF i <= m THEN a[i] ELSE b[i - m]
  BY <1>1, <1>2
<1> HIDE DEF c, m, n
<1>4. \A k \in 1 .. m : k \in 1 .. Len(c) /\ c[k] = a[k]
  BY <1>3
<1>5. \A k \in 1 .. n : m + k \in 1 .. Len(c) /\ c[m + k] = b[k]
  BY <1>3
<1>6. \A k \in 1 .. Len(c) : k \in 1 .. m \/ \E j \in 1 .. n : k = m + j
  <2> SUFFICES ASSUME NEW k \in 1 .. Len(c), k \notin 1 .. m PROVE \E j \in 1 .. n : k = m + j
    OBVIOUS
  <2>1. k - m \in 1 .. n /\ k = m + (k - m)
    BY <1>3
  <2>2. QED BY <2>1
<1>7. QED BY <1>1, <1>2, <1>4, <1>5, <1>6 DEF c, m, n

(* One after the other, if the second does not put back what the first reported. *)
LEMMA SpeaksOn ==
  ASSUME NEW a, NEW b, NEW A, NEW B, NEW low, NEW high, NEW final,
         Speaks(a, A, low, high, final), Speaks(b, B, low, high, final),
         A \cap B = {}, Avoids(b, A)
  PROVE  Speaks(a \o b, A \cup B, low, high, final)
<1> DEFINE c == a \o b
           m == Len(a)
           n == Len(b)
<1>1. a \in Seq(Emission) /\ b \in Seq(Emission)
  BY DEF Speaks
<1>2. /\ c \in Seq(Emission) /\ m \in Nat /\ n \in Nat /\ Len(c) = m + n
      /\ \A k \in 1 .. m : k \in 1 .. Len(c) /\ c[k] = a[k]
      /\ \A k \in 1 .. n : m + k \in 1 .. Len(c) /\ c[m + k] = b[k]
      /\ \A k \in 1 .. Len(c) : k \in 1 .. m \/ \E j \in 1 .. n : k = m + j
  BY <1>1, Places
<1>3. /\ \A k \in 1 .. m :
           /\ a[k].kind \notin {"end", "exit"}
           /\ a[k].kind \in {"done", "outcome"} => a[k].receipt \in A
           /\ a[k].kind = "work" => low \subseteq a[k].live /\ a[k].live \subseteq high
           /\ a[k].status \in Final => final
      /\ \A k \in 1 .. n :
           /\ b[k].kind \notin {"end", "exit"}
           /\ b[k].kind \in {"done", "outcome"} => b[k].receipt \in B
           /\ b[k].kind = "work" => low \subseteq b[k].live /\ b[k].live \subseteq high
           /\ b[k].status \in Final => final
      /\ \A r \in A : Due(a, r) /\ Accounts(a, r)
      /\ \A r \in B : Due(b, r) /\ Accounts(b, r)
      /\ \A k \in 1 .. n : b[k].kind = "work" => b[k].live \cap A = {}
  BY DEF Speaks, Avoids
<1>4. \A r : /\ \A k \in 1 .. m : /\ Reports(c, k, r) <=> Reports(a, k, r)
                                  /\ Forgets(c, k, r) <=> Forgets(a, k, r)
                                  /\ Lists(c, k, r) <=> Lists(a, k, r)
             /\ \A k \in 1 .. n : /\ Reports(c, m + k, r) <=> Reports(b, k, r)
                                  /\ Forgets(c, m + k, r) <=> Forgets(b, k, r)
                                  /\ Lists(c, m + k, r) <=> Lists(b, k, r)
  BY <1>2 DEF Reports, Forgets, Lists
<1> HIDE DEF c
<1>5. \A k \in 1 .. Len(c) :
        /\ c[k].kind \notin {"end", "exit"}
        /\ c[k].kind \in {"done", "outcome"} => c[k].receipt \in A \cup B
        /\ c[k].kind = "work" => low \subseteq c[k].live /\ c[k].live \subseteq high
        /\ c[k].status \in Final => final
  <2> SUFFICES ASSUME NEW k \in 1 .. Len(c)
               PROVE  /\ c[k].kind \notin {"end", "exit"}
                      /\ c[k].kind \in {"done", "outcome"} => c[k].receipt \in A \cup B
                      /\ c[k].kind = "work" => low \subseteq c[k].live /\ c[k].live \subseteq high
                      /\ c[k].status \in Final => final
    OBVIOUS
  <2>1. CASE k \in 1 .. m
    BY <1>2, <1>3, <2>1
  <2>2. CASE \E j \in 1 .. n : k = m + j
    <3>1. PICK j \in 1 .. n : k = m + j
      BY <2>2
    <3>2. c[k] = b[j]
      BY <1>2, <3>1
    <3>3. QED BY <1>3, <3>1, <3>2
  <2>3. QED BY <1>2, <2>1, <2>2
<1>6. \A r \in A \cup B : Due(c, r)
  <2> SUFFICES ASSUME NEW r \in A \cup B PROVE Due(c, r)
    OBVIOUS
  <2>1. CASE r \in A
    <3>1. PICK k \in 1 .. m : Reports(a, k, r)
      BY <1>3, <2>1 DEF Due
    <3>2. QED BY <1>2, <1>4, <3>1 DEF Due
  <2>2. CASE r \in B
    <3>1. PICK k \in 1 .. n : Reports(b, k, r)
      BY <1>3, <2>2 DEF Due
    <3>2. m + k \in 1 .. Len(c)
      BY <1>2
    <3>3. Reports(c, m + k, r)
      BY <1>4, <3>1
    <3>4. QED BY <3>2, <3>3 DEF Due
  <2>3. QED BY <2>1, <2>2
<1>7. ASSUME NEW r \in A PROVE Accounts(c, r)
  <2>1. \A k \in 1 .. n : ~Reports(b, k, r) /\ ~Lists(b, k, r)
    BY <1>3 DEF Reports, Lists
  <2>2. \A k \in 1 .. Len(c) : Reports(c, k, r) \/ Lists(c, k, r) => k \in 1 .. m
    BY <1>2, <1>4, <2>1
  <2> SUFFICES ASSUME NEW k \in 1 .. Len(c), Reports(c, k, r)
               PROVE  /\ \A i \in 1 .. Len(c) : Reports(c, i, r) => i = k
                      /\ \E j \in 1 .. Len(c) : /\ j < k /\ Forgets(c, j, r)
                                                /\ \A i \in 1 .. Len(c) : Lists(c, i, r) => i < j
    BY DEF Accounts
  <2>3. k \in 1 .. m /\ Reports(a, k, r)
    BY <1>4, <2>2
  <2>4. /\ \A i \in 1 .. m : Reports(a, i, r) => i = k
        /\ \E j \in 1 .. m : /\ j < k /\ Forgets(a, j, r)
                             /\ \A i \in 1 .. m : Lists(a, i, r) => i < j
    BY <1>3, <2>3 DEF Accounts
  <2>5. PICK j \in 1 .. m : j < k /\ Forgets(a, j, r) /\ \A i \in 1 .. m : Lists(a, i, r) => i < j
    BY <2>4
  <2>6. j \in 1 .. Len(c) /\ Forgets(c, j, r) /\ \A i \in 1 .. Len(c) : Lists(c, i, r) => i < j
    BY <1>2, <1>4, <2>2, <2>5
  <2>7. \A i \in 1 .. Len(c) : Reports(c, i, r) => i = k
    BY <1>4, <2>2, <2>4
  <2>8. QED BY <2>5, <2>6, <2>7
<1>8. ASSUME NEW r \in B PROVE Accounts(c, r)
  <2>1. \A k \in 1 .. m : ~Reports(a, k, r)
    BY <1>3 DEF Reports
  <2>2. \A k \in 1 .. Len(c) : Reports(c, k, r) => \E i \in 1 .. n : k = m + i /\ Reports(b, i, r)
    BY <1>2, <1>4, <2>1
  <2> SUFFICES ASSUME NEW k \in 1 .. Len(c), Reports(c, k, r)
               PROVE  /\ \A i \in 1 .. Len(c) : Reports(c, i, r) => i = k
                      /\ \E j \in 1 .. Len(c) : /\ j < k /\ Forgets(c, j, r)
                                                /\ \A i \in 1 .. Len(c) : Lists(c, i, r) => i < j
    BY DEF Accounts
  <2>3. PICK l \in 1 .. n : k = m + l /\ Reports(b, l, r)
    BY <2>2
  <2>4. /\ \A i \in 1 .. n : Reports(b, i, r) => i = l
        /\ \E j \in 1 .. n : /\ j < l /\ Forgets(b, j, r)
                             /\ \A i \in 1 .. n : Lists(b, i, r) => i < j
    BY <1>3, <2>3 DEF Accounts
  <2>5. PICK j \in 1 .. n : j < l /\ Forgets(b, j, r) /\ \A i \in 1 .. n : Lists(b, i, r) => i < j
    BY <2>4
  <2>6. m + j \in 1 .. Len(c) /\ m + j < k /\ Forgets(c, m + j, r)
    <3>1. m + j \in 1 .. Len(c)
      BY <1>2
    <3>2. Forgets(c, m + j, r)
      BY <1>4, <2>5
    <3>3. m + j < k
      BY <1>2, <2>3, <2>5
    <3>4. QED BY <3>1, <3>2, <3>3
  <2>7. \A i \in 1 .. Len(c) : Lists(c, i, r) => i < m + j
    <3> SUFFICES ASSUME NEW i \in 1 .. Len(c), Lists(c, i, r) PROVE i < m + j
      OBVIOUS
    <3>1. CASE i \in 1 .. m
      BY <1>2, <3>1
    <3>2. CASE \E p \in 1 .. n : i = m + p
      <4>1. PICK p \in 1 .. n : i = m + p
        BY <3>2
      <4>2. Lists(b, p, r)
        BY <1>4, <4>1
      <4>3. QED BY <1>2, <2>5, <4>1, <4>2
    <3>3. QED BY <1>2, <3>1, <3>2
  <2>8. \A i \in 1 .. Len(c) : Reports(c, i, r) => i = k
    BY <2>2, <2>3, <2>4
  <2>9. QED BY <2>6, <2>7, <2>8
<1>9. QED BY <1>2, <1>5, <1>6, <1>7, <1>8 DEF Speaks, c

(* The receipt of X that has k smaller ones in X, and their number. *)
Nth(X, k) == CHOOSE r \in X : Cardinality({q \in X : q < r}) = k

Rank(X, r) == Cardinality({q \in X : q < r})

LEMMA Ranked ==
  ASSUME NEW X \in SUBSET Receipts
  PROVE  /\ Cardinality(X) \in Nat
         /\ \A r \in X : Rank(X, r) \in 0 .. Cardinality(X) - 1 /\ Nth(X, Rank(X, r)) = r
         /\ \A k \in 0 .. Cardinality(X) - 1 : Nth(X, k) \in X /\ Rank(X, Nth(X, k)) = k
<1> DEFINE C == Cardinality(X)
           Below(r) == {q \in X : q < r}
<1>1. IsFiniteSet(X) /\ C \in Nat
  <2>1. IsFiniteSet(1 .. MaxReceipt)
    BY GuardianAssumption, FS_Interval
  <2>2. IsFiniteSet(X)
    BY <2>1, FS_Subset DEF Receipts
  <2>3. QED BY <2>2, FS_CardinalityType
<1>2. \A r \in X : IsFiniteSet(Below(r)) /\ Rank(X, r) \in 0 .. C - 1
  <2> SUFFICES ASSUME NEW r \in X PROVE IsFiniteSet(Below(r)) /\ Rank(X, r) \in 0 .. C - 1
    OBVIOUS
  <2>1. Below(r) \in SUBSET X /\ Below(r) # X
    BY DEF Receipts
  <2>2. /\ IsFiniteSet(Below(r)) /\ Cardinality(Below(r)) <= C
        /\ C = Cardinality(Below(r)) => X = Below(r)
    BY <1>1, <2>1, FS_Subset
  <2>3. Cardinality(Below(r)) \in Nat
    BY <2>2, FS_CardinalityType
  <2>4. Rank(X, r) = Cardinality(Below(r))
    BY DEF Rank
  <2> HIDE DEF Below, C
  <2>5. QED BY <1>1, <2>1, <2>2, <2>3, <2>4
<1>3. \A r, s \in X : r < s => Rank(X, r) # Rank(X, s)
  <2> SUFFICES ASSUME NEW r \in X, NEW s \in X, r < s PROVE Rank(X, r) # Rank(X, s)
    OBVIOUS
  <2>1. Below(r) \in SUBSET Below(s) /\ Below(r) # Below(s)
    <3>1. r \in Nat /\ s \in Nat /\ \A q \in X : q \in Nat
      BY DEF Receipts
    <3>2. \A q \in X : q < r => q < s
      BY <3>1
    <3>3. r \in Below(s) /\ r \notin Below(r)
      BY <3>1
    <3>4. QED BY <3>2, <3>3
  <2>2. Cardinality(Below(s)) = Cardinality(Below(r)) => Below(s) = Below(r)
    BY <1>2, <2>1, FS_Subset
  <2>3. QED BY <2>1, <2>2 DEF Rank
<1>4. \A r, s \in X : Rank(X, r) = Rank(X, s) => r = s
  <2> SUFFICES ASSUME NEW r \in X, NEW s \in X, r # s PROVE Rank(X, r) # Rank(X, s)
    OBVIOUS
  <2>1. r < s \/ s < r
    BY DEF Receipts
  <2>2. QED BY <1>3, <2>1
<1> DEFINE f == [r \in X |-> Rank(X, r)]
           T == 0 .. C - 1
<1>5. f \in Injection(X, T)
  BY <1>2, <1>4 DEF Injection, IsInjective
<1>6. IsFiniteSet(T) /\ Cardinality(T) = C
  <2> HIDE DEF C
  <2>1. 0 \in Int /\ C - 1 \in Int
    BY <1>1
  <2>2. IsFiniteSet(T) /\ Cardinality(T) = IF 0 > C - 1 THEN 0 ELSE C - 1 - 0 + 1
    BY <2>1, FS_Interval
  <2>3. QED BY <1>1, <2>2
<1>7. f \in Surjection(X, T)
  BY <1>5, <1>6, FS_Injection
<1>8. \A k \in T : \E r \in X : Rank(X, r) = k
  BY <1>7 DEF Surjection
<1>9. \A k \in T : Nth(X, k) \in X /\ Rank(X, Nth(X, k)) = k
  BY <1>8 DEF Nth, Rank
<1>10. \A r \in X : Nth(X, Rank(X, r)) = r
  BY <1>2, <1>4, <1>9
<1>11. QED BY <1>1, <1>2, <1>9, <1>10

(* The outcomes of several receipts. *)
LEMMA ReportAllSpeaks ==
  ASSUME NEW X \in SUBSET Receipts, NEW low, NEW high, NEW final
  PROVE  Speaks(ReportAll(X), X, low, high, final) /\ \A Y : Avoids(ReportAll(X), Y)
<1> DEFINE C == Cardinality(X)
           s == ReportAll(X)
<1>1. /\ C \in Nat
      /\ \A r \in X : Rank(X, r) \in 0 .. C - 1 /\ Nth(X, Rank(X, r)) = r
      /\ \A k \in 0 .. C - 1 : Nth(X, k) \in X /\ Rank(X, Nth(X, k)) = k
  BY Ranked
<1>2. s = [n \in 1 .. 2 * C |->
             SayReceipt(IF n % 2 = 1 THEN "done" ELSE "outcome", Nth(X, (n - 1) \div 2))]
  BY DEF ReportAll, Nth
<1> HIDE DEF C, s
<1>3. \A n \in 1 .. 2 * C :
        /\ (n - 1) \div 2 \in 0 .. C - 1
        /\ IF n % 2 = 1 THEN n = 2 * ((n - 1) \div 2) + 1 ELSE n = 2 * ((n - 1) \div 2) + 2
  BY <1>1
<1>4. \A k \in 0 .. C - 1 :
        /\ 2 * k + 1 \in 1 .. 2 * C /\ (2 * k + 1) % 2 = 1 /\ (2 * k + 1 - 1) \div 2 = k
        /\ 2 * k + 2 \in 1 .. 2 * C /\ (2 * k + 2) % 2 # 1 /\ (2 * k + 2 - 1) \div 2 = k
  BY <1>1
<1>5. \A kind \in {"done", "outcome"}, r \in Receipts :
        /\ SayReceipt(kind, r) \in Emission /\ SayReceipt(kind, r).kind = kind
        /\ SayReceipt(kind, r).receipt = r /\ SayReceipt(kind, r).status = "none"
  BY Sayings DEF Saying
<1>6. \A n \in 1 .. 2 * C :
        /\ s[n] \in Emission /\ s[n].receipt = Nth(X, (n - 1) \div 2) /\ s[n].status = "none"
        /\ s[n].kind = IF n % 2 = 1 THEN "done" ELSE "outcome"
  <2> SUFFICES ASSUME NEW n \in 1 .. 2 * C
               PROVE  /\ s[n] \in Emission /\ s[n].receipt = Nth(X, (n - 1) \div 2)
                      /\ s[n].status = "none"
                      /\ s[n].kind = IF n % 2 = 1 THEN "done" ELSE "outcome"
    OBVIOUS
  <2> DEFINE k == (n - 1) \div 2
             kind == IF n % 2 = 1 THEN "done" ELSE "outcome"
  <2>1. k \in 0 .. C - 1
    BY <1>3
  <2>2. Nth(X, k) \in Receipts
    BY <1>1, <2>1
  <2>3. s[n] = SayReceipt(kind, Nth(X, k))
    BY <1>2
  <2>4. kind \in {"done", "outcome"}
    OBVIOUS
  <2> HIDE DEF k, kind
  <2>5. /\ s[n] \in Emission /\ s[n].kind = kind /\ s[n].receipt = Nth(X, k)
        /\ s[n].status = "none"
    BY <1>5, <2>2, <2>3, <2>4
  <2>6. QED BY <2>5 DEF k, kind
<1>7. s \in Seq(Emission) /\ Len(s) = 2 * C
  <2>1. 2 * C \in Nat /\ s = [n \in 1 .. 2 * C |-> s[n]] /\ \A n \in 1 .. 2 * C : s[n] \in Emission
    BY <1>1, <1>2, <1>6
  <2>2. QED BY <2>1
<1>8. \A n \in 1 .. Len(s) :
        /\ s[n].kind \in {"done", "outcome"} /\ s[n].status \notin Final
        /\ s[n].receipt \in X
  BY <1>1, <1>3, <1>6, <1>7 DEF Final
<1>9. ASSUME NEW r \in X PROVE Due(s, r) /\ Accounts(s, r)
  <2> DEFINE k == Rank(X, r)
  <2>1. k \in 0 .. C - 1 /\ Nth(X, k) = r
    BY <1>1
  <2> HIDE DEF k
  <2>2. 2 * k + 1 \in 1 .. Len(s) /\ Forgets(s, 2 * k + 1, r)
    <3> DEFINE p == 2 * k + 1
    <3>1. p \in 1 .. 2 * C /\ p % 2 = 1 /\ (p - 1) \div 2 = k
      BY <1>4, <2>1
    <3> HIDE DEF p
    <3>2. s[p].kind = "done" /\ s[p].receipt = r
      BY <1>6, <2>1, <3>1
    <3>3. QED BY <1>7, <3>1, <3>2 DEF Forgets, p
  <2>3. 2 * k + 2 \in 1 .. Len(s) /\ Reports(s, 2 * k + 2, r)
    <3> DEFINE p == 2 * k + 2
    <3>1. p \in 1 .. 2 * C /\ p % 2 # 1 /\ (p - 1) \div 2 = k
      BY <1>4, <2>1
    <3> HIDE DEF p
    <3>2. s[p].kind = "outcome" /\ s[p].receipt = r
      BY <1>6, <2>1, <3>1
    <3>3. QED BY <1>7, <3>1, <3>2 DEF Reports, p
  <2>4. ASSUME NEW i \in 1 .. Len(s), Reports(s, i, r) PROVE i = 2 * k + 2
    <3>1. i \in 1 .. 2 * C /\ s[i].kind = "outcome" /\ s[i].receipt = r
      BY <1>7, <2>4 DEF Reports
    <3>2. i % 2 # 1 /\ Nth(X, (i - 1) \div 2) = r
      BY <1>6, <3>1
    <3>3. (i - 1) \div 2 \in 0 .. C - 1 /\ i = 2 * ((i - 1) \div 2) + 2
      BY <1>3, <3>1, <3>2
    <3>4. (i - 1) \div 2 = k
      BY <1>1, <3>2, <3>3 DEF k
    <3>5. QED BY <3>3, <3>4
  <2>5. \A i \in 1 .. Len(s) : ~Lists(s, i, r)
    BY <1>8 DEF Lists
  <2>6. 2 * k + 1 < 2 * k + 2
    BY <2>1
  <2>7. Accounts(s, r)
    <3> SUFFICES ASSUME NEW i \in 1 .. Len(s), Reports(s, i, r)
                 PROVE  /\ \A j \in 1 .. Len(s) : Reports(s, j, r) => j = i
                        /\ \E j \in 1 .. Len(s) : /\ j < i /\ Forgets(s, j, r)
                                                  /\ \A l \in 1 .. Len(s) : Lists(s, l, r) => l < j
      BY DEF Accounts
    <3>1. i = 2 * k + 2
      BY <2>4
    <3>2. QED BY <2>2, <2>4, <2>5, <2>6, <3>1
  <2>8. QED BY <2>3, <2>7 DEF Due
<1>10. Speaks(s, X, low, high, final)
  BY <1>7, <1>8, <1>9 DEF Speaks
<1>11. \A Y : Avoids(s, Y)
  BY <1>8 DEF Avoids
<1>12. QED BY <1>10, <1>11 DEF s

(* One outcome. *)
LEMMA ReportSpeaks ==
  ASSUME NEW r \in Receipts, NEW low, NEW high, NEW final
  PROVE  Speaks(Report(r), {r}, low, high, final) /\ \A Y : Avoids(Report(r), Y)
<1> DEFINE d == SayReceipt("done", r)
           o == SayReceipt("outcome", r)
           s == <<d, o>>
<1>1. /\ d \in Emission /\ d.kind = "done" /\ d.receipt = r /\ d.status \notin Final
      /\ o \in Emission /\ o.kind = "outcome" /\ o.receipt = r /\ o.status \notin Final
  BY Sayings DEF Saying, Final
<1> HIDE DEF d, o
<1>2. s \in Seq(Emission) /\ Len(s) = 2 /\ s[1] = d /\ s[2] = o
  BY <1>1
<1> HIDE DEF s
<1>3. \A k \in 1 .. Len(s) : k = 1 \/ k = 2
  BY <1>2
<1>4. 1 \in 1 .. Len(s) /\ 2 \in 1 .. Len(s) /\ 1 < 2
  BY <1>2
<1>5. \A k \in 1 .. Len(s) : /\ ~Lists(s, k, r) /\ s[k].kind # "work"
                             /\ Reports(s, k, r) <=> k = 2
                             /\ Forgets(s, k, r) <=> k = 1
                             /\ s[k].kind \notin {"end", "exit"} /\ s[k].receipt \in {r}
                             /\ s[k].status \notin Final
  BY <1>1, <1>2, <1>3 DEF Lists, Reports, Forgets
<1>6. Due(s, r) /\ Accounts(s, r)
  BY <1>4, <1>5 DEF Due, Accounts
<1>7. Speaks(s, {r}, low, high, final)
  BY <1>2, <1>5, <1>6 DEF Speaks
<1>8. \A Y : Avoids(s, Y)
  BY <1>5 DEF Avoids
<1>9. QED BY <1>7, <1>8 DEF s, d, o, Report

(* Nothing, and a notification. *)
LEMMA NothingSpeaks ==
  ASSUME NEW low, NEW high, NEW final
  PROVE  Speaks(<<>>, {}, low, high, final) /\ \A Y : Avoids(<<>>, Y)
<1>1. Len(<<>>) = 0 /\ <<>> \in Seq(Emission)
  OBVIOUS
<1>2. QED BY <1>1 DEF Speaks, Avoids

LEMMA NotifySpeaks ==
  ASSUME NEW status \in Statuses, NEW live \in SUBSET Receipts, NEW low, NEW high, NEW final,
         low \subseteq live, live \subseteq high, status \in Final => final
  PROVE  Speaks(Notify(status, live), {}, low, high, final)
<1> DEFINE w == SayWork(live)
           n == Say("snapshot", status)
           e == Say("event", status)
           s == <<w, n, e>>
<1>1. /\ w \in Emission /\ w.kind = "work" /\ w.live = live /\ w.status \notin Final
      /\ n \in Emission /\ n.kind = "snapshot" /\ n.status = status
      /\ e \in Emission /\ e.kind = "event" /\ e.status = status
  BY Sayings DEF Saying, Final
<1> HIDE DEF w, n, e
<1>2. s \in Seq(Emission) /\ Len(s) = 3 /\ s[1] = w /\ s[2] = n /\ s[3] = e
  BY <1>1
<1> HIDE DEF s
<1>3. \A k \in 1 .. Len(s) : k = 1 \/ k = 2 \/ k = 3
  BY <1>2
<1>4. \A k \in 1 .. Len(s) :
        /\ s[k].kind \notin {"end", "exit"}
        /\ s[k].kind \in {"done", "outcome"} => s[k].receipt \in {}
        /\ s[k].kind = "work" => low \subseteq s[k].live /\ s[k].live \subseteq high
        /\ s[k].status \in Final => final
  BY <1>1, <1>2, <1>3
<1>5. QED BY <1>2, <1>4 DEF Speaks, s, w, n, e, Notify

LEMMA NotifyAvoids ==
  ASSUME NEW status \in Statuses, NEW live \in SUBSET Receipts, NEW X, live \cap X = {}
  PROVE  Avoids(Notify(status, live), X)
<1> DEFINE w == SayWork(live)
           n == Say("snapshot", status)
           e == Say("event", status)
           s == <<w, n, e>>
<1>1. w.live = live /\ n.kind = "snapshot" /\ e.kind = "event"
  BY Sayings DEF Saying
<1> HIDE DEF w, n, e
<1>2. Len(s) = 3 /\ s[1] = w /\ s[2] = n /\ s[3] = e
  OBVIOUS
<1> HIDE DEF s
<1>3. \A k \in 1 .. Len(s) : k = 1 \/ k = 2 \/ k = 3
  BY <1>2
<1>4. QED BY <1>1, <1>2, <1>3 DEF Avoids, s, w, n, e, Notify

-----------------------------------------------------------------------------
(* What the handlers of the coordinator have in common. *)

(* The receipts a handler gives out. *)
New == {r \in Receipts : worker.receipt < r /\ r <= worker'.receipt}

(* A handler settles the receipts X, which it says in h, and promises p to its caller. *)
Handled(X, h, p) ==
  /\ worker.alive /\ worker.script = <<>> /\ worker.status \notin Final
  /\ worker' \in Worker
  /\ worker'.alive = worker.alive /\ worker'.reply = worker.reply /\ worker'.torn = worker.torn
  /\ UNCHANGED <<guardian, box, host>>
  /\ worker'.status # "none" /\ (worker'.status # "running" => worker'.live = {})
  /\ worker.receipt <= worker'.receipt
  /\ worker'.live \subseteq worker.live \cup New
  /\ X \subseteq worker.live \cup New /\ X \cap worker'.live = {}
  /\ worker.live \ worker'.live \subseteq X
  /\ Speaks(h, X, worker.live \cap worker'.live, worker.live \cup worker'.live,
            worker'.status \in Final)
  /\ p \in 0 .. MaxReceipt /\ (p # 0 => p \in X \cup worker'.live)
  /\ worker'.script = h \o Finally(worker'.status, p, worker'.live)

(* The last two emissions of a handler. *)
LEMMA FinallySays ==
  ASSUME NEW status \in Statuses, NEW p \in 0 .. MaxReceipt, NEW live \in SUBSET Receipts
  PROVE  LET s == Finally(status, p, live)
         IN  /\ s \in Seq(Emission) /\ Len(s) = 2
             /\ s[1].kind = "work" /\ s[1].live = live /\ s[1].status = "none"
             /\ s[2].kind = "end" /\ s[2].receipt = p /\ s[2].status = status
<1> DEFINE w == SayWork(live)
           e == [Say("end", status) EXCEPT !.receipt = p]
           s == <<w, e>>
<1>1. /\ w \in Emission /\ w.kind = "work" /\ w.live = live /\ w.status = "none"
      /\ e \in Emission /\ e.kind = "end" /\ e.receipt = p /\ e.status = status
  BY Sayings
<1>2. s = Finally(status, p, live)
  BY DEF Finally
<1> HIDE DEF w, e
<1>3. s \in Seq(Emission) /\ Len(s) = 2 /\ s[1] = w /\ s[2] = e
  BY <1>1
<1>4. QED BY <1>1, <1>2, <1>3

(* What a handler has to be to be one of these. *)
LEMMA HandlesFits ==
  ASSUME TypeOK, worker.status \notin Final,
         NEW calling \in BOOLEAN, NEW status \in Statuses \ {"none"}, NEW live \in SUBSET Receipts,
         NEW receipt \in 0 .. MaxReceipt, worker.receipt <= receipt,
         NEW h, NEW p \in 0 .. MaxReceipt, NEW X \in SUBSET Receipts,
         Handles(calling, status, live, receipt, h \o Finally(status, p, live)),
         status # "running" => live = {},
         \A r \in live \cup X : r \in worker.live \/ (worker.receipt < r /\ r <= receipt),
         X \cap live = {}, worker.live \ live \subseteq X,
         Speaks(h, X, worker.live \cap live, worker.live \cup live, status \in Final),
         p # 0 => p \in X \cup live
  PROVE  Handled(X, h, p)
<1> DEFINE s == h \o Finally(status, p, live)
<1>1. h \in Seq(Emission)
  BY DEF Speaks
<1>2. s \in Seq(Emission)
  BY <1>1, FinallySays, Places
<1>3. worker \in Worker
  BY DEF TypeOK
<1> HIDE DEF s
<1>4. /\ worker.alive /\ worker.script = <<>>
      /\ worker' = [worker EXCEPT !.status = status, !.live = live, !.receipt = receipt,
                                  !.script = s, !.call = IF calling THEN "taken" ELSE @]
      /\ UNCHANGED <<guardian, box, host>>
  BY DEF Handles, s
<1>5. /\ worker' \in Worker
      /\ worker'.alive = worker.alive /\ worker'.reply = worker.reply /\ worker'.torn = worker.torn
      /\ worker'.status = status /\ worker'.live = live /\ worker'.receipt = receipt
      /\ worker'.script = s
  BY <1>2, <1>3, <1>4 DEF Worker
<1>6. \A r \in live \cup X : r \in worker.live \cup New
  BY <1>5 DEF New
<1>7. /\ worker'.status # "none" /\ (worker'.status # "running" => worker'.live = {})
      /\ worker.receipt <= worker'.receipt
      /\ worker'.live \subseteq worker.live \cup New
      /\ X \subseteq worker.live \cup New /\ X \cap worker'.live = {}
      /\ worker.live \ worker'.live \subseteq X
  BY <1>5, <1>6
<1>8. /\ Speaks(h, X, worker.live \cap worker'.live, worker.live \cup worker'.live,
                worker'.status \in Final)
      /\ p \in 0 .. MaxReceipt /\ (p # 0 => p \in X \cup worker'.live)
      /\ worker'.script = h \o Finally(worker'.status, p, worker'.live)
  BY <1>5 DEF s
<1>9. QED BY <1>4, <1>5, <1>7, <1>8 DEF Handled

(* The state a handler finds. *)
Found ==
  /\ TypeOK /\ worker.live \subseteq 1 .. worker.receipt
  /\ worker.status # "running" => worker.live = {}
  /\ worker.status = "none" => worker.receipt = 0

LEMMA FoundFacts ==
  ASSUME Found
  PROVE  /\ worker.live \in SUBSET Receipts /\ worker.receipt \in 0 .. MaxReceipt
         /\ worker.status \in Statuses /\ MaxReceipt \in Nat
         /\ \A r \in Receipts : r > worker.receipt => r \notin worker.live
BY GuardianAssumption DEF Found, TypeOK, Worker

LEMMA BootFits ==
  ASSUME Found, Boot
  PROVE  \E X, h, p : Handled(X, h, p)
<1>1. PICK status \in {"running", "failed"} :
        Handles(FALSE, status, {}, 0,
                Notify("starting", {}) \o Notify(status, {}) \o Finally(status, 0, {}))
  BY DEF Boot
<1> DEFINE h == Notify("starting", {}) \o Notify(status, {})
<1>2. worker.status = "none" /\ worker.live = {} /\ worker.receipt = 0
  BY DEF Boot, Found
<1>3. /\ status \in Statuses \ {"none"} /\ "starting" \in Statuses \ Final
      /\ {} \in SUBSET Receipts /\ 0 \in 0 .. MaxReceipt /\ worker.status \notin Final
  BY <1>2, GuardianAssumption DEF Statuses, Final
<1>4. Speaks(Notify("starting", {}), {}, {}, {}, status \in Final)
  BY <1>3, NotifySpeaks
<1>5. Speaks(Notify(status, {}), {}, {}, {}, status \in Final)
  BY <1>3, NotifySpeaks
<1>6. Avoids(Notify(status, {}), {})
  BY <1>3, NotifyAvoids
<1>7. Speaks(h, {} \cup {}, {}, {}, status \in Final)
  BY <1>4, <1>5, <1>6, SpeaksOn
<1> HIDE DEF h
<1>8. Speaks(h, {}, worker.live \cap {}, worker.live \cup {}, status \in Final)
  BY <1>2, <1>7
<1>9. Handles(FALSE, status, {}, 0, h \o Finally(status, 0, {}))
  BY <1>1 DEF h
<1>10. TypeOK
  BY DEF Found
<1>11. Handled({}, h, 0)
  <2>1. worker.live \ {} \subseteq {} /\ {} \cap {} = {} /\ worker.receipt <= 0 /\ FALSE \in BOOLEAN
    BY <1>2
  <2>2. \A r \in {} \cup {} : r \in worker.live \/ (worker.receipt < r /\ r <= 0)
    OBVIOUS
  <2>3. QED BY <1>3, <1>8, <1>9, <1>10, <2>1, <2>2, HandlesFits
<1>12. QED BY <1>11

LEMMA AdmitFits ==
  ASSUME Found, Admit
  PROVE  \E X, h, p : Handled(X, h, p)
<1> DEFINE new == worker.receipt + 1
<1>1. worker.status = "running" /\ worker.receipt < MaxReceipt
  BY DEF Admit
<1>2. /\ worker.live \in SUBSET Receipts /\ worker.receipt \in 0 .. MaxReceipt /\ MaxReceipt \in Nat
      /\ "running" \in Statuses \ {"none"} /\ "running" \notin Final /\ TypeOK
  BY FoundFacts DEF Statuses, Final, Found
<1>3. new \in Receipts /\ new \in 0 .. MaxReceipt /\ new \notin worker.live /\ worker.receipt < new
  BY <1>1, <1>2, FoundFacts DEF Receipts
<1>4. PICK superseded \in {{}} \cup {{r} : r \in worker.live} :
        Handles(TRUE, "running", (worker.live \ superseded) \cup {new}, new,
          ReportAll(superseded) \o Notify("running", (worker.live \ superseded) \cup {new})
            \o Finally("running", new, (worker.live \ superseded) \cup {new}))
  BY DEF Admit
<1> DEFINE live == (worker.live \ superseded) \cup {new}
           low  == worker.live \cap live
           high == worker.live \cup live
           h    == ReportAll(superseded) \o Notify("running", live)
<1>5. superseded \in SUBSET Receipts /\ superseded \subseteq worker.live
  BY <1>2, <1>4
<1>6. live \in SUBSET Receipts /\ live \cap superseded = {} /\ worker.live \ live \subseteq superseded
  BY <1>2, <1>3, <1>5
<1>7. \A r \in live \cup superseded : r \in worker.live \/ (worker.receipt < r /\ r <= new)
  BY <1>2, <1>3, <1>5
<1>8. new \in live /\ low \subseteq live /\ live \subseteq high
  OBVIOUS
<1> HIDE DEF live, low, high
<1>9. Speaks(ReportAll(superseded), superseded, low, high, "running" \in Final)
  BY <1>5, ReportAllSpeaks
<1>10. Speaks(Notify("running", live), {}, low, high, "running" \in Final)
  BY <1>2, <1>6, <1>8, NotifySpeaks
<1>11. Avoids(Notify("running", live), superseded)
  BY <1>2, <1>6, NotifyAvoids
<1>12. Speaks(h, superseded \cup {}, low, high, "running" \in Final)
  BY <1>9, <1>10, <1>11, SpeaksOn
<1> HIDE DEF h
<1>13. Speaks(h, superseded, worker.live \cap live, worker.live \cup live, "running" \in Final)
  <2>1. superseded \cup {} = superseded
    OBVIOUS
  <2>2. QED BY <1>12, <2>1 DEF low, high
<1>14. Handles(TRUE, "running", live, new, h \o Finally("running", new, live))
  BY <1>4 DEF h, live
<1>15. worker.status \notin Final /\ worker.receipt <= new
  BY <1>1, <1>2, <1>3
<1>16. superseded \cap live = {} /\ new \in superseded \cup live
  BY <1>6, <1>8
<1> HIDE DEF new
<1>17. Handled(superseded, h, new)
  BY <1>2, <1>3, <1>5, <1>6, <1>7, <1>13, <1>14, <1>15, <1>16, HandlesFits
<1>18. QED BY <1>17

(* A timer cancellation settles itself and the work it owns, and the rest too if the root fails. *)
LEMMA CancelTimerFits ==
  ASSUME Found, CancelTimer
  PROVE  \E X, h, p : Handled(X, h, p)
<1> DEFINE new == worker.receipt + 1
<1>1. worker.status = "running" /\ worker.receipt < MaxReceipt
  BY DEF CancelTimer
<1>2. /\ worker.live \in SUBSET Receipts /\ worker.receipt \in 0 .. MaxReceipt /\ MaxReceipt \in Nat
      /\ "running" \in Statuses \ {"none"} /\ "running" \notin Final /\ TypeOK
      /\ "failed" \in Statuses \ {"none"} /\ "failed" \in Final
  BY FoundFacts DEF Statuses, Final, Found
<1>3. new \in Receipts /\ new \in 0 .. MaxReceipt /\ new \notin worker.live /\ worker.receipt < new
  BY <1>1, <1>2, FoundFacts DEF Receipts
<1>4. PICK owned \in SUBSET worker.live :
        LET left == worker.live \ owned
        IN  \/ \E abandoned \in BOOLEAN :
                 Handles(TRUE, "running", left, new,
                   ReportAll(owned) \o (IF abandoned THEN Notify("running", left) ELSE <<>>)
                     \o Report(new) \o Notify("running", left) \o Finally("running", new, left))
            \/ Handles(TRUE, "failed", {}, new,
                 ReportAll(owned) \o Notify("failed", left) \o Report(new)
                   \o Notify("failed", left) \o ReportAll(left) \o Finally("failed", new, {}))
  BY DEF CancelTimer
<1> DEFINE left == worker.live \ owned
           mine == owned \cup {new}
           all  == worker.live \cup {new}
<1>5. /\ owned \in SUBSET Receipts /\ left \in SUBSET Receipts /\ {} \in SUBSET Receipts
      /\ mine \in SUBSET Receipts /\ all \in SUBSET Receipts
  BY <1>2, <1>3
<1>6. /\ left \cap owned = {} /\ owned \cap {new} = {} /\ left \cap {new} = {} /\ left \cap mine = {}
      /\ mine \cap left = {} /\ worker.live \ left \subseteq mine
      /\ owned \cup {} = owned /\ mine \cup {} = mine /\ mine \cup left = all
      /\ worker.live \cap left = left /\ worker.live \cup left = worker.live
  BY <1>3
<1>7. \A r \in all : r \in worker.live \/ (worker.receipt < r /\ r <= new)
  BY <1>2, <1>3
<1>8. left \cup mine = all /\ new \in mine /\ left \subseteq worker.live /\ mine \subseteq all
  OBVIOUS
<1>9. worker.status \notin Final /\ worker.receipt <= new /\ TRUE \in BOOLEAN
  BY <1>1, <1>2, <1>3
<1> HIDE DEF left, mine, all
<1>10. ASSUME NEW abandoned \in BOOLEAN,
              Handles(TRUE, "running", left, new,
                ReportAll(owned) \o (IF abandoned THEN Notify("running", left) ELSE <<>>)
                  \o Report(new) \o Notify("running", left) \o Finally("running", new, left))
       PROVE  \E X, h, p : Handled(X, h, p)
  <2> DEFINE told  == Notify("running", left)
             said  == IF abandoned THEN told ELSE <<>>
             first == ReportAll(owned) \o said
             then  == first \o Report(new)
             h     == then \o told
  <2>1. Handles(TRUE, "running", left, new, h \o Finally("running", new, left))
    BY <1>10
  <2>2. /\ Speaks(told, {}, left, worker.live, "running" \in Final)
        /\ Avoids(told, owned) /\ Avoids(told, mine)
    <3>1. left \subseteq left
      OBVIOUS
    <3>2. QED BY <1>2, <1>5, <1>6, <1>8, <3>1, NotifySpeaks, NotifyAvoids
  <2> HIDE DEF told
  <2>3. Speaks(said, {}, left, worker.live, "running" \in Final) /\ Avoids(said, owned)
    <3>1. CASE abandoned
      BY <2>2, <3>1
    <3>2. CASE ~abandoned
      BY <3>2, NothingSpeaks
    <3>3. QED BY <3>1, <3>2
  <2> HIDE DEF said
  <2>4. Speaks(ReportAll(owned), owned, left, worker.live, "running" \in Final)
    BY <1>5, ReportAllSpeaks
  <2>5. Speaks(first, owned \cup {}, left, worker.live, "running" \in Final)
    BY <2>3, <2>4, SpeaksOn
  <2>6. Speaks(Report(new), {new}, left, worker.live, "running" \in Final) /\ Avoids(Report(new), owned)
    BY <1>3, ReportSpeaks
  <2> HIDE DEF first
  <2>7. Speaks(then, mine, left, worker.live, "running" \in Final)
    BY <1>6, <2>5, <2>6, SpeaksOn DEF mine
  <2> HIDE DEF then
  <2>8. Speaks(h, mine \cup {}, left, worker.live, "running" \in Final)
    BY <2>2, <2>7, SpeaksOn
  <2> HIDE DEF h
  <2>9. Speaks(h, mine, worker.live \cap left, worker.live \cup left, "running" \in Final)
    BY <1>6, <2>8
  <2>10. \A r \in left \cup mine : r \in worker.live \/ (worker.receipt < r /\ r <= new)
    BY <1>7, <1>8
  <2>11. new \in mine \cup left
    BY <1>8
  <2> HIDE DEF new
  <2>12. Handled(mine, h, new)
    BY <1>2, <1>3, <1>5, <1>6, <1>9, <2>1, <2>9, <2>10, <2>11, HandlesFits
  <2>13. QED BY <2>12
<1>11. ASSUME Handles(TRUE, "failed", {}, new,
                ReportAll(owned) \o Notify("failed", left) \o Report(new)
                  \o Notify("failed", left) \o ReportAll(left) \o Finally("failed", new, {}))
       PROVE  \E X, h, p : Handled(X, h, p)
  <2> DEFINE told  == Notify("failed", left)
             first == ReportAll(owned) \o told
             then  == first \o Report(new)
             last  == then \o told
             h     == last \o ReportAll(left)
  <2>1. Handles(TRUE, "failed", {}, new, h \o Finally("failed", new, {}))
    BY <1>11
  <2>2. /\ Speaks(told, {}, {}, worker.live, "failed" \in Final)
        /\ Avoids(told, owned) /\ Avoids(told, mine)
    <3>1. {} \subseteq left
      OBVIOUS
    <3>2. QED BY <1>2, <1>5, <1>6, <1>8, <3>1, NotifySpeaks, NotifyAvoids
  <2> HIDE DEF told
  <2>3. Speaks(ReportAll(owned), owned, {}, worker.live, "failed" \in Final)
    BY <1>5, ReportAllSpeaks
  <2>4. Speaks(first, owned \cup {}, {}, worker.live, "failed" \in Final)
    <3>1. owned \cap {} = {}
      OBVIOUS
    <3>2. QED BY <2>2, <2>3, <3>1, SpeaksOn
  <2>5. Speaks(Report(new), {new}, {}, worker.live, "failed" \in Final) /\ Avoids(Report(new), owned)
    BY <1>3, ReportSpeaks
  <2> HIDE DEF first
  <2>6. Speaks(then, mine, {}, worker.live, "failed" \in Final)
    BY <1>6, <2>4, <2>5, SpeaksOn DEF mine
  <2> HIDE DEF then
  <2>7. Speaks(last, mine \cup {}, {}, worker.live, "failed" \in Final)
    <3>1. mine \cap {} = {}
      OBVIOUS
    <3>2. QED BY <2>2, <2>6, <3>1, SpeaksOn
  <2> HIDE DEF last
  <2>8. Speaks(ReportAll(left), left, {}, worker.live, "failed" \in Final) /\ Avoids(ReportAll(left), mine)
    BY <1>5, ReportAllSpeaks
  <2>9. Speaks(h, all, {}, worker.live, "failed" \in Final)
    BY <1>6, <2>7, <2>8, SpeaksOn
  <2> HIDE DEF h
  <2>10. /\ all \cap {} = {} /\ worker.live \cap {} = {} /\ worker.live \cup {} = worker.live
         /\ {} \cup all = all /\ all \cup {} = all /\ worker.live \ {} \subseteq all /\ new \in all \cup {}
    BY <1>8 DEF all
  <2>11. Speaks(h, all, worker.live \cap {}, worker.live \cup {}, "failed" \in Final)
    BY <2>9, <2>10
  <2>12. \A r \in {} \cup all : r \in worker.live \/ (worker.receipt < r /\ r <= new)
    BY <1>7, <2>10
  <2> HIDE DEF new
  <2>13. Handled(all, h, new)
    BY <1>2, <1>3, <1>5, <1>9, <2>1, <2>10, <2>11, <2>12, HandlesFits
  <2>14. QED BY <2>13
<1>12. QED BY <1>4, <1>10, <1>11 DEF left

(* Work of the coordinator's own: the list of the last checkpoint is all it says. *)
LEMMA InternalFits ==
  ASSUME Found, NEW calling \in BOOLEAN, Internal(calling)
  PROVE  \E X, h, p : Handled(X, h, p)
<1> DEFINE new  == worker.receipt + 1
           live == worker.live \cup {new}
<1>1. PICK given \in {0, new} :
        Handles(calling, "running", live, new, Finally("running", given, live))
  BY DEF Internal
<1>2. worker.status = "running" /\ worker.receipt < MaxReceipt
  BY DEF Internal
<1>3. /\ worker.live \in SUBSET Receipts /\ worker.receipt \in 0 .. MaxReceipt /\ MaxReceipt \in Nat
      /\ "running" \in Statuses \ {"none"} /\ TypeOK /\ worker.status \notin Final
  BY <1>2, FoundFacts DEF Statuses, Final, Found
<1>4. new \in Receipts /\ new \in 0 .. MaxReceipt /\ worker.receipt <= new /\ worker.receipt < new
  BY <1>2, <1>3, FoundFacts DEF Receipts
<1>5. /\ live \in SUBSET Receipts /\ {} \in SUBSET Receipts /\ {} \cap live = {}
      /\ worker.live \ live \subseteq {} /\ given \in 0 .. MaxReceipt
  BY <1>3, <1>4
<1>6. given # 0 => given \in {} \cup live
  BY <1>1
<1>7. \A r \in live \cup {} : r \in worker.live \/ (worker.receipt < r /\ r <= new)
  BY <1>3, <1>4
<1> DEFINE f == Finally("running", given, live)
<1>8. <<>> \o f = f
  <2>1. f \in Seq(Emission)
    BY <1>3, <1>5, FinallySays
  <2> HIDE DEF f
  <2>2. QED BY <2>1, ConcatEmptySeq
<1>9. Handles(calling, "running", live, new, <<>> \o Finally("running", given, live))
  BY <1>1, <1>8
<1>10. Speaks(<<>>, {}, worker.live \cap live, worker.live \cup live, "running" \in Final)
  BY NothingSpeaks
<1> HIDE DEF new, live
<1>11. Handled({}, <<>>, given)
  BY <1>3, <1>4, <1>5, <1>6, <1>7, <1>9, <1>10, HandlesFits
<1>12. QED BY <1>11

LEMMA ResolveFits ==
  ASSUME Found, NEW calling \in BOOLEAN, Resolve(calling)
  PROVE  \E X, h, p : Handled(X, h, p)
<1>1. PICK active \in {{}} \cup {{r} : r \in worker.live}, announced \in BOOLEAN, follow \in {0, 1} :
      \E dropped \in SUBSET (worker.live \ active) :
        /\ worker.receipt + follow <= MaxReceipt
        /\ active \cup dropped # {}
        /\ ~announced => dropped = {}
        /\ follow = 1 => active # {}
        /\ LET last == worker.receipt + follow
               live == (worker.live \ (active \cup dropped)) \cup (IF follow = 1 THEN {last} ELSE {})
           IN  Handles(calling, "running", live, last,
                       (IF announced THEN Notify("running", worker.live) ELSE <<>>)
                         \o ReportAll(active) \o ReportAll(dropped) \o Finally("running", 0, live))
  BY DEF Resolve
<1>2. PICK dropped \in SUBSET (worker.live \ active) :
        /\ worker.receipt + follow <= MaxReceipt
        /\ LET last == worker.receipt + follow
               live == (worker.live \ (active \cup dropped)) \cup (IF follow = 1 THEN {last} ELSE {})
           IN  Handles(calling, "running", live, last,
                       (IF announced THEN Notify("running", worker.live) ELSE <<>>)
                         \o ReportAll(active) \o ReportAll(dropped) \o Finally("running", 0, live))
  BY <1>1
<1> DEFINE last  == worker.receipt + follow
           gone  == active \cup dropped
           live  == (worker.live \ gone) \cup (IF follow = 1 THEN {last} ELSE {})
           said  == IF announced THEN Notify("running", worker.live) ELSE <<>>
           low   == worker.live \cap live
           high  == worker.live \cup live
           first == said \o ReportAll(active)
           h     == first \o ReportAll(dropped)
<1>3. Handles(calling, "running", live, last, h \o Finally("running", 0, live))
  BY <1>2
<1>4. /\ worker.live \in SUBSET Receipts /\ worker.receipt \in 0 .. MaxReceipt /\ MaxReceipt \in Nat
      /\ "running" \in Statuses \ {"none"} /\ "running" \notin Final /\ TypeOK
      /\ worker.status = "running" /\ 0 \in 0 .. MaxReceipt
  BY FoundFacts DEF Statuses, Final, Found, Resolve
<1>5. last \in 0 .. MaxReceipt /\ worker.receipt <= last
  BY <1>2, <1>4
<1>6. follow = 1 => last \in Receipts /\ last \notin worker.live /\ worker.receipt < last
  BY <1>2, <1>4, FoundFacts DEF Receipts
<1>7. /\ active \in SUBSET Receipts /\ dropped \in SUBSET Receipts /\ gone \in SUBSET Receipts
      /\ active \subseteq worker.live /\ dropped \subseteq worker.live /\ gone \subseteq worker.live
      /\ active \cap dropped = {}
  BY <1>4
<1>8. live \in SUBSET Receipts /\ gone \cap live = {} /\ worker.live \ live \subseteq gone
  BY <1>4, <1>6, <1>7
<1>9. \A q \in live \cup gone : q \in worker.live \/ (worker.receipt < q /\ q <= last)
  BY <1>4, <1>5, <1>6, <1>7
<1>10. low \subseteq worker.live /\ worker.live \subseteq high
  OBVIOUS
<1> HIDE DEF live, last, low, high, h, first
<1>11. Speaks(said, {}, low, high, "running" \in Final)
  <2>1. CASE announced
    <3>1. Speaks(Notify("running", worker.live), {}, low, high, "running" \in Final)
      BY <1>4, <1>10, NotifySpeaks
    <3>2. QED BY <2>1, <3>1
  <2>2. CASE ~announced
    <3>1. Speaks(<<>>, {}, low, high, "running" \in Final)
      BY NothingSpeaks
    <3>2. QED BY <2>2, <3>1
  <2>3. QED BY <2>1, <2>2
<1> HIDE DEF said
<1>12. Speaks(ReportAll(active), active, low, high, "running" \in Final) /\ Avoids(ReportAll(active), {})
  BY <1>7, ReportAllSpeaks
<1>13. Speaks(first, {} \cup active, low, high, "running" \in Final)
  BY <1>11, <1>12, SpeaksOn DEF first
<1>14. /\ Speaks(ReportAll(dropped), dropped, low, high, "running" \in Final)
       /\ Avoids(ReportAll(dropped), {} \cup active)
  BY <1>7, ReportAllSpeaks
<1>15. Speaks(h, ({} \cup active) \cup dropped, low, high, "running" \in Final)
  <2>1. ({} \cup active) \cap dropped = {}
    BY <1>7
  <2>2. QED BY <1>13, <1>14, <2>1, SpeaksOn DEF h
<1>16. Speaks(h, gone, worker.live \cap live, worker.live \cup live, "running" \in Final)
  <2>1. ({} \cup active) \cup dropped = gone
    OBVIOUS
  <2>2. QED BY <1>15, <2>1 DEF low, high
<1>17. worker.status \notin Final
  BY <1>4
<1> HIDE DEF gone
<1>18. Handled(gone, h, 0)
  BY <1>3, <1>4, <1>5, <1>7, <1>8, <1>9, <1>16, <1>17, HandlesFits
<1>19. QED BY <1>18

(* The root fails, or is closed: every receipt is settled. *)
LEMMA FailFits ==
  ASSUME Found, NEW calling \in BOOLEAN, Fail(calling)
  PROVE  \E X, h, p : Handled(X, h, p)
<1> DEFINE X == worker.live
           said == Notify("failed", X)
           all  == ReportAll(X)
           h    == said \o all
<1>1. Handles(calling, "failed", {}, worker.receipt, h \o Finally("failed", 0, {}))
  BY DEF Fail
<1>2. /\ X \in SUBSET Receipts /\ worker.receipt \in 0 .. MaxReceipt /\ MaxReceipt \in Nat
      /\ "failed" \in Statuses \ {"none"} /\ "failed" \in Final /\ TypeOK
      /\ worker.status \notin Final /\ 0 \in 0 .. MaxReceipt
  BY FoundFacts DEF Statuses, Final, Found, Fail
<1>3. /\ {} \subseteq X /\ X \subseteq X /\ X \cap {} = {} /\ X \ {} \subseteq X
      /\ X \cup {} = X /\ {} \cup X = X /\ {} \in SUBSET Receipts
      /\ worker.receipt <= worker.receipt
  BY <1>2
<1>4. Speaks(said, {}, {}, X, "failed" \in Final)
  BY <1>2, <1>3, NotifySpeaks
<1>5. Speaks(all, X, {}, X, "failed" \in Final) /\ Avoids(all, {})
  BY <1>2, ReportAllSpeaks
<1>6. Speaks(h, {} \cup X, {}, X, "failed" \in Final)
  BY <1>3, <1>4, <1>5, SpeaksOn
<1> HIDE DEF h, said, all
<1>7. Speaks(h, X, worker.live \cap {}, worker.live \cup {}, "failed" \in Final)
  BY <1>3, <1>6
<1>8. \A r \in {} \cup X : r \in worker.live \/ (worker.receipt < r /\ r <= worker.receipt)
  OBVIOUS
<1>9. Handled(X, h, 0)
  BY <1>1, <1>2, <1>3, <1>7, <1>8, HandlesFits
<1>10. QED BY <1>9

LEMMA CloseFits ==
  ASSUME Found, NEW status \in {"stopping", "failed"}, Close(status)
  PROVE  \E X, h, p : Handled(X, h, p)
<1> DEFINE X == worker.live
           said == Notify(status, {})
           all  == ReportAll(X)
           h    == all \o said
<1>1. Handles(TRUE, status, {}, worker.receipt, h \o Finally(status, 0, {}))
  BY DEF Close
<1>2. /\ X \in SUBSET Receipts /\ worker.receipt \in 0 .. MaxReceipt /\ MaxReceipt \in Nat
      /\ status \in Statuses \ {"none"} /\ TypeOK
      /\ worker.status \notin Final /\ 0 \in 0 .. MaxReceipt
  BY FoundFacts DEF Statuses, Final, Found, Close
<1>3. /\ {} \subseteq {} /\ {} \subseteq X /\ X \cap {} = {} /\ {} \cap X = {} /\ X \ {} \subseteq X
      /\ X \cup {} = X /\ {} \in SUBSET Receipts
      /\ worker.receipt <= worker.receipt
  BY <1>2
<1>4. Speaks(said, {}, {}, X, status \in Final)
  BY <1>2, <1>3, NotifySpeaks
<1>5. Avoids(said, X)
  BY <1>2, <1>3, NotifyAvoids
<1>6. Speaks(all, X, {}, X, status \in Final)
  BY <1>2, ReportAllSpeaks
<1>7. Speaks(h, X \cup {}, {}, X, status \in Final)
  BY <1>3, <1>4, <1>5, <1>6, SpeaksOn
<1> HIDE DEF h, said, all
<1>8. Speaks(h, X, worker.live \cap {}, worker.live \cup {}, status \in Final)
  BY <1>3, <1>7
<1>9. \A r \in {} \cup X : r \in worker.live \/ (worker.receipt < r /\ r <= worker.receipt)
  OBVIOUS
<1>10. TRUE \in BOOLEAN
  OBVIOUS
<1>11. Handled(X, h, 0)
  BY <1>1, <1>2, <1>3, <1>8, <1>9, <1>10, HandlesFits
<1>12. QED BY <1>11

LEMMA DisposeFits ==
  ASSUME Found, Dispose
  PROVE  \E X, h, p : Handled(X, h, p)
<1> DEFINE h == Notify("disposed", {})
<1>1. Handles(TRUE, "disposed", {}, worker.receipt, h \o Finally("disposed", 0, {}))
  BY DEF Dispose
<1>2. /\ worker.receipt \in 0 .. MaxReceipt /\ MaxReceipt \in Nat
      /\ "disposed" \in Statuses \ {"none"} /\ "disposed" \in Final /\ TypeOK
      /\ worker.status \notin Final /\ 0 \in 0 .. MaxReceipt /\ worker.live = {}
  BY FoundFacts DEF Statuses, Final, Found, Dispose
<1>3. /\ {} \subseteq {} /\ {} \cap {} = {} /\ {} \cup {} = {} /\ {} \in SUBSET Receipts
      /\ worker.live \ {} \subseteq {} /\ worker.receipt <= worker.receipt /\ TRUE \in BOOLEAN
  BY <1>2
<1>4. Speaks(h, {}, {}, {}, "disposed" \in Final)
  BY <1>2, <1>3, NotifySpeaks
<1> HIDE DEF h
<1>5. Speaks(h, {}, worker.live \cap {}, worker.live \cup {}, "disposed" \in Final)
  BY <1>2, <1>3, <1>4
<1>6. \A r \in {} \cup {} : r \in worker.live \/ (worker.receipt < r /\ r <= worker.receipt)
  OBVIOUS
<1>7. Handled({}, h, 0)
  BY <1>1, <1>2, <1>3, <1>5, <1>6, HandlesFits
<1>8. QED BY <1>7

LEMMA RefuseFits ==
  ASSUME Found, Refuse
  PROVE  \E X, h, p : Handled(X, h, p)
<1> DEFINE f == Finally(worker.status, 0, worker.live)
<1>1. Handles(TRUE, worker.status, worker.live, worker.receipt, f)
  BY DEF Refuse
<1>2. /\ worker.live \in SUBSET Receipts /\ worker.receipt \in 0 .. MaxReceipt /\ MaxReceipt \in Nat
      /\ worker.status \in Statuses \ {"none"} /\ TypeOK
      /\ worker.status \notin Final /\ 0 \in 0 .. MaxReceipt
      /\ worker.status # "running" => worker.live = {}
  BY FoundFacts DEF Found, Refuse
<1>3. /\ {} \cap worker.live = {} /\ {} \in SUBSET Receipts /\ worker.live \ worker.live \subseteq {}
      /\ worker.receipt <= worker.receipt /\ TRUE \in BOOLEAN
  BY <1>2
<1>4. <<>> \o f = f
  <2>1. f \in Seq(Emission)
    BY <1>2, FinallySays
  <2> HIDE DEF f
  <2>2. QED BY <2>1, ConcatEmptySeq
<1>5. Handles(TRUE, worker.status, worker.live, worker.receipt, <<>> \o f)
  BY <1>1, <1>4
<1>6. Speaks(<<>>, {}, worker.live \cap worker.live, worker.live \cup worker.live,
             worker.status \in Final)
  BY NothingSpeaks
<1>7. \A r \in worker.live \cup {} : r \in worker.live \/ (worker.receipt < r /\ r <= worker.receipt)
  OBVIOUS
<1>8. Handled({}, <<>>, 0)
  BY <1>2, <1>3, <1>5, <1>6, <1>7, HandlesFits
<1>9. QED BY <1>8

(* Every handler is one of these. *)
LEMMA CoordinatorFits ==
  ASSUME Found, Coordinator
  PROVE  \E X, h, p : Handled(X, h, p)
BY BootFits, AdmitFits, CancelTimerFits, InternalFits, ResolveFits, FailFits, CloseFits, DisposeFits,
   RefuseFits DEF Coordinator

(* The script of a handler. *)
LEMMA HandledScript ==
  ASSUME TypeOK, NEW X, NEW h, NEW p, Handled(X, h, p)
  PROVE  LET s == worker'.script
             n == Len(h)
         IN  /\ s \in Seq(Emission) /\ n \in Nat /\ Len(s) = n + 2
             /\ \A k \in 1 .. n :
                  /\ s[k].kind \notin {"end", "exit"}
                  /\ s[k].kind \in {"done", "outcome"} => s[k].receipt \in X
                  /\ s[k].kind = "work" => /\ worker.live \cap worker'.live \subseteq s[k].live
                                           /\ s[k].live \subseteq worker.live \cup worker'.live
                  /\ s[k].status \in Final => worker'.status \in Final
             /\ s[n + 1].kind = "work" /\ s[n + 1].live = worker'.live /\ s[n + 1].status = "none"
             /\ s[n + 2].kind = "end" /\ s[n + 2].receipt = p /\ s[n + 2].status = worker'.status
             /\ \A r \in X : Due(s, r) /\ Accounts(s, r)
             /\ \A r : Due(s, r) => r \in X
<1> DEFINE s == worker'.script
           n == Len(h)
           live == worker'.live
           f == Finally(worker'.status, p, live)
<1>1. /\ Speaks(h, X, worker.live \cap live, worker.live \cup live, worker'.status \in Final)
      /\ s = h \o f /\ p \in 0 .. MaxReceipt /\ X \cap live = {}
      /\ live \in SUBSET Receipts /\ worker'.status \in Statuses
  BY DEF Handled, Worker
<1>2. /\ f \in Seq(Emission) /\ Len(f) = 2
      /\ f[1].kind = "work" /\ f[1].live = live /\ f[1].status = "none"
      /\ f[2].kind = "end" /\ f[2].receipt = p /\ f[2].status = worker'.status
  BY <1>1, FinallySays
<1>3. h \in Seq(Emission)
  BY <1>1 DEF Speaks
<1> HIDE DEF f
<1>4. /\ s \in Seq(Emission) /\ n \in Nat /\ Len(s) = n + 2
      /\ \A k \in 1 .. n : k \in 1 .. Len(s) /\ s[k] = h[k]
      /\ \A k \in 1 .. 2 : n + k \in 1 .. Len(s) /\ s[n + k] = f[k]
      /\ \A k \in 1 .. Len(s) : k \in 1 .. n \/ \E j \in 1 .. 2 : k = n + j
  <2> DEFINE c == h \o f
  <2>1. /\ c \in Seq(Emission)
        /\ Len(h) \in Nat /\ Len(f) \in Nat /\ Len(c) = Len(h) + Len(f)
        /\ \A k \in 1 .. Len(h) : k \in 1 .. Len(c) /\ c[k] = h[k]
        /\ \A k \in 1 .. Len(f) : Len(h) + k \in 1 .. Len(c) /\ c[Len(h) + k] = f[k]
        /\ \A k \in 1 .. Len(c) : k \in 1 .. Len(h) \/ \E j \in 1 .. Len(f) : k = Len(h) + j
    BY <1>2, <1>3, Places
  <2>2. s = c
    BY <1>1
  <2> HIDE DEF c, s
  <2>3. QED BY <1>2, <2>1, <2>2
<1> HIDE DEF s, n, live
<1>5. s[n + 1] = f[1] /\ s[n + 2] = f[2]
  BY <1>4
<1>6. \A k \in 1 .. Len(s) : k \in 1 .. n \/ k = n + 1 \/ k = n + 2
  BY <1>4
<1>7. \A k \in 1 .. n :
        /\ s[k].kind \notin {"end", "exit"}
        /\ s[k].kind \in {"done", "outcome"} => s[k].receipt \in X
        /\ s[k].kind = "work" => /\ worker.live \cap live \subseteq s[k].live
                                 /\ s[k].live \subseteq worker.live \cup live
        /\ s[k].status \in Final => worker'.status \in Final
  <2>1. \A k \in 1 .. n :
          /\ h[k].kind \notin {"end", "exit"}
          /\ h[k].kind \in {"done", "outcome"} => h[k].receipt \in X
          /\ h[k].kind = "work" => /\ worker.live \cap live \subseteq h[k].live
                                   /\ h[k].live \subseteq worker.live \cup live
          /\ h[k].status \in Final => worker'.status \in Final
    BY <1>1 DEF Speaks, n
  <2>2. QED BY <1>4, <2>1
<1>8. \A r : \A k \in 1 .. Len(s) : Reports(s, k, r) => k \in 1 .. n /\ Reports(h, k, r) /\ r \in X
  <2> SUFFICES ASSUME NEW r, NEW k \in 1 .. Len(s), Reports(s, k, r)
               PROVE  k \in 1 .. n /\ Reports(h, k, r) /\ r \in X
    OBVIOUS
  <2>1. s[k].kind = "outcome" /\ s[k].receipt = r
    BY DEF Reports
  <2>2. k \in 1 .. n
    BY <1>2, <1>5, <1>6, <2>1
  <2>3. QED BY <1>4, <1>7, <2>1, <2>2 DEF Reports
<1>9. \A r : Due(s, r) => r \in X
  BY <1>8 DEF Due
<1>10. ASSUME NEW r \in X PROVE Due(s, r) /\ Accounts(s, r)
  <2>1. Due(h, r) /\ Accounts(h, r)
    BY <1>1 DEF Speaks
  <2>2. Due(s, r)
    <3>1. PICK k \in 1 .. n : Reports(h, k, r)
      BY <2>1 DEF Due, n
    <3>2. k \in 1 .. Len(s) /\ Reports(s, k, r)
      BY <1>4, <3>1 DEF Reports
    <3>3. QED BY <3>2 DEF Due
  <2> SUFFICES ASSUME NEW k \in 1 .. Len(s), Reports(s, k, r)
               PROVE  /\ \A i \in 1 .. Len(s) : Reports(s, i, r) => i = k
                      /\ \E j \in 1 .. Len(s) : /\ j < k /\ Forgets(s, j, r)
                                                /\ \A i \in 1 .. Len(s) : Lists(s, i, r) => i < j
    BY <2>2 DEF Accounts
  <2>3. k \in 1 .. n /\ Reports(h, k, r)
    BY <1>8
  <2>4. /\ \A i \in 1 .. n : Reports(h, i, r) => i = k
        /\ \E j \in 1 .. n : /\ j < k /\ Forgets(h, j, r)
                             /\ \A i \in 1 .. n : Lists(h, i, r) => i < j
    BY <2>1, <2>3 DEF Accounts, n
  <2>5. PICK j \in 1 .. n : j < k /\ Forgets(h, j, r) /\ \A i \in 1 .. n : Lists(h, i, r) => i < j
    BY <2>4
  <2>6. j \in 1 .. Len(s) /\ Forgets(s, j, r)
    BY <1>4, <2>5 DEF Forgets
  <2>7. ASSUME NEW i \in 1 .. Len(s), Lists(s, i, r) PROVE i < j
    <3>1. s[i].kind = "work" /\ r \in s[i].live
      BY <2>7 DEF Lists
    <3>2. i # n + 1 /\ i # n + 2
      BY <1>1, <1>2, <1>5, <3>1
    <3>3. i \in 1 .. n
      BY <1>6, <3>2
    <3>4. Lists(h, i, r)
      BY <1>4, <3>1, <3>3 DEF Lists
    <3>5. QED BY <2>5, <3>3, <3>4
  <2>8. \A i \in 1 .. Len(s) : Reports(s, i, r) => i = k
    BY <1>8, <2>4
  <2>9. QED BY <2>5, <2>6, <2>7, <2>8
<1>11. QED BY <1>2, <1>4, <1>5, <1>7, <1>9, <1>10 DEF s, n, live

(* A handler keeps the invariant. *)
LEMMA HandledKeepsTypeOK ==
  ASSUME TypeOK, NEW X, NEW h, NEW p, Handled(X, h, p)
  PROVE  TypeOK' /\ Phases' = Phases
<1>1. worker' \in Worker /\ worker'.alive = worker.alive /\ UNCHANGED <<guardian, box, host>>
        /\ worker.alive
  BY DEF Handled
<1>2. TypeOK'
  BY <1>1 DEF TypeOK
<1>3. Phases' = Phases
  BY <1>1 DEF Phases, IsTerminal
<1>4. QED BY <1>2, <1>3

LEMMA HandledKeepsEnds ==
  ASSUME TypeOK, Ends, NEW X, NEW h, NEW p, Handled(X, h, p)
  PROVE  Ends'
<1> DEFINE s == worker'.script
           n == Len(h)
<1>1. /\ worker.status \notin Final /\ UNCHANGED <<guardian, box, host>>
      /\ worker'.alive = worker.alive /\ worker'.reply = worker.reply /\ worker'.torn = worker.torn
      /\ worker'.status # "none" /\ (worker'.status # "running" => worker'.live = {})
  BY DEF Handled
<1>2. /\ n \in Nat /\ Len(s) = n + 2
      /\ \A k \in 1 .. n : s[k].status \in Final => worker'.status \in Final
      /\ s[n + 1].status = "none" /\ s[n + 2].status = worker'.status
  BY HandledScript
<1> HIDE DEF n
<1>3. worker'.status \notin Final => NotFinal(s)
  <2> SUFFICES ASSUME worker'.status \notin Final, NEW k \in 1 .. Len(s)
               PROVE  s[k].status \notin Final
    BY DEF NotFinal
  <2>1. k \in 1 .. n \/ k = n + 1 \/ k = n + 2
    BY <1>2
  <2>2. QED BY <1>2, <2>1 DEF Final
<1>4. /\ NotFinal(box) /\ \A e \in worker.reply : e.status \notin Final
      /\ IsTerminal(guardian) =>
           \/ guardian.phase \in {"crashing", "killing", "gone"}
           \/ ~worker.alive /\ (worker.torn \/ \A r \in host.given : Told(r))
  BY <1>1 DEF Ends
<1>5. \A r : Told(r)' <=> Told(r)
  BY <1>1 DEF Told
<1>6. /\ worker'.status # "running" => worker'.live = {}
      /\ worker'.status = "none" => worker'.receipt = 0
  BY <1>1
<1>7. NotFinal(box') /\ \A e \in worker'.reply : e.status \notin Final
  BY <1>1, <1>4
<1>8. IsTerminal(guardian') =>
        \/ guardian'.phase \in {"crashing", "killing", "gone"}
        \/ ~worker'.alive /\ (worker'.torn \/ \A r \in host'.given : Told(r)')
  BY <1>1, <1>4, <1>5
<1>9. QED BY <1>3, <1>6, <1>7, <1>8 DEF Ends

LEMMA HandledKeepsNumbers ==
  ASSUME TypeOK, Numbers, NEW X, NEW h, NEW p, Handled(X, h, p)
  PROVE  Numbers' /\ X \subseteq 1 .. worker'.receipt
<1>1. /\ UNCHANGED <<guardian, box, host>> /\ worker'.reply = worker.reply
      /\ worker.receipt <= worker'.receipt /\ X \subseteq worker.live \cup New
      /\ worker'.live \subseteq worker.live \cup New
      /\ worker'.receipt \in Nat /\ worker.receipt \in Nat
  BY DEF Handled, TypeOK, Worker
<1>2. /\ worker.live \subseteq 1 .. worker.receipt
      /\ host.given \subseteq 1 .. worker.receipt
      /\ \A e \in worker.reply : e.receipt <= worker.receipt /\ e.receipt \in Nat
  BY DEF Numbers, TypeOK, Worker, Emission
<1>3. 1 .. worker.receipt \subseteq 1 .. worker'.receipt /\ New \subseteq 1 .. worker'.receipt
  BY <1>1 DEF New, Receipts
<1>4. X \subseteq 1 .. worker'.receipt /\ worker'.live \subseteq 1 .. worker'.receipt
  BY <1>1, <1>2, <1>3
<1>5. host'.given \subseteq 1 .. worker'.receipt
  BY <1>1, <1>2, <1>3
<1>6. \A r : Due(worker'.script, r) => r <= worker'.receipt
  <2>1. \A r : Due(worker'.script, r) => r \in X
    BY HandledScript
  <2>2. \A r \in X : r <= worker'.receipt
    BY <1>1, <1>4
  <2>3. QED BY <2>1, <2>2
<1>7. \A e \in worker'.reply : e.receipt <= worker'.receipt
  BY <1>1, <1>2
<1>8. QED BY <1>4, <1>5, <1>6, <1>7 DEF Numbers

LEMMA HandledKeepsScripts ==
  ASSUME TypeOK, Numbers, NEW X, NEW h, NEW p, Handled(X, h, p)
  PROVE  Scripts'
<1> DEFINE s == worker'.script
           n == Len(h)
           live == worker'.live
<1>1. /\ s \in Seq(Emission) /\ n \in Nat /\ Len(s) = n + 2
      /\ \A k \in 1 .. n : s[k].kind \notin {"end", "exit"}
      /\ s[n + 1].kind = "work" /\ s[n + 1].live = live
      /\ s[n + 2].kind = "end" /\ s[n + 2].receipt = p
      /\ \A r \in X : Due(s, r)
  BY HandledScript
<1>2. /\ p # 0 => p \in X \cup live
      /\ X \cup live \subseteq 1 .. worker'.receipt
  <2>1. live \subseteq 1 .. worker'.receipt
    BY HandledKeepsNumbers DEF Numbers
  <2>2. X \subseteq 1 .. worker'.receipt
    BY HandledKeepsNumbers
  <2>3. QED BY <2>1, <2>2 DEF Handled
<1>3. worker'.receipt \in Nat
  BY DEF Handled, Worker
<1> HIDE DEF n, live, s
<1>4. \A k \in 1 .. Len(s) : s[k].kind = "end" => k = Len(s)
  <2> SUFFICES ASSUME NEW k \in 1 .. Len(s), s[k].kind = "end" PROVE k = Len(s)
    OBVIOUS
  <2>1. k \in 1 .. n \/ k = n + 1 \/ k = n + 2
    BY <1>1
  <2>2. QED BY <1>1, <2>1
<1>5. Returns(s, live)
  <2>1. s[Len(s)].kind = "end" /\ s[Len(s) - 1].kind = "work" /\ s[Len(s) - 1].live = live
    BY <1>1
  <2>2. QED BY <1>4, <2>1 DEF Returns
<1>6. Len(s) # 1
  BY <1>1
<1>7. ASSUME NEW k \in 1 .. Len(s), s[k].kind = "end", s[k].receipt # 0
      PROVE  /\ s[k].receipt <= worker'.receipt
             /\ Due(s, s[k].receipt) \/ s[k].receipt \in live
  <2>1. k = n + 2
    BY <1>1, <1>4, <1>7
  <2>2. s[k].receipt = p /\ p \in X \cup live
    BY <1>1, <1>2, <1>7, <2>1
  <2>3. p <= worker'.receipt
    BY <1>2, <1>3, <2>2
  <2>4. QED BY <1>1, <2>2, <2>3
<1>8. /\ Returns(worker'.script, worker'.live) /\ Len(worker'.script) # 1
      /\ \A k \in 1 .. Len(worker'.script) :
           worker'.script[k].kind = "end" /\ worker'.script[k].receipt # 0 =>
             LET r == worker'.script[k].receipt
             IN  /\ r <= worker'.receipt
                 /\ Due(worker'.script, r) \/ r \in worker'.live
  BY <1>5, <1>6, <1>7 DEF s, live
<1>9. QED BY <1>8 DEF Scripts

LEMMA HandledKeepsOnce ==
  ASSUME TypeOK, Numbers, Once, NEW X, NEW h, NEW p, Handled(X, h, p)
  PROVE  Once'
<1> DEFINE s == worker'.script
           n == Len(h)
           live == worker'.live
<1>1. /\ UNCHANGED <<guardian, box, host>> /\ worker.alive /\ worker'.alive = worker.alive
      /\ worker.receipt <= worker'.receipt /\ X \subseteq worker.live \cup New
      /\ live \subseteq worker.live \cup New /\ X \cap live = {}
      /\ worker'.receipt \in Nat /\ worker.receipt \in Nat
  BY DEF Handled, TypeOK, Worker
<1>2. /\ s \in Seq(Emission) /\ n \in Nat /\ Len(s) = n + 2
      /\ \A k \in 1 .. n : s[k].kind = "work" => s[k].live \subseteq worker.live \cup live
      /\ s[n + 1].kind = "work" /\ s[n + 1].live = live /\ s[n + 2].kind = "end"
      /\ \A r \in X : Due(s, r) /\ Accounts(s, r)
      /\ \A r : Due(s, r) => r \in X
  BY HandledScript
<1>3. /\ \A r : Told(r)' <=> Told(r)
      /\ \A r : host'.outcomes[r] = host.outcomes[r]
      /\ View' = View /\ (Watching' <=> Watching)
      /\ guardian'.late = guardian.late /\ guardian'.phase = guardian.phase
      /\ guardian'.todo = guardian.todo
  BY <1>1 DEF Told, View, Watching
<1> SUFFICES ASSUME ~guardian.late
             PROVE  /\ \A r \in Receipts : host'.outcomes[r] <= 1
                    /\ worker'.alive => \A r \in Receipts : Told(r)' => r <= worker'.receipt
                    /\ \A r \in Receipts : OnceDue(worker.script, r)'
                    /\ \A r \in Receipts : Due(s, r) => ~Told(r)' /\ r \notin live
                    /\ worker'.alive => \A r \in live : ~Told(r)'
                    /\ Watching' =>
                         \A r \in Receipts : Told(r)' =>
                           r \notin View' /\ \A i \in 1 .. Len(s) : ~Lists(s, i, r)
                    /\ guardian'.phase = "crashing" => \A r \in guardian'.todo : ~Told(r)'
  BY <1>3 DEF Once
<1>4. /\ \A r \in Receipts : host.outcomes[r] <= 1
      /\ \A r \in Receipts : Told(r) => r <= worker.receipt
      /\ \A r \in worker.live : ~Told(r)
      /\ Watching => \A r \in Receipts : Told(r) => r \notin View
      /\ guardian.phase = "crashing" => \A r \in guardian.todo : ~Told(r)
  BY <1>1 DEF Once
<1>5. \A r \in worker.live \cup New : ~Told(r)
  <2>1. \A r \in New : ~Told(r)
    BY <1>1, <1>4 DEF New, Receipts
  <2>2. QED BY <1>4, <2>1
<1> HIDE DEF n, live, s
<1>6. \A k \in 1 .. Len(s) : k \in 1 .. n \/ k = n + 1 \/ k = n + 2
  BY <1>2
<1>7. \A r : \A i \in 1 .. Len(s) : Lists(s, i, r) => r \in worker.live \cup New
  BY <1>1, <1>2, <1>6 DEF Lists
<1>8. ASSUME NEW r \in Receipts PROVE OnceDue(worker.script, r)'
  <2>1. \A k \in 1 .. Len(s) : Reports(s, k, r) =>
          /\ \A i \in 1 .. Len(s) : Reports(s, i, r) => i = k
          /\ \E j \in 1 .. Len(s) : /\ j < k /\ Forgets(s, j, r)
                                    /\ \A i \in 1 .. Len(s) : Lists(s, i, r) => i < j
    <3>1. CASE r \in X
      BY <1>2, <3>1 DEF Accounts
    <3>2. CASE r \notin X
      BY <1>2, <3>2 DEF Due
    <3>3. QED BY <3>1, <3>2
  <2>2. QED BY <2>1 DEF OnceDue, s, Reports, Forgets, Lists
<1>9. \A r \in Receipts : Due(s, r) => ~Told(r)' /\ r \notin live
  BY <1>1, <1>2, <1>3, <1>5
<1>10. \A r \in Receipts : Told(r)' => \A i \in 1 .. Len(s) : ~Lists(s, i, r)
  BY <1>3, <1>5, <1>7
<1>11. \A r \in live : ~Told(r)'
  BY <1>1, <1>3, <1>5
<1>12. \A r \in Receipts : Told(r)' => r <= worker'.receipt
  BY <1>1, <1>3, <1>4 DEF Receipts
<1>13. QED BY <1>3, <1>4, <1>8, <1>9, <1>10, <1>11, <1>12

LEMMA HandledKeepsOwed ==
  ASSUME TypeOK, Numbers, Owed, NEW X, NEW h, NEW p, Handled(X, h, p)
  PROVE  Owed'
<1> DEFINE s == worker'.script
           n == Len(h)
           live == worker'.live
<1>1. /\ UNCHANGED <<guardian, box, host>> /\ worker.script = <<>>
      /\ worker'.reply = worker.reply /\ worker'.torn = worker.torn
      /\ live \subseteq worker.live \cup New /\ X \cap live = {} /\ worker.live \ live \subseteq X
      /\ worker.receipt \in Nat
  BY DEF Handled, TypeOK, Worker
<1>2. /\ n \in Nat /\ Len(s) = n + 2
      /\ \A k \in 1 .. n :
           /\ s[k].kind = "work" => worker.live \cap live \subseteq s[k].live
           /\ s[k].kind = "done" => s[k].receipt \in X
      /\ s[n + 1].kind = "work" /\ s[n + 1].live = live /\ s[n + 2].kind = "end"
      /\ \A r \in X : Due(s, r)
  BY HandledScript
<1>3. /\ \A r : Told(r)' <=> Told(r)
      /\ View' = View /\ (Watching' <=> Watching) /\ Promised' = Promised
  BY <1>1 DEF Told, View, Watching, Promised
<1>4. \A r : ~Due(worker.script, r)
  BY <1>1 DEF Due
<1>5. \A r \in Promised : r \in Nat /\ r <= worker.receipt
  BY <1>1 DEF Numbers, Promised, TypeOK, Worker, Emission
<1> HIDE DEF s, n, live
<1>6. worker.torn \/ \A r \in Promised : Told(r) \/ Due(s, r) \/ r \in live
  <2>1. worker.torn \/ \A r \in Promised : Told(r) \/ r \in worker.live
    BY <1>4 DEF Owed
  <2>2. QED BY <1>1, <1>2, <2>1
<1>7. \A r \in Promised \cap live : r \in worker.live
  BY <1>1, <1>5 DEF New
<1>8. ASSUME NEW r \in Promised \cap live, NEW k \in 1 .. Len(s)
      PROVE  (s[k].kind = "work" => Lists(s, k, r)) /\ ~Forgets(s, k, r)
  <2>1. k \in 1 .. n \/ k = n + 1 \/ k = n + 2
    BY <1>2
  <2>2. r \notin X /\ r \in worker.live \cap live
    BY <1>1, <1>7
  <2>3. CASE k \in 1 .. n
    BY <1>2, <2>2, <2>3 DEF Lists, Forgets
  <2>4. CASE k = n + 1 \/ k = n + 2
    BY <1>2, <2>4 DEF Lists, Forgets
  <2>5. QED BY <2>1, <2>3, <2>4
<1>9. Watching => \A r \in Promised \cap live : r \in View
  BY <1>7 DEF Owed
<1>10. guardian.phase \in {"crashing", "killing"} =>
         worker.torn \/ \A r \in host.given : Told(r) \/ r \in guardian.todo
  BY <1>4 DEF Owed
<1>11. worker'.torn \/ \A r \in Promised' : Told(r)' \/ Due(worker'.script, r) \/ r \in worker'.live
  BY <1>1, <1>3, <1>6 DEF s, live
<1>12. Watching' =>
         \A r \in Promised' \cap worker'.live :
           /\ r \in View'
           /\ \A k \in 1 .. Len(worker'.script) :
                /\ worker'.script[k].kind = "work" => Lists(worker'.script, k, r)
                /\ ~Forgets(worker'.script, k, r)
  BY <1>3, <1>8, <1>9 DEF s, live
<1>13. guardian'.phase \in {"crashing", "killing"} =>
         worker'.torn \/ \A r \in host'.given : Told(r)' \/ Due(worker'.script, r) \/ r \in guardian'.todo
  BY <1>1, <1>3, <1>10
<1>14. QED BY <1>11, <1>12, <1>13 DEF Owed

(* A handler of the coordinator keeps the invariant. *)
LEMMA CoordinatorKeeps ==
  ASSUME IInv, Coordinator
  PROVE  IInv'
<1>1. Found
  BY DEF IInv, Found, Numbers, Ends
<1>2. PICK X, h, p : Handled(X, h, p)
  BY <1>1, CoordinatorFits
<1>3. TypeOK /\ Phases /\ Ends /\ Numbers /\ Scripts /\ Once /\ Owed
  BY DEF IInv
<1>4. TypeOK' /\ Phases'
  BY <1>2, <1>3, HandledKeepsTypeOK
<1>5. Ends'
  BY <1>2, <1>3, HandledKeepsEnds
<1>6. Numbers'
  BY <1>2, <1>3, HandledKeepsNumbers
<1>7. Scripts'
  BY <1>2, <1>3, HandledKeepsScripts
<1>8. Once'
  BY <1>2, <1>3, HandledKeepsOnce
<1>9. Owed'
  BY <1>2, <1>3, HandledKeepsOwed
<1>10. QED BY <1>4, <1>5, <1>6, <1>7, <1>8, <1>9 DEF IInv

-----------------------------------------------------------------------------
(* One emission. *)

LEMMA TailFacts ==
  ASSUME NEW s \in Seq(Emission), s # <<>>
  PROVE  LET t == Tail(s)
             n == Len(t)
         IN  /\ t \in Seq(Emission) /\ n \in Nat /\ Len(s) = n + 1
             /\ Head(s) = s[1] /\ s[1] \in Emission
             /\ \A i \in 1 .. n : i + 1 \in 1 .. Len(s) /\ t[i] = s[i + 1]
             /\ \A i \in 1 .. Len(s) : i = 1 \/ (i - 1 \in 1 .. n /\ t[i - 1] = s[i])
             /\ \A r : \A i \in 1 .. n : /\ Reports(t, i, r) <=> Reports(s, i + 1, r)
                                         /\ Forgets(t, i, r) <=> Forgets(s, i + 1, r)
                                         /\ Lists(t, i, r) <=> Lists(s, i + 1, r)
             /\ \A r : Due(s, r) <=> Reports(s, 1, r) \/ Due(t, r)
<1> DEFINE t == Tail(s)
           n == Len(t)
<1>1. t \in Seq(Emission) /\ n \in Nat /\ Len(s) = n + 1 /\ \A i \in 1 .. n : t[i] = s[i + 1]
  BY HeadTailProperties, LenProperties
<1>2. Head(s) = s[1] /\ s[1] \in Emission
  OBVIOUS
<1> HIDE DEF t, n
<1>3. \A i \in 1 .. n : i + 1 \in 1 .. Len(s) /\ t[i] = s[i + 1]
  BY <1>1
<1>4. \A i \in 1 .. Len(s) : i = 1 \/ (i - 1 \in 1 .. n /\ t[i - 1] = s[i])
  BY <1>1
<1>5. \A r : \A i \in 1 .. n : /\ Reports(t, i, r) <=> Reports(s, i + 1, r)
                               /\ Forgets(t, i, r) <=> Forgets(s, i + 1, r)
                               /\ Lists(t, i, r) <=> Lists(s, i + 1, r)
  BY <1>3 DEF Reports, Forgets, Lists
<1>6. ASSUME NEW r PROVE Due(s, r) <=> Reports(s, 1, r) \/ Due(t, r)
  <2>1. ASSUME Due(s, r) PROVE Reports(s, 1, r) \/ Due(t, r)
    <3>1. PICK k \in 1 .. Len(s) : Reports(s, k, r)
      BY <2>1 DEF Due
    <3>2. CASE k = 1
      BY <3>1, <3>2
    <3>3. CASE k # 1
      <4>1. k - 1 \in 1 .. n /\ t[k - 1] = s[k]
        BY <1>4, <3>3
      <4>2. Reports(t, k - 1, r)
        BY <3>1, <4>1 DEF Reports
      <4>3. QED BY <4>1, <4>2 DEF Due, n
    <3>4. QED BY <3>2, <3>3
  <2>2. ASSUME Reports(s, 1, r) PROVE Due(s, r)
    <3>1. 1 \in 1 .. Len(s)
      BY <1>1
    <3>2. QED BY <2>2, <3>1 DEF Due
  <2>3. ASSUME Due(t, r) PROVE Due(s, r)
    <3>1. PICK k \in 1 .. n : Reports(t, k, r)
      BY <2>3 DEF Due, n
    <3>2. k + 1 \in 1 .. Len(s) /\ Reports(s, k + 1, r)
      BY <1>3, <1>5, <3>1
    <3>3. QED BY <3>2 DEF Due
  <2>4. QED BY <2>1, <2>2, <2>3
<1>7. QED BY <1>1, <1>2, <1>3, <1>4, <1>5, <1>6 DEF t, n

(* The coordinator says the first emission of its script, and the handler goes on. *)
Said ==
  /\ worker.alive /\ worker.script # <<>> /\ worker.script[1].kind \notin {"end", "exit"}
  /\ worker' = [worker EXCEPT !.script = Tail(@)]
  /\ guardian' = guardian
  /\ box' \in {box, Append(box, worker.script[1])}
  /\ host' \in Host /\ host'.given = host.given
  /\ \A r \in Receipts :
       /\ host'.outcomes[r] = IF Reports(worker.script, 1, r) THEN host.outcomes[r] + 1
                              ELSE host.outcomes[r]
       /\ r \in View' => r \in View \/ Lists(worker.script, 1, r)
       /\ Forgets(worker.script, 1, r) => r \notin View'
       /\ r \in View /\ worker.script[1].kind # "work" /\ ~Forgets(worker.script, 1, r) => r \in View'
  /\ worker.script[1].kind = "work" => View' = worker.script[1].live

(* Its script, and what the host and the guardian know of it afterwards. *)
LEMMA SaidFacts ==
  ASSUME TypeOK, Said
  PROVE  /\ worker' \in Worker /\ worker'.script = Tail(worker.script)
         /\ worker'.alive /\ worker'.status = worker.status /\ worker'.live = worker.live
         /\ worker'.receipt = worker.receipt /\ worker'.torn = worker.torn
         /\ worker'.reply = worker.reply
         /\ worker.script \in Seq(Emission)
         /\ \A r \in Receipts : Told(r)' <=> Told(r) \/ Reports(worker.script, 1, r)
         /\ Promised' = Promised /\ (Watching' <=> Watching)
<1>1. worker \in Worker /\ worker.script \in Seq(Emission) /\ worker.script # <<>>
  BY DEF TypeOK, Worker, Said
<1>2. Tail(worker.script) \in Seq(Emission)
  BY <1>1, TailFacts
<1>3. worker' = [worker EXCEPT !.script = Tail(@)] /\ worker.alive /\ host'.given = host.given
        /\ guardian' = guardian
  BY DEF Said
<1>4. /\ worker' \in Worker /\ worker'.script = Tail(worker.script)
      /\ worker'.alive /\ worker'.status = worker.status /\ worker'.live = worker.live
      /\ worker'.receipt = worker.receipt /\ worker'.torn = worker.torn
      /\ worker'.reply = worker.reply
  BY <1>1, <1>2, <1>3 DEF Worker
<1>5. \A r \in Receipts : host.outcomes[r] \in Nat
  BY DEF TypeOK, Host
<1>6. \A r \in Receipts :
        host'.outcomes[r] = IF Reports(worker.script, 1, r) THEN host.outcomes[r] + 1
                            ELSE host.outcomes[r]
  BY DEF Said
<1>7. \A r \in Receipts : Told(r)' <=> Told(r) \/ Reports(worker.script, 1, r)
  BY <1>5, <1>6 DEF Told
<1>8. Promised' = Promised /\ (Watching' <=> Watching)
  BY <1>3, <1>4 DEF Promised, Watching
<1>9. QED BY <1>1, <1>4, <1>7, <1>8

LEMMA SaidKeepsPhases ==
  ASSUME TypeOK, Phases, Ends, Said
  PROVE  TypeOK' /\ Phases' /\ Ends'
<1> DEFINE e == worker.script[1]
<1>1. /\ worker.alive /\ worker.script # <<>> /\ e.kind \notin {"end", "exit"}
      /\ guardian' = guardian /\ box' \in {box, Append(box, e)}
      /\ host' \in Host /\ host'.given = host.given
  BY DEF Said
<1>2. /\ worker' \in Worker /\ worker'.script = Tail(worker.script)
      /\ worker'.alive /\ worker'.status = worker.status /\ worker'.live = worker.live
      /\ worker'.receipt = worker.receipt /\ worker'.torn = worker.torn
      /\ worker'.reply = worker.reply /\ worker.script \in Seq(Emission)
  BY SaidFacts
<1>3. /\ e \in Emission /\ Len(worker.script) = Len(worker'.script) + 1 /\ Len(worker'.script) \in Nat
      /\ \A i \in 1 .. Len(worker'.script) :
           i + 1 \in 1 .. Len(worker.script) /\ worker'.script[i] = worker.script[i + 1]
  BY <1>1, <1>2, TailFacts
<1> HIDE DEF e
<1>4. box \in Seq(Emission) /\ guardian \in Guardian
  BY DEF TypeOK
<1>5. \A k \in 1 .. Len(box') : box'[k] = e \/ \E j \in 1 .. Len(box) : box'[k] = box[j]
  <2>1. CASE box' = box
    BY <2>1
  <2>2. CASE box' = Append(box, e)
    BY <1>3, <1>4, <2>2, AppendProperties
  <2>3. QED BY <1>1, <2>1, <2>2
<1>6. box' \in Seq(Emission)
  BY <1>1, <1>3, <1>4, AppendProperties
<1>7. TypeOK'
  BY <1>1, <1>2, <1>4, <1>6 DEF TypeOK
<1>8. \A k \in 1 .. Len(box') : box'[k].kind = "exit" => ~worker'.alive
  <2>1. \A j \in 1 .. Len(box) : box[j].kind # "exit"
    BY <1>1 DEF Phases
  <2>2. QED BY <1>1, <1>5, <2>1
<1>9. Phases'
  BY <1>1, <1>2, <1>8 DEF Phases, IsTerminal
<1>10. worker.status \notin Final =>
         /\ NotFinal(box) /\ NotFinal(worker.script)
         /\ \A m \in worker.reply : m.status \notin Final
         /\ IsTerminal(guardian) => guardian.phase \in {"crashing", "killing", "gone"}
  BY <1>1 DEF Ends
<1>11. worker.status \notin Final => NotFinal(box') /\ NotFinal(worker'.script)
  <2> SUFFICES ASSUME worker.status \notin Final PROVE NotFinal(box') /\ NotFinal(worker'.script)
    OBVIOUS
  <2>1. e.status \notin Final
    <3>1. 1 \in 1 .. Len(worker.script)
      BY <1>3
    <3>2. QED BY <1>10, <3>1 DEF NotFinal, e
  <2>2. NotFinal(box')
    BY <1>5, <1>10, <2>1 DEF NotFinal
  <2>3. NotFinal(worker'.script)
    BY <1>3, <1>10 DEF NotFinal
  <2>4. QED BY <2>2, <2>3
<1>12. Ends'
  <2>1. /\ worker.status # "running" => worker.live = {}
        /\ worker.status = "none" => worker.receipt = 0
    BY DEF Ends
  <2>2. QED BY <1>1, <1>2, <1>10, <1>11, <2>1 DEF Ends, IsTerminal
<1>13. QED BY <1>7, <1>9, <1>12

LEMMA SaidKeepsScripts ==
  ASSUME TypeOK, Numbers, Scripts, Said
  PROVE  Numbers' /\ Scripts'
<1> DEFINE s == worker.script
           t == Tail(s)
           n == Len(t)
<1>1. /\ s # <<>> /\ s[1].kind # "end" /\ host'.given = host.given
      /\ s[1].kind = "work" => View' = s[1].live
  BY DEF Said
<1>2. /\ worker'.script = t /\ worker'.live = worker.live
      /\ worker'.receipt = worker.receipt /\ worker'.torn = worker.torn
      /\ worker'.reply = worker.reply /\ s \in Seq(Emission)
      /\ \A r \in Receipts : Told(r)' <=> Told(r) \/ Reports(s, 1, r)
      /\ Watching' <=> Watching
  BY SaidFacts
<1>3. /\ n \in Nat /\ Len(s) = n + 1 /\ s[1] \in Emission /\ t \in Seq(Emission)
      /\ \A i \in 1 .. n : i + 1 \in 1 .. Len(s) /\ t[i] = s[i + 1]
      /\ \A r : Due(s, r) <=> Reports(s, 1, r) \/ Due(t, r)
  BY <1>1, <1>2, TailFacts
<1> HIDE DEF s, t, n
<1>4. Numbers'
  <2>1. /\ worker.live \subseteq 1 .. worker.receipt
        /\ \A r \in Receipts : Due(s, r) => r <= worker.receipt
        /\ host.given \subseteq 1 .. worker.receipt
        /\ \A e \in worker.reply : e.receipt <= worker.receipt
    BY DEF Numbers, s
  <2>2. QED BY <1>1, <1>2, <1>3, <2>1 DEF Numbers
<1>5. /\ s[n + 1].kind = "end" /\ \A k \in 1 .. n + 1 : s[k].kind = "end" => k = n + 1
      /\ n + 1 >= 2 => s[n].kind = "work" /\ s[n].live = worker.live
  <2>1. Returns(s, worker.live)
    BY DEF Scripts, s
  <2>2. Len(s) - 1 = n
    BY <1>3
  <2>3. QED BY <1>1, <1>3, <2>1, <2>2 DEF Returns
<1>6. Returns(t, worker.live)
  <2> SUFFICES ASSUME t # <<>>
               PROVE  /\ t[n].kind = "end"
                      /\ \A k \in 1 .. n : t[k].kind = "end" => k = n
                      /\ n >= 2 => t[n - 1].kind = "work" /\ t[n - 1].live = worker.live
    BY DEF Returns, n
  <2>1. n # 0
    BY <1>3, EmptySeq DEF n
  <2>2. t[n].kind = "end"
    BY <1>3, <1>5, <2>1
  <2>3. ASSUME NEW k \in 1 .. n, t[k].kind = "end" PROVE k = n
    <3>1. k + 1 \in 1 .. n + 1 /\ s[k + 1].kind = "end"
      BY <1>3, <2>3
    <3>2. k + 1 = n + 1
      BY <1>5, <3>1
    <3>3. QED BY <1>3, <3>2
  <2>4. n >= 2 => t[n - 1].kind = "work" /\ t[n - 1].live = worker.live
    <3>1. n >= 2 => n - 1 \in 1 .. n /\ n - 1 + 1 = n
      BY <1>3
    <3>2. QED BY <1>3, <1>5, <3>1
  <2>5. QED BY <2>2, <2>3, <2>4
<1>7. n = 1 => View' = worker.live
  BY <1>1, <1>5
<1>8. ASSUME NEW k \in 1 .. n, t[k].kind = "end", NEW r, r = t[k].receipt, r # 0
      PROVE  /\ r <= worker.receipt
             /\ worker.torn \/ Told(r)' \/ Due(t, r) \/ r \in worker.live
  <2>1. k + 1 \in 1 .. Len(s) /\ t[k] = s[k + 1]
    BY <1>3
  <2>2. r \in Receipts
    <3>1. t[k] \in Emission
      BY <1>3 DEF n
    <3>2. QED BY <1>8, <3>1, GuardianAssumption DEF Emission, Receipts
  <2>3. /\ r <= worker.receipt
        /\ worker.torn \/ Told(r) \/ Due(s, r) \/ r \in worker.live
    BY <1>8, <2>1 DEF Scripts, s
  <2>4. QED BY <1>2, <1>3, <2>2, <2>3
<1>9. /\ Returns(worker'.script, worker'.live)
      /\ Len(worker'.script) = 1 /\ Watching' => View' = worker'.live
  BY <1>2, <1>6, <1>7 DEF n
<1>10. Scripts'
  <2>1. \A k \in 1 .. Len(worker'.script), r \in 0 .. MaxReceipt :
          worker'.script[k].kind = "end" /\ r = worker'.script[k].receipt /\ r # 0 =>
            /\ r <= worker'.receipt
            /\ worker'.torn \/ host'.outcomes[r] >= 1 \/ Due(worker'.script, r) \/ r \in worker'.live
    BY <1>2, <1>8 DEF n, Told
  <2>2. \A k \in 1 .. Len(worker'.script) : worker'.script[k].receipt \in 0 .. MaxReceipt
    <3>1. worker'.script \in Seq(Emission)
      BY <1>2, <1>3
    <3>2. \A k \in 1 .. Len(worker'.script) : worker'.script[k] \in Emission
      BY <3>1
    <3>3. QED BY <3>2 DEF Emission
  <2>3. QED BY <1>9, <2>1, <2>2 DEF Scripts, Told
<1>11. QED BY <1>4, <1>10

LEMMA SaidKeepsOnce ==
  ASSUME TypeOK, Phases, Numbers, Once, Said
  PROVE  Once'
<1> DEFINE s == worker.script
           t == Tail(s)
           n == Len(t)
<1>1. /\ s # <<>> /\ worker.alive /\ guardian' = guardian
      /\ \A r \in Receipts :
           /\ host'.outcomes[r] = IF Reports(s, 1, r) THEN host.outcomes[r] + 1 ELSE host.outcomes[r]
           /\ r \in View' => r \in View \/ Lists(s, 1, r)
           /\ Forgets(s, 1, r) => r \notin View'
  BY DEF Said
<1>2. /\ worker'.script = t /\ worker'.live = worker.live
      /\ worker'.receipt = worker.receipt /\ s \in Seq(Emission)
      /\ \A r \in Receipts : Told(r)' <=> Told(r) \/ Reports(s, 1, r)
      /\ Watching' <=> Watching
  BY SaidFacts
<1>3. /\ n \in Nat /\ Len(s) = n + 1
      /\ \A i \in 1 .. n : i + 1 \in 1 .. Len(s)
      /\ \A i \in 1 .. Len(s) : i = 1 \/ i - 1 \in 1 .. n
      /\ \A r : \A i \in 1 .. n : /\ Reports(t, i, r) <=> Reports(s, i + 1, r)
                                  /\ Forgets(t, i, r) <=> Forgets(s, i + 1, r)
                                  /\ Lists(t, i, r) <=> Lists(s, i + 1, r)
      /\ \A r : Due(s, r) <=> Reports(s, 1, r) \/ Due(t, r)
  BY <1>1, <1>2, TailFacts
<1>4. 1 \in 1 .. Len(s)
  BY <1>3
<1> HIDE DEF s, t, n
<1> SUFFICES ASSUME ~guardian.late
             PROVE  /\ \A r \in Receipts : host'.outcomes[r] <= 1
                    /\ worker'.alive => \A r \in Receipts : Told(r)' => r <= worker'.receipt
                    /\ \A r \in Receipts : OnceDue(worker.script, r)'
                    /\ \A r \in Receipts : Due(t, r) => ~Told(r)' /\ r \notin worker.live
                    /\ worker'.alive => \A r \in worker.live : ~Told(r)'
                    /\ Watching' =>
                         \A r \in Receipts : Told(r)' =>
                           r \notin View' /\ \A i \in 1 .. Len(t) : ~Lists(t, i, r)
                    /\ guardian'.phase = "crashing" => \A r \in guardian'.todo : ~Told(r)'
  BY <1>1, <1>2 DEF Once
<1>5. /\ \A r \in Receipts : host.outcomes[r] <= 1 /\ host.outcomes[r] \in Nat
      /\ \A r \in Receipts : Told(r) => r <= worker.receipt
      /\ \A r \in Receipts : OnceDue(s, r)
      /\ \A r \in Receipts : Due(s, r) => ~Told(r) /\ r \notin worker.live
      /\ \A r \in worker.live : ~Told(r)
      /\ Watching =>
           \A r \in Receipts : Told(r) => r \notin View /\ \A i \in 1 .. Len(s) : ~Lists(s, i, r)
  BY <1>1 DEF Once, TypeOK, Host, s
<1>6. \A r \in Receipts :
        \A k \in 1 .. Len(s) : Reports(s, k, r) =>
          /\ \A i \in 1 .. Len(s) : Reports(s, i, r) => i = k
          /\ Watching =>
               \/ r \notin View /\ \A i \in 1 .. Len(s) : ~Lists(s, i, r)
               \/ \E j \in 1 .. Len(s) : /\ j < k /\ Forgets(s, j, r)
                                         /\ \A i \in 1 .. Len(s) : Lists(s, i, r) => i < j
  BY <1>5 DEF OnceDue
<1>7. worker.live \subseteq Receipts
  BY DEF TypeOK, Worker
<1>8. \A r \in Receipts : host'.outcomes[r] <= 1
  <2> SUFFICES ASSUME NEW r \in Receipts PROVE host'.outcomes[r] <= 1
    OBVIOUS
  <2>1. CASE Reports(s, 1, r)
    <3>1. ~Told(r)
      BY <1>3, <1>5, <2>1
    <3>2. host.outcomes[r] = 0
      BY <1>5, <3>1 DEF Told
    <3>3. QED BY <1>1, <2>1, <3>2
  <2>2. CASE ~Reports(s, 1, r)
    BY <1>1, <1>5, <2>2
  <2>3. QED BY <2>1, <2>2
<1>9. \A r \in Receipts : Told(r)' => r <= worker'.receipt
  <2>1. \A r \in Receipts : Due(s, r) => r <= worker.receipt
    BY DEF Numbers, s
  <2>2. QED BY <1>2, <1>3, <1>5, <2>1
<1>10. \A r \in Receipts : Due(t, r) => ~Told(r)' /\ r \notin worker.live
  <2> SUFFICES ASSUME NEW r \in Receipts, Due(t, r) PROVE ~Told(r)' /\ r \notin worker.live
    OBVIOUS
  <2>1. ~Told(r) /\ r \notin worker.live
    BY <1>3, <1>5
  <2>2. PICK k \in 1 .. n : Reports(t, k, r)
    BY DEF Due, n
  <2>3. k + 1 \in 1 .. Len(s) /\ Reports(s, k + 1, r) /\ k + 1 # 1
    BY <1>3, <2>2
  <2>4. ~Reports(s, 1, r)
    BY <1>4, <1>6, <2>3
  <2>5. QED BY <1>2, <2>1, <2>4
<1>11. \A r \in worker.live : ~Told(r)'
  BY <1>2, <1>3, <1>5, <1>7
<1>12. ASSUME Watching', NEW r \in Receipts, Told(r)'
       PROVE  r \notin View' /\ \A i \in 1 .. n : ~Lists(t, i, r)
  <2>1. r \notin View /\ \A i \in 1 .. Len(s) : ~Lists(s, i, r)
    <3>1. CASE Told(r)
      BY <1>2, <1>5, <1>12, <3>1
    <3>2. CASE Reports(s, 1, r)
      <4>1. ~ \E j \in 1 .. Len(s) : j < 1
        BY <1>3
      <4>2. QED BY <1>2, <1>4, <1>6, <1>12, <3>2, <4>1
    <3>3. QED BY <1>2, <1>12, <3>1, <3>2
  <2>2. QED BY <1>1, <1>3, <1>4, <2>1
<1>13. ASSUME NEW r \in Receipts PROVE OnceDue(worker.script, r)'
  <2>1. ASSUME NEW k \in 1 .. n, Reports(t, k, r)
        PROVE  /\ \A i \in 1 .. n : Reports(t, i, r) => i = k
               /\ Watching' =>
                    \/ r \notin View' /\ \A i \in 1 .. n : ~Lists(t, i, r)
                    \/ \E j \in 1 .. n : /\ j < k /\ Forgets(t, j, r)
                                         /\ \A i \in 1 .. n : Lists(t, i, r) => i < j
    <3>1. k + 1 \in 1 .. Len(s) /\ Reports(s, k + 1, r)
      BY <1>3, <2>1
    <3>2. ASSUME NEW i \in 1 .. n, Reports(t, i, r) PROVE i = k
      <4>1. i + 1 = k + 1
        BY <1>3, <1>6, <3>1, <3>2
      <4>2. QED BY <1>3, <4>1
    <3>3. ASSUME Watching', r \notin View, \A i \in 1 .. Len(s) : ~Lists(s, i, r)
          PROVE  r \notin View' /\ \A i \in 1 .. n : ~Lists(t, i, r)
      BY <1>1, <1>3, <1>4, <3>3
    <3>4. ASSUME Watching', NEW j \in 1 .. Len(s), j < k + 1, Forgets(s, j, r),
                 \A i \in 1 .. Len(s) : Lists(s, i, r) => i < j
          PROVE  \/ r \notin View' /\ \A i \in 1 .. n : ~Lists(t, i, r)
                 \/ \E l \in 1 .. n : /\ l < k /\ Forgets(t, l, r)
                                      /\ \A i \in 1 .. n : Lists(t, i, r) => i < l
      <4>1. CASE j = 1
        <5>1. \A i \in 1 .. n : ~Lists(t, i, r)
          <6> SUFFICES ASSUME NEW i \in 1 .. n, Lists(t, i, r) PROVE FALSE
            OBVIOUS
          <6>1. i + 1 < j
            BY <1>3, <3>4
          <6>2. QED BY <1>3, <4>1, <6>1
        <5>2. r \notin View'
          BY <1>1, <3>4, <4>1
        <5>3. QED BY <5>1, <5>2
      <4>2. CASE j # 1
        <5>1. j - 1 \in 1 .. n /\ j - 1 < k /\ j - 1 + 1 = j
          BY <1>3, <3>4, <4>2
        <5>2. Forgets(t, j - 1, r)
          BY <1>3, <3>4, <5>1
        <5>3. ASSUME NEW i \in 1 .. n, Lists(t, i, r) PROVE i < j - 1
          <6>1. i + 1 < j
            BY <1>3, <3>4, <5>3
          <6>2. QED BY <1>3, <6>1
        <5>4. QED BY <5>1, <5>2, <5>3
      <4>3. QED BY <4>1, <4>2
    <3>5. Watching' =>
            \/ r \notin View /\ \A i \in 1 .. Len(s) : ~Lists(s, i, r)
            \/ \E j \in 1 .. Len(s) : /\ j < k + 1 /\ Forgets(s, j, r)
                                      /\ \A i \in 1 .. Len(s) : Lists(s, i, r) => i < j
      BY <1>2, <1>6, <3>1
    <3>6. QED BY <3>2, <3>3, <3>4, <3>5
  <2>2. QED BY <1>2, <2>1 DEF OnceDue, n, Reports, Forgets, Lists
<1>14. guardian'.phase # "crashing"
  BY <1>1 DEF Phases
<1>15. QED BY <1>8, <1>9, <1>10, <1>11, <1>12, <1>13, <1>14 DEF n

LEMMA SaidKeepsOwed ==
  ASSUME TypeOK, Numbers, Owed, Said
  PROVE  Owed'
<1> DEFINE s == worker.script
           t == Tail(s)
           n == Len(t)
<1>1. /\ s # <<>> /\ guardian' = guardian /\ host'.given = host.given
      /\ \A r \in Receipts :
           r \in View /\ s[1].kind # "work" /\ ~Forgets(s, 1, r) => r \in View'
      /\ s[1].kind = "work" => View' = s[1].live
  BY DEF Said
<1>2. /\ worker'.script = t /\ worker'.live = worker.live
      /\ worker'.torn = worker.torn /\ s \in Seq(Emission)
      /\ \A r \in Receipts : Told(r)' <=> Told(r) \/ Reports(s, 1, r)
      /\ Promised' = Promised /\ (Watching' <=> Watching)
  BY SaidFacts
<1>3. /\ n \in Nat /\ Len(s) = n + 1
      /\ \A i \in 1 .. n : i + 1 \in 1 .. Len(s) /\ t[i] = s[i + 1]
      /\ \A r : \A i \in 1 .. n : /\ Forgets(t, i, r) <=> Forgets(s, i + 1, r)
                                  /\ Lists(t, i, r) <=> Lists(s, i + 1, r)
      /\ \A r : Due(s, r) <=> Reports(s, 1, r) \/ Due(t, r)
  BY <1>1, <1>2, TailFacts
<1>4. 1 \in 1 .. Len(s)
  BY <1>3
<1>5. worker.live \subseteq Receipts /\ Promised \subseteq Receipts
  BY GuardianAssumption DEF TypeOK, Worker, Host, Promised, Emission, Receipts
<1> HIDE DEF s, t, n
<1>6. /\ worker.torn \/ \A r \in Promised : Told(r) \/ Due(s, r) \/ r \in worker.live
      /\ Watching =>
           \A r \in Promised \cap worker.live :
             /\ r \in View
             /\ \A k \in 1 .. Len(s) :
                  /\ s[k].kind = "work" => Lists(s, k, r)
                  /\ ~Forgets(s, k, r)
      /\ guardian.phase \in {"crashing", "killing"} =>
           worker.torn \/ \A r \in host.given : Told(r) \/ Due(s, r) \/ r \in guardian.todo
  BY DEF Owed, s
<1>7. worker.torn \/ \A r \in Promised : Told(r)' \/ Due(t, r) \/ r \in worker.live
  BY <1>2, <1>3, <1>5, <1>6
<1>8. guardian.phase \in {"crashing", "killing"} =>
        worker.torn \/ \A r \in host.given : Told(r)' \/ Due(t, r) \/ r \in guardian.todo
  <2>1. host.given \subseteq Receipts
    BY <1>5 DEF Promised
  <2>2. QED BY <1>2, <1>3, <1>6, <2>1
<1>9. ASSUME Watching, NEW r \in Promised \cap worker.live
      PROVE  /\ r \in View'
             /\ \A k \in 1 .. n : /\ t[k].kind = "work" => Lists(t, k, r)
                                  /\ ~Forgets(t, k, r)
  <2>1. /\ r \in View
        /\ \A k \in 1 .. Len(s) :
             /\ s[k].kind = "work" => Lists(s, k, r)
             /\ ~Forgets(s, k, r)
    BY <1>6, <1>9
  <2>2. CASE s[1].kind = "work"
    <3>1. Lists(s, 1, r)
      BY <1>4, <2>1, <2>2
    <3>2. r \in View'
      BY <1>1, <2>2, <3>1 DEF Lists
    <3>3. QED BY <1>3, <2>1, <3>2
  <2>3. CASE s[1].kind # "work"
    <3>1. r \in View'
      BY <1>1, <1>4, <1>5, <2>1, <2>3
    <3>2. QED BY <1>3, <2>1, <3>1
  <2>4. QED BY <2>2, <2>3
<1>10. QED BY <1>1, <1>2, <1>7, <1>8, <1>9 DEF Owed, n

LEMMA SaidKeeps ==
  ASSUME IInv, Said
  PROVE  IInv'
BY SaidKeepsPhases, SaidKeepsScripts, SaidKeepsOnce, SaidKeepsOwed DEF IInv

(* The handler goes on, or this is its end. *)
Returned ==
  /\ worker.alive /\ worker.script # <<>>
  /\ LET e == worker.script[1]
     IN  /\ e.kind = "end"
         /\ worker' = [IF e.status \in Final THEN Exited
                       ELSE [worker EXCEPT !.script = Tail(@)] EXCEPT
                         !.reply = IF worker.call = "taken" THEN {[e EXCEPT !.live = {}]} ELSE @,
                         !.call  = IF worker.call = "taken" THEN "none" ELSE @]
         /\ box' = IF e.status \in Final THEN Append(box, Say("exit", "none")) ELSE box
  /\ UNCHANGED <<guardian, host>>

LEMMA EmitSays ==
  ASSUME TypeOK, Emit
  PROVE  Said \/ Returned
<1> DEFINE e == worker.script[1]
<1>1. worker.alive /\ worker.script # <<>> /\ worker.script \in Seq(Emission) /\ Head(worker.script) = e
  BY DEF TypeOK, Worker, Emit
<1>2. e \in Emission
  BY <1>1, TailFacts
<1>3. /\ guardian.work \in SUBSET Receipts /\ box \in Seq(Emission)
      /\ \A r \in Receipts : host.outcomes[r] \in Nat
  BY DEF TypeOK, Guardian, Host
<1> HIDE DEF e
<1>4. CASE /\ e.kind \in {"work", "done", "snapshot"}
           /\ worker' = [worker EXCEPT !.script = Tail(@)]
           /\ box' = Append(box, e)
           /\ UNCHANGED <<guardian, host>>
  <2>1. \A r : ~Reports(worker.script, 1, r)
    BY <1>4 DEF Reports, e
  <2>2. View' = IF e.kind = "work" THEN e.live ELSE {r \in View : Silent(e, r)}
    <3>1. Listed(guardian.work, Append(box, e)) =
            IF e.kind = "work" THEN e.live ELSE {r \in Listed(guardian.work, box) : Silent(e, r)}
      BY <1>2, <1>3, ListedAppend
    <3>2. QED BY <1>4, <3>1 DEF View
  <2>3. \A r : /\ Lists(worker.script, 1, r) <=> e.kind = "work" /\ r \in e.live
               /\ Forgets(worker.script, 1, r) <=> e.kind = "done" /\ e.receipt = r
    BY DEF Lists, Forgets, e
  <2>4. ASSUME NEW r \in Receipts
        PROVE  /\ host'.outcomes[r] = host.outcomes[r]
               /\ r \in View' => r \in View \/ Lists(worker.script, 1, r)
               /\ Forgets(worker.script, 1, r) => r \notin View'
               /\ r \in View /\ e.kind # "work" /\ ~Forgets(worker.script, 1, r) => r \in View'
    <3>1. CASE e.kind = "work"
      BY <1>4, <2>2, <2>3, <3>1
    <3>2. CASE e.kind # "work"
      <4>1. r \in View' <=> r \in View /\ Silent(e, r)
        BY <2>2, <3>2
      <4>2. Silent(e, r) <=> ~Forgets(worker.script, 1, r)
        BY <2>3, <3>2 DEF Silent
      <4>3. QED BY <1>4, <3>2, <4>1, <4>2
    <3>3. QED BY <3>1, <3>2
  <2>5. host' \in Host /\ host'.given = host.given
    BY <1>4 DEF TypeOK
  <2>6. e.kind = "work" => View' = e.live
    BY <2>2
  <2>7. QED BY <1>1, <1>4, <2>1, <2>4, <2>5, <2>6 DEF Said, e
<1>5. CASE /\ e.kind = "outcome"
           /\ worker' = [worker EXCEPT !.script = Tail(@)]
           /\ host' = [host EXCEPT !.outcomes[e.receipt] = @ + 1]
           /\ UNCHANGED <<guardian, box>>
  <2>1. View' = View
    BY <1>5 DEF View
  <2>2. \A r : /\ ~Lists(worker.script, 1, r) /\ ~Forgets(worker.script, 1, r)
               /\ Reports(worker.script, 1, r) <=> r = e.receipt
    BY <1>5 DEF Lists, Forgets, Reports, e
  <2>3. host \in Host
    BY DEF TypeOK
  <2>4. host' \in Host /\ host'.given = host.given
    <3> DEFINE o == [host.outcomes EXCEPT ![e.receipt] = @ + 1]
    <3>1. o \in [Receipts -> Nat]
      <4>1. host.outcomes \in [Receipts -> Nat]
        BY <2>3 DEF Host
      <4>2. CASE e.receipt \in Receipts
        BY <4>1, <4>2
      <4>3. CASE e.receipt \notin Receipts
        <5>1. o = host.outcomes
          BY <4>1, <4>3
        <5>2. QED BY <4>1, <5>1
      <4>4. QED BY <4>2, <4>3
    <3>2. host' = [host EXCEPT !.outcomes = o]
      BY <1>5
    <3> HIDE DEF o
    <3>3. QED BY <2>3, <3>1, <3>2 DEF Host
  <2>5. \A r \in Receipts :
          host'.outcomes[r] = IF r = e.receipt THEN host.outcomes[r] + 1 ELSE host.outcomes[r]
    BY <1>5, <2>3 DEF Host
  <2>6. QED BY <1>1, <1>5, <2>1, <2>2, <2>4, <2>5 DEF Said, e
<1>6. CASE /\ e.kind = "event"
           /\ worker' = [worker EXCEPT !.script = Tail(@)]
           /\ host' = [host EXCEPT !.told = @ \cup {e.status}]
           /\ UNCHANGED <<guardian, box>>
  <2>1. View' = View
    BY <1>6 DEF View
  <2>2. \A r : /\ ~Lists(worker.script, 1, r) /\ ~Forgets(worker.script, 1, r)
               /\ ~Reports(worker.script, 1, r)
    BY <1>6 DEF Lists, Forgets, Reports, e
  <2>3. host \in Host /\ e.status \in Statuses
    BY <1>2 DEF TypeOK, Emission
  <2>4. host' \in Host /\ host'.given = host.given /\ host'.outcomes = host.outcomes
    BY <1>6, <2>3 DEF Host
  <2>5. QED BY <1>1, <1>6, <2>1, <2>2, <2>4 DEF Said, e
<1>7. CASE /\ e.kind = "end"
           /\ worker' = [IF e.status \in Final THEN Exited
                         ELSE [worker EXCEPT !.script = Tail(@)] EXCEPT
                            !.reply = IF worker.call = "taken" THEN {[e EXCEPT !.live = {}]} ELSE @,
                            !.call  = IF worker.call = "taken" THEN "none" ELSE @]
           /\ box' = IF e.status \in Final THEN Append(box, Say("exit", "none")) ELSE box
           /\ UNCHANGED <<guardian, host>>
  BY <1>1, <1>7 DEF Returned, e
<1>8. QED BY <1>1, <1>4, <1>5, <1>6, <1>7 DEF Emit

(* What is left of the coordinator when it exits. *)
LEMMA ExitedFacts ==
  ASSUME worker \in Worker
  PROVE  /\ Exited \in Worker /\ ~Exited.alive /\ Exited.script = <<>>
         /\ Exited.status = worker.status /\ Exited.live = worker.live
         /\ Exited.receipt = worker.receipt /\ Exited.reply = worker.reply
         /\ Exited.call = worker.call
         /\ ~Exited.torn => ~worker.torn /\ \A r : ~Due(worker.script, r)
         /\ (~\E k \in 1 .. Len(worker.script) : worker.script[k].kind = "outcome")
              => Exited.torn = worker.torn
<1> DEFINE cut == \E k \in DOMAIN worker.script : worker.script[k].kind = "outcome"
<1>1. worker.script \in Seq(Emission) /\ worker.torn \in BOOLEAN
  BY DEF Worker
<1>2. DOMAIN worker.script = 1 .. Len(worker.script)
  BY <1>1, LenProperties
<1>3. ~cut => \A r : ~Due(worker.script, r)
  BY <1>2 DEF Due, Reports
<1>4. cut <=> \E k \in 1 .. Len(worker.script) : worker.script[k].kind = "outcome"
  BY <1>2
<1>5. Exited = [worker EXCEPT !.alive = FALSE, !.script = <<>>, !.torn = @ \/ cut]
  BY DEF Exited
<1>6. <<>> \in Seq(Emission) /\ (worker.torn \/ cut) \in BOOLEAN
  OBVIOUS
<1> HIDE DEF cut
<1>7. /\ Exited \in Worker /\ ~Exited.alive /\ Exited.script = <<>>
      /\ Exited.status = worker.status /\ Exited.live = worker.live
      /\ Exited.receipt = worker.receipt /\ Exited.reply = worker.reply
      /\ Exited.call = worker.call /\ Exited.torn = (worker.torn \/ cut)
  BY <1>5, <1>6 DEF Worker
<1>8. QED BY <1>1, <1>3, <1>4, <1>7

(* An exit in the mailbox changes no list and brings no terminal status. *)
LEMMA ExitIsQuiet ==
  ASSUME TypeOK
  PROVE  LET b == Append(box, Say("exit", "none"))
         IN  /\ b \in Seq(Emission)
             /\ Listed(guardian.work, b) = View
             /\ NotFinal(box) => NotFinal(b)
<1> DEFINE x == Say("exit", "none")
<1>1. x \in Emission /\ x.kind = "exit" /\ x.status \notin Final
  BY Sayings DEF Saying, Statuses, Final
<1>2. guardian.work \in SUBSET Receipts /\ box \in Seq(Emission)
  BY DEF TypeOK, Guardian
<1> HIDE DEF x
<1>3. Listed(guardian.work, Append(box, x)) = {r \in View : Silent(x, r)}
  BY <1>1, <1>2, ListedAppend DEF View
<1>4. \A r : Silent(x, r)
  BY <1>1 DEF Silent
<1>5. /\ Append(box, x) \in Seq(Emission) /\ Len(box) \in Nat
      /\ Len(Append(box, x)) = Len(box) + 1
      /\ Append(box, x)[Len(box) + 1] = x
      /\ \A i \in 1 .. Len(box) : Append(box, x)[i] = box[i]
  BY <1>1, <1>2, AppendProperties, LenProperties
<1>6. NotFinal(box) => NotFinal(Append(box, x))
  <2> SUFFICES ASSUME NotFinal(box), NEW k \in 1 .. Len(Append(box, x))
               PROVE  Append(box, x)[k].status \notin Final
    BY DEF NotFinal
  <2>1. k \in 1 .. Len(box) \/ k = Len(box) + 1
    BY <1>5
  <2>2. QED BY <1>1, <1>5, <2>1 DEF NotFinal
<1>7. QED BY <1>3, <1>4, <1>5, <1>6 DEF x

LEMMA ReturnedKeeps ==
  ASSUME IInv, Returned
  PROVE  IInv'
<1> DEFINE s == worker.script
           e == s[1]
<1>1. /\ TypeOK /\ worker \in Worker /\ worker.alive /\ s # <<>> /\ e.kind = "end"
      /\ s \in Seq(Emission) /\ UNCHANGED <<guardian, host>>
      /\ box' = IF e.status \in Final THEN Append(box, Say("exit", "none")) ELSE box
  BY DEF IInv, TypeOK, Worker, Returned
<1>2. Len(s) = 1 /\ Tail(s) = <<>> /\ e \in Emission
  <2>1. Len(s) \in Nat /\ Len(s) # 0 /\ e \in Emission /\ Len(s) = Len(Tail(s)) + 1
          /\ Tail(s) \in Seq(Emission)
    BY <1>1, TailFacts
  <2>2. 1 \in 1 .. Len(s)
    BY <2>1
  <2>3. Len(s) = 1
    BY <1>1, <2>2 DEF IInv, Scripts, Returns
  <2>4. Tail(s) = <<>>
    <3> DEFINE t == Tail(s)
    <3>1. t \in Seq(Emission) /\ Len(t) = 0
      <4>1. Len(t) \in Nat
        BY <2>1, LenProperties
      <4>2. QED BY <2>1, <2>3, <4>1
    <3> HIDE DEF t
    <3>2. t = <<>>
      BY <3>1, EmptySeq
    <3>3. QED BY <3>2 DEF t
  <2>5. QED BY <2>1, <2>3, <2>4
<1>3. \A r : ~Due(s, r)
  BY <1>1, <1>2 DEF Due, Reports
<1>4. /\ Exited \in Worker /\ ~Exited.alive /\ Exited.script = <<>>
      /\ Exited.status = worker.status /\ Exited.live = worker.live
      /\ Exited.receipt = worker.receipt /\ Exited.reply = worker.reply
      /\ Exited.torn = worker.torn /\ Exited.call = worker.call
  <2>1. ~\E k \in 1 .. Len(worker.script) : worker.script[k].kind = "outcome"
    BY <1>1, <1>2
  <2>2. QED BY <1>1, <2>1, ExitedFacts
<1> DEFINE w == IF e.status \in Final THEN Exited ELSE [worker EXCEPT !.script = <<>>]
           reply == IF worker.call = "taken" THEN {[e EXCEPT !.live = {}]} ELSE worker.reply
<1>5. /\ w \in Worker /\ w.script = <<>> /\ (w.alive <=> e.status \notin Final)
      /\ w.status = worker.status /\ w.live = worker.live
      /\ w.receipt = worker.receipt /\ w.reply = worker.reply
      /\ w.torn = worker.torn /\ w.call = worker.call
  <2>1. <<>> \in Seq(Emission)
    OBVIOUS
  <2> HIDE DEF s, e
  <2>2. CASE e.status \in Final
    BY <1>4, <2>2
  <2>3. CASE e.status \notin Final
    BY <1>1, <2>1, <2>3 DEF Worker
  <2>4. QED BY <2>2, <2>3
<1>6. /\ reply \in SUBSET Emission
      /\ \A m \in reply : m \in worker.reply \/ (m.receipt = e.receipt /\ m.status = e.status)
  <2> HIDE DEF s, e
  <2>1. [e EXCEPT !.live = {}] \in Emission /\ [e EXCEPT !.live = {}].receipt = e.receipt
          /\ [e EXCEPT !.live = {}].status = e.status
    BY <1>2 DEF Emission
  <2>2. worker.reply \in SUBSET Emission
    BY <1>1 DEF Worker
  <2>3. QED BY <2>1, <2>2
<1>7. worker' = [w EXCEPT !.reply = IF worker.call = "taken" THEN {[e EXCEPT !.live = {}]} ELSE @,
                          !.call  = IF worker.call = "taken" THEN "none" ELSE @]
  BY <1>2 DEF Returned
<1> DEFINE call == IF worker.call = "taken" THEN "none" ELSE worker.call
<1>8. worker' = [w EXCEPT !.reply = reply, !.call = call]
  BY <1>5, <1>7
<1>9. call \in {"none", "sent", "taken"}
  BY <1>1 DEF Worker
<1> HIDE DEF w, reply, call, e, s
<1>10. /\ worker' \in Worker /\ worker'.script = <<>> /\ (worker'.alive <=> e.status \notin Final)
       /\ worker'.status = worker.status /\ worker'.live = worker.live
       /\ worker'.receipt = worker.receipt /\ worker'.reply = reply
       /\ worker'.torn = worker.torn
  BY <1>5, <1>6, <1>8, <1>9 DEF Worker
<1>11. /\ box' \in Seq(Emission) /\ View' = View /\ (NotFinal(box) => NotFinal(box'))
       /\ e.status \notin Final => box' = box
  <2>1. box \in Seq(Emission) /\ guardian' = guardian
    BY <1>1 DEF TypeOK
  <2>2. CASE e.status \in Final
    <3>1. box' = Append(box, Say("exit", "none"))
      BY <1>1, <2>2 DEF e, s
    <3>2. QED BY <1>1, <2>1, <2>2, <3>1, ExitIsQuiet DEF View
  <2>3. CASE e.status \notin Final
    <3>1. box' = box
      BY <1>1, <2>3 DEF e, s
    <3>2. QED BY <2>1, <3>1 DEF View
  <2>4. QED BY <2>2, <2>3
<1>12. /\ \A r : Told(r)' <=> Told(r)
       /\ (Watching' <=> Watching)
  BY <1>1 DEF Told, Watching
<1>13. Len(<<>>) = 0 /\ \A r : ~Due(<<>>, r)
  BY DEF Due
<1>14. /\ e.receipt # 0 =>
            /\ e.receipt <= worker.receipt
            /\ worker.torn \/ Told(e.receipt) \/ e.receipt \in worker.live
       /\ e.receipt \in Nat /\ worker.receipt \in Nat
  <2>1. 1 \in 1 .. Len(s)
    BY <1>2
  <2>2. e.receipt \in Nat /\ worker.receipt \in Nat
    BY <1>1, <1>2 DEF Emission, Worker
  <2>3. QED BY <1>1, <1>3, <2>1, <2>2 DEF IInv, Scripts, s, e
<1>15. TypeOK'
  BY <1>1, <1>10, <1>11 DEF TypeOK
<1>16. Phases'
  <2>1. Phases
    BY DEF IInv
  <2>2. \A k \in 1 .. Len(box') : box'[k].kind = "exit" => ~worker'.alive
    <3>1. CASE e.status \in Final
      BY <1>10, <3>1
    <3>2. CASE e.status \notin Final
      BY <1>1, <1>11, <2>1, <3>2 DEF Phases
    <3>3. QED BY <3>1, <3>2
  <2>3. QED BY <1>1, <1>10, <2>1, <2>2 DEF Phases, IsTerminal
<1>17. Ends'
  <2>1. Ends
    BY DEF IInv
  <2>2. ASSUME worker.status \notin Final
        PROVE  /\ NotFinal(box') /\ \A m \in reply : m.status \notin Final
               /\ worker'.alive
               /\ IsTerminal(guardian) => guardian.phase \in {"crashing", "killing", "gone"}
    <3>1. NotFinal(box) /\ NotFinal(s) /\ \A m \in worker.reply : m.status \notin Final
      BY <2>1, <2>2 DEF Ends, s
    <3>2. e.status \notin Final
      BY <1>2, <3>1 DEF NotFinal, e
    <3>3. QED BY <1>1, <1>6, <1>10, <1>11, <2>1, <2>2, <3>1, <3>2 DEF Ends
  <2>3. NotFinal(<<>>)
    BY <1>13 DEF NotFinal
  <2>4. QED BY <1>1, <1>10, <2>1, <2>2, <2>3 DEF Ends, IsTerminal
<1>18. Numbers'
  <2>1. Numbers
    BY DEF IInv
  <2>2. \A m \in reply : m.receipt <= worker.receipt
    BY <1>6, <1>14, <2>1 DEF Numbers
  <2>3. QED BY <1>1, <1>10, <1>13, <2>1, <2>2 DEF Numbers
<1>19. Scripts'
  BY <1>10, <1>13 DEF Scripts, Returns
<1>20. Once'
  <2>1. Once
    BY DEF IInv
  <2>2. \A r : OnceDue(worker.script, r)'
    BY <1>10, <1>13 DEF OnceDue
  <2>3. QED BY <1>1, <1>10, <1>11, <1>12, <1>13, <2>1, <2>2 DEF Once
<1>21. Owed'
  <2>1. Owed
    BY DEF IInv
  <2>2. \A r \in Promised' : r \in Promised \/ (r = e.receipt /\ r # 0)
    BY <1>1, <1>6, <1>10 DEF Promised
  <2>3. worker.torn \/ \A r \in Promised' : Told(r) \/ r \in worker.live
    BY <1>3, <1>14, <2>1, <2>2 DEF Owed, s
  <2>4. Watching => View = worker.live
    BY <1>2 DEF IInv, Scripts, s
  <2>5. guardian.phase \in {"crashing", "killing"} =>
          worker.torn \/ \A r \in host.given : Told(r) \/ r \in guardian.todo
    BY <1>3, <2>1 DEF Owed, s
  <2>6. worker'.torn \/ \A r \in Promised' : Told(r)' \/ Due(worker'.script, r) \/ r \in worker'.live
    BY <1>10, <1>12, <2>3
  <2>7. Watching' =>
          \A r \in Promised' \cap worker'.live :
            /\ r \in View'
            /\ \A k \in 1 .. Len(worker'.script) :
                 /\ worker'.script[k].kind = "work" => Lists(worker'.script, k, r)
                 /\ ~Forgets(worker'.script, k, r)
    BY <1>10, <1>11, <1>12, <1>13, <2>4
  <2>8. guardian'.phase \in {"crashing", "killing"} =>
          worker'.torn \/ \A r \in host'.given : Told(r)' \/ Due(worker'.script, r) \/ r \in guardian'.todo
    BY <1>1, <1>10, <1>12, <2>5
  <2>9. QED BY <2>6, <2>7, <2>8 DEF Owed
<1>22. QED BY <1>15, <1>16, <1>17, <1>18, <1>19, <1>20, <1>21 DEF IInv

LEMMA EmitKeeps ==
  ASSUME IInv, Emit
  PROVE  IInv'
BY EmitSays, SaidKeeps, ReturnedKeeps DEF IInv

-----------------------------------------------------------------------------
(* Steps that report nothing. *)

(* What the guardian still has to cancel was not reported, and with what is due it is all that
   is owed. *)
TodoIsNew == guardian.phase = "crashing" => \A r \in guardian.todo : ~Told(r)

TodoIsAll ==
  guardian.phase \in {"crashing", "killing"} =>
    worker.torn \/ \A r \in host.given : Told(r) \/ Due(worker.script, r) \/ r \in guardian.todo

(* The coordinator is left where it was, or has ended; nobody is promised more, and the list of a
   guardian that watches stays as it is. *)
Stays == /\ worker'.alive = worker.alive /\ worker'.script = worker.script
         /\ worker'.torn = worker.torn

Exits == /\ ~worker'.alive /\ worker'.script = <<>>
         /\ ~worker'.torn => ~worker.torn /\ \A r : ~Due(worker.script, r)

Quiet ==
  /\ worker'.status = worker.status /\ worker'.live = worker.live
  /\ worker'.receipt = worker.receipt /\ worker'.reply \subseteq worker.reply
  /\ Stays \/ Exits
  /\ host'.outcomes = host.outcomes /\ Promised' \subseteq Promised
  /\ Watching' => Watching /\ View' = View
  /\ ~guardian'.late => ~guardian.late

LEMMA QuietScript ==
  ASSUME Quiet
  PROVE  /\ worker'.script = worker.script \/ worker'.script = <<>>
         /\ worker'.alive => worker.alive
         /\ \A k \in 1 .. Len(worker'.script) : worker'.script = worker.script
         /\ \A r : Due(worker'.script, r) => Due(worker.script, r)
         /\ \A r : Told(r)' <=> Told(r)
<1>1. worker'.script = worker.script \/ worker'.script = <<>>
  BY DEF Quiet, Stays, Exits
<1>2. worker'.alive => worker.alive
  BY DEF Quiet, Stays, Exits
<1>3. \A k \in 1 .. Len(worker'.script) : worker'.script = worker.script
  <2>1. Len(<<>>) = 0
    OBVIOUS
  <2>2. QED BY <1>1, <2>1
<1>4. \A r : Due(worker'.script, r) => Due(worker.script, r)
  BY <1>3 DEF Due
<1>5. \A r : Told(r)' <=> Told(r)
  BY DEF Quiet, Told
<1>6. QED BY <1>1, <1>2, <1>3, <1>4, <1>5

LEMMA QuietKeepsScripts ==
  ASSUME TypeOK, Numbers, Scripts, Quiet
  PROVE  Numbers' /\ Scripts'
<1>1. /\ worker'.script = worker.script \/ worker'.script = <<>>
      /\ \A k \in 1 .. Len(worker'.script) : worker'.script = worker.script
      /\ \A r : Due(worker'.script, r) => Due(worker.script, r)
      /\ \A r : Told(r)' <=> Told(r)
  BY QuietScript
<1>2. /\ worker'.live = worker.live /\ worker'.receipt = worker.receipt
      /\ worker'.reply \subseteq worker.reply /\ Promised' \subseteq Promised
      /\ Watching' => Watching /\ View' = View
      /\ Stays \/ Exits
  BY DEF Quiet
<1>3. Promised \subseteq 1 .. worker.receipt
  BY DEF Numbers, Promised, TypeOK, Worker, Emission
<1>4. host'.given \subseteq 1 .. worker.receipt
  BY <1>2, <1>3 DEF Promised
<1>5. Numbers'
  BY <1>1, <1>2, <1>4 DEF Numbers
<1>6. Scripts'
  <2>1. CASE worker'.script = <<>>
    <3>1. Len(<<>>) = 0
      OBVIOUS
    <3>2. QED BY <2>1, <3>1 DEF Scripts, Returns
  <2>2. CASE worker'.script # <<>>
    <3>1. worker'.script = worker.script /\ worker'.torn = worker.torn
      BY <1>1, <1>2, <2>2 DEF Stays, Exits
    <3>2. Returns(worker'.script, worker'.live)
      BY <1>2, <3>1 DEF Scripts
    <3>3. Len(worker'.script) = 1 /\ Watching' => View' = worker'.live
      BY <1>2, <3>1 DEF Scripts
    <3>4. \A k \in 1 .. Len(worker'.script) :
            worker'.script[k].kind = "end" /\ worker'.script[k].receipt # 0 =>
              LET r == worker'.script[k].receipt
              IN  /\ r <= worker'.receipt
                  /\ worker'.torn \/ host'.outcomes[r] >= 1 \/ Due(worker'.script, r) \/ r \in worker'.live
      BY <1>2, <3>1 DEF Scripts, Told, Quiet
    <3>5. QED BY <3>2, <3>3, <3>4 DEF Scripts, Told
  <2>3. QED BY <2>1, <2>2
<1>7. QED BY <1>5, <1>6

LEMMA QuietKeepsOnce ==
  ASSUME TypeOK, Once, Quiet, ~guardian'.late => TodoIsNew'
  PROVE  Once'
<1>1. /\ worker'.script = worker.script \/ worker'.script = <<>>
      /\ worker'.alive => worker.alive
      /\ \A k \in 1 .. Len(worker'.script) : worker'.script = worker.script
      /\ \A r : Due(worker'.script, r) => Due(worker.script, r)
      /\ \A r : Told(r)' <=> Told(r)
  BY QuietScript
<1>2. /\ worker'.live = worker.live /\ worker'.receipt = worker.receipt
      /\ host'.outcomes = host.outcomes
      /\ Watching' => Watching /\ View' = View
      /\ ~guardian'.late => ~guardian.late
  BY DEF Quiet
<1> SUFFICES ASSUME ~guardian'.late PROVE Once'
  BY DEF Once
<1>3. /\ \A r \in Receipts : host.outcomes[r] <= 1
      /\ worker.alive => \A r \in Receipts : Told(r) => r <= worker.receipt
      /\ \A r \in Receipts : OnceDue(worker.script, r)
      /\ \A r \in Receipts : Due(worker.script, r) => ~Told(r) /\ r \notin worker.live
      /\ worker.alive => \A r \in worker.live : ~Told(r)
      /\ Watching =>
           \A r \in Receipts : Told(r) =>
             r \notin View /\ \A i \in 1 .. Len(worker.script) : ~Lists(worker.script, i, r)
  BY <1>2 DEF Once
<1>4. \A r \in Receipts : OnceDue(worker.script, r)'
  <2>1. CASE worker'.script = <<>>
    <3>1. Len(<<>>) = 0
      OBVIOUS
    <3>2. QED BY <2>1, <3>1 DEF OnceDue
  <2>2. CASE worker'.script = worker.script
    <3> SUFFICES ASSUME NEW r \in Receipts PROVE OnceDue(worker.script, r)'
      OBVIOUS
    <3>1. OnceDue(worker.script, r)
      BY <1>3
    <3>2. QED BY <1>2, <2>2, <3>1 DEF OnceDue, Reports, Forgets, Lists
  <2>3. QED BY <1>1, <2>1, <2>2
<1>5. Watching' =>
        \A r \in Receipts : Told(r)' =>
          r \notin View' /\ \A i \in 1 .. Len(worker'.script) : ~Lists(worker'.script, i, r)
  BY <1>1, <1>2, <1>3
<1>6. \A r \in Receipts : Due(worker'.script, r) => ~Told(r)' /\ r \notin worker'.live
  BY <1>1, <1>2, <1>3
<1>7. TodoIsNew'
  OBVIOUS
<1>8. QED BY <1>1, <1>2, <1>3, <1>4, <1>5, <1>6, <1>7 DEF Once, TodoIsNew

LEMMA QuietKeepsOwed ==
  ASSUME TypeOK, Owed, Quiet, TodoIsAll'
  PROVE  Owed'
<1>1. /\ \A k \in 1 .. Len(worker'.script) : worker'.script = worker.script
      /\ \A r : Told(r)' <=> Told(r)
  BY QuietScript
<1>2. /\ worker'.live = worker.live /\ Promised' \subseteq Promised
      /\ Watching' => Watching /\ View' = View
  BY DEF Quiet
<1>3. worker'.torn \/ \A r \in Promised' : Told(r)' \/ Due(worker'.script, r) \/ r \in worker'.live
  <2>1. worker.torn \/ \A r \in Promised : Told(r) \/ Due(worker.script, r) \/ r \in worker.live
    BY DEF Owed
  <2>2. CASE Stays
    BY <1>1, <1>2, <2>1, <2>2 DEF Stays
  <2>3. CASE Exits
    BY <1>1, <1>2, <2>1, <2>3 DEF Exits
  <2>4. QED BY <2>2, <2>3 DEF Quiet
<1>4. Watching' =>
        \A r \in Promised' \cap worker'.live :
          /\ r \in View'
          /\ \A k \in 1 .. Len(worker'.script) :
               /\ worker'.script[k].kind = "work" => Lists(worker'.script, k, r)
               /\ ~Forgets(worker'.script, k, r)
  <2> SUFFICES ASSUME Watching', NEW r \in Promised' \cap worker'.live
               PROVE  /\ r \in View'
                      /\ \A k \in 1 .. Len(worker'.script) :
                           /\ worker'.script[k].kind = "work" => Lists(worker'.script, k, r)
                           /\ ~Forgets(worker'.script, k, r)
    OBVIOUS
  <2>1. /\ r \in View
        /\ \A k \in 1 .. Len(worker.script) :
             /\ worker.script[k].kind = "work" => Lists(worker.script, k, r)
             /\ ~Forgets(worker.script, k, r)
    BY <1>2 DEF Owed
  <2>2. QED BY <1>1, <1>2, <2>1
<1>5. QED BY <1>3, <1>4 DEF Owed, TodoIsAll

(* So much for the guardian's part. *)
LEMMA QuietKeeps ==
  ASSUME IInv, Quiet, TypeOK', Phases', Ends', ~guardian'.late => TodoIsNew', TodoIsAll'
  PROVE  IInv'
BY QuietKeepsScripts, QuietKeepsOnce, QuietKeepsOwed DEF IInv

-----------------------------------------------------------------------------
(* The end of the coordinator, the guardian, and the invariant. *)

(* The fields of the invariant's state. *)
LEMMA Types ==
  ASSUME TypeOK
  PROVE  /\ worker \in Worker /\ guardian \in Guardian /\ host \in Host /\ box \in Seq(Emission)
         /\ guardian.work \in SUBSET Receipts
         /\ worker.reply \in SUBSET Emission
         /\ \A r \in Receipts : host.outcomes[r] \in Nat
         /\ Promised \subseteq Receipts
<1>1. worker \in Worker /\ guardian \in Guardian /\ host \in Host /\ box \in Seq(Emission)
  BY DEF TypeOK
<1>2. guardian.work \in SUBSET Receipts
  BY <1>1 DEF Guardian
<1>3. worker.reply \in SUBSET Emission
  BY <1>1 DEF Worker
<1>4. host.given \in SUBSET Receipts /\ \A r \in Receipts : host.outcomes[r] \in Nat
  BY <1>1 DEF Host
<1>5. \A e \in worker.reply : e.receipt \in 0 .. MaxReceipt
  BY <1>3 DEF Emission
<1>6. Promised \subseteq Receipts
  BY <1>4, <1>5, GuardianAssumption DEF Promised, Receipts
<1>7. QED BY <1>1, <1>2, <1>3, <1>4, <1>6

LEMMA CrashKeeps ==
  ASSUME IInv, Crash
  PROVE  IInv'
<1>1. /\ TypeOK /\ Phases /\ Ends /\ worker.alive /\ worker' = Exited
      /\ box' = Append(box, Say("exit", "none")) /\ UNCHANGED <<guardian, host>>
  BY DEF IInv, Crash
<1>2. /\ worker' \in Worker /\ ~worker'.alive /\ worker'.script = <<>>
      /\ worker'.status = worker.status /\ worker'.live = worker.live
      /\ worker'.receipt = worker.receipt /\ worker'.reply = worker.reply
      /\ ~worker'.torn => ~worker.torn /\ \A r : ~Due(worker.script, r)
  BY <1>1, Types, ExitedFacts
<1>3. box' \in Seq(Emission) /\ View' = View /\ (NotFinal(box) => NotFinal(box'))
  BY <1>1, ExitIsQuiet DEF View
<1>4. Quiet
  BY <1>1, <1>2, <1>3 DEF Quiet, Exits, Promised, Watching
<1>5. TypeOK'
  BY <1>1, <1>2, <1>3 DEF TypeOK
<1>6. Phases'
  BY <1>1, <1>2 DEF Phases, IsTerminal
<1>7. Ends'
  <2>1. NotFinal(<<>>)
    BY DEF NotFinal
  <2>2. worker.status \notin Final /\ IsTerminal(guardian) =>
          guardian.phase \in {"crashing", "killing", "gone"}
    BY <1>1 DEF Ends
  <2>3. QED BY <1>1, <1>2, <1>3, <2>1, <2>2 DEF Ends, IsTerminal
<1>8. \A r : Told(r)' <=> Told(r)
  BY <1>1 DEF Told
<1>9. ~guardian'.late => TodoIsNew'
  BY <1>1, <1>8 DEF IInv, Once, TodoIsNew
<1>10. TodoIsAll'
  BY <1>1, <1>2, <1>8 DEF IInv, Owed, TodoIsAll
<1>11. QED BY <1>4, <1>5, <1>6, <1>7, <1>9, <1>10, QuietKeeps

LEMMA CallKeeps ==
  ASSUME IInv, Call
  PROVE  IInv'
<1>1. /\ TypeOK /\ Phases /\ Ends /\ guardian.phase = "idle" /\ ~IsTerminal(guardian)
      /\ guardian' = [guardian EXCEPT !.phase = "waiting"]
      /\ worker' = [worker EXCEPT !.call = "sent", !.reply = {}]
      /\ UNCHANGED <<box, host>>
  BY DEF IInv, Call
<1>2. worker \in Worker /\ guardian \in Guardian
  BY <1>1, Types
<1>3. /\ worker' \in Worker /\ worker'.alive = worker.alive /\ worker'.script = worker.script
      /\ worker'.status = worker.status /\ worker'.live = worker.live
      /\ worker'.receipt = worker.receipt /\ worker'.reply = {} /\ worker'.torn = worker.torn
  BY <1>1, <1>2 DEF Worker
<1>4. /\ guardian' \in Guardian /\ guardian'.phase = "waiting" /\ guardian'.status = guardian.status
      /\ guardian'.work = guardian.work /\ guardian'.known = guardian.known
      /\ guardian'.late = guardian.late
  BY <1>1, <1>2 DEF Guardian
<1>5. Quiet
  <2>1. Stays
    BY <1>3 DEF Stays
  <2>2. Promised' \subseteq Promised
    BY <1>1, <1>3 DEF Promised
  <2>3. Watching' => Watching /\ View' = View
    BY <1>1, <1>4 DEF Watching, View
  <2>4. QED BY <1>1, <1>3, <1>4, <2>1, <2>2, <2>3 DEF Quiet
<1>6. TypeOK'
  BY <1>1, <1>3, <1>4 DEF TypeOK
<1>7. Phases'
  BY <1>1, <1>3, <1>4 DEF Phases, IsTerminal
<1>8. Ends'
  BY <1>1, <1>3, <1>4 DEF Ends, IsTerminal
<1>9. TodoIsNew' /\ TodoIsAll'
  BY <1>4 DEF TodoIsNew, TodoIsAll
<1>10. QED BY <1>5, <1>6, <1>7, <1>8, <1>9, QuietKeeps

(* The mailbox after a drain. *)
LEMMA DrainKeeps ==
  ASSUME TypeOK, Phases
  PROVE  /\ Drained(guardian) \in Guardian /\ Drained(guardian).work = View
         /\ Drained(guardian).known = guardian.known /\ Drained(guardian).late = guardian.late
         /\ View \in SUBSET Receipts
         /\ Undrained \in Seq(Emission) /\ NotFinal(Undrained)
         /\ Listed(View, Undrained) = View
         /\ \A k \in 1 .. Len(Undrained) : Undrained[k].kind = "exit" => ~worker.alive
<1>1. guardian \in Guardian /\ box \in Seq(Emission)
  BY Types
<1>2. View \in SUBSET Receipts
  BY DEF View, Listed
<1>3. /\ Drained(guardian) \in Guardian /\ Drained(guardian).work = View
      /\ Drained(guardian).known = guardian.known /\ Drained(guardian).late = guardian.late
  BY <1>1, DrainedIsListed
<1>4. /\ Undrained \in Seq(Emission) /\ NotFinal(Undrained)
      /\ Listed(View, Undrained) = View
      /\ \A k \in 1 .. Len(Undrained) :
           Undrained[k].kind = "exit" => \E j \in 1 .. Len(box) : box[j].kind = "exit"
  BY <1>1, <1>2, UndrainedIsQuiet
<1>5. \A k \in 1 .. Len(Undrained) : Undrained[k].kind = "exit" => ~worker.alive
  BY <1>4 DEF Phases
<1>6. QED BY <1>2, <1>3, <1>4, <1>5

LEMMA TakeReplyKeeps ==
  ASSUME IInv, TakeReply
  PROVE  IInv'
<1>1. /\ TypeOK /\ Phases /\ Ends /\ Numbers /\ guardian.phase = "waiting"
      /\ worker' = [worker EXCEPT !.reply = {}] /\ box' = Undrained
  BY DEF IInv, TakeReply
<1>2. PICK reply \in worker.reply :
        /\ guardian' = [Drained(guardian) EXCEPT
                          !.status = reply.status,
                          !.error  = IF reply.status = "failed" THEN "reported" ELSE "none",
                          !.phase  = "idle"]
        /\ host' = [host EXCEPT !.given = @ \cup ({reply.receipt} \ {0})]
  BY DEF TakeReply
<1>3. worker \in Worker /\ host \in Host /\ reply \in Emission
  BY <1>1, Types
<1>4. /\ Drained(guardian) \in Guardian /\ Drained(guardian).work = View
      /\ Drained(guardian).known = guardian.known /\ Drained(guardian).late = guardian.late
      /\ Undrained \in Seq(Emission) /\ NotFinal(Undrained)
      /\ Listed(View, Undrained) = View
      /\ \A k \in 1 .. Len(Undrained) : Undrained[k].kind = "exit" => ~worker.alive
  BY <1>1, DrainKeeps
<1>5. /\ worker' \in Worker /\ worker'.alive = worker.alive /\ worker'.script = worker.script
      /\ worker'.status = worker.status /\ worker'.live = worker.live
      /\ worker'.receipt = worker.receipt /\ worker'.reply = {} /\ worker'.torn = worker.torn
  BY <1>1, <1>3 DEF Worker
<1>6. /\ guardian' \in Guardian /\ guardian'.phase = "idle" /\ guardian'.status = reply.status
      /\ guardian'.work = View /\ guardian'.known = guardian.known
      /\ guardian'.late = guardian.late
  <2>1. reply.status \in Statuses
    BY <1>3 DEF Emission
  <2>2. QED BY <1>2, <1>4, <2>1 DEF Guardian
<1>7. /\ host' \in Host /\ host'.outcomes = host.outcomes
      /\ host'.given = host.given \cup ({reply.receipt} \ {0})
  <2>1. {reply.receipt} \ {0} \subseteq Receipts
    BY <1>3, GuardianAssumption DEF Emission, Receipts
  <2>2. QED BY <1>2, <1>3, <2>1 DEF Host
<1>8. ~IsTerminal(guardian) /\ guardian.known /\ ~guardian.late
  BY <1>1 DEF Phases
<1>9. Quiet
  <2>1. Stays
    BY <1>5 DEF Stays
  <2>2. Promised' \subseteq Promised
    BY <1>2, <1>5, <1>7 DEF Promised
  <2>3. Watching /\ View' = View
    BY <1>1, <1>4, <1>6, <1>8 DEF Watching, View
  <2>4. QED BY <1>5, <1>6, <1>7, <2>1, <2>2, <2>3 DEF Quiet
<1>10. TypeOK'
  BY <1>1, <1>4, <1>5, <1>6, <1>7 DEF TypeOK
<1>11. Phases'
  <2>1. ~worker'.alive => worker'.script = <<>>
    BY <1>1, <1>5 DEF Phases
  <2>2. QED BY <1>1, <1>4, <1>5, <1>6, <1>8, <2>1 DEF Phases
<1>12. Ends'
  <2>1. worker.status \notin Final => reply.status \notin Final /\ NotFinal(worker.script)
    BY <1>1, <1>2 DEF Ends
  <2>2. /\ worker.status # "running" => worker.live = {}
        /\ worker.status = "none" => worker.receipt = 0
    BY <1>1 DEF Ends
  <2>3. QED BY <1>1, <1>4, <1>5, <1>6, <2>1, <2>2 DEF Ends, IsTerminal
<1>13. TodoIsNew' /\ TodoIsAll'
  BY <1>6 DEF TodoIsNew, TodoIsAll
<1>14. QED BY <1>9, <1>10, <1>11, <1>12, <1>13, QuietKeeps

(* The crash of a root that the guardian watches, with its coordinator gone or late. *)
LEMMA CrashedKeeps ==
  ASSUME IInv, Watching, NEW late \in BOOLEAN, ~late => ~worker.alive, ~guardian.late,
         guardian' = [Crashed(guardian) EXCEPT !.late = late],
         box' = Undrained, UNCHANGED <<worker, host>>
  PROVE  IInv'
<1>1. TypeOK /\ Phases /\ Ends /\ Once /\ Owed
  BY DEF IInv
<1>2. /\ Drained(guardian) \in Guardian /\ Drained(guardian).work = View
      /\ View \in SUBSET Receipts
      /\ Undrained \in Seq(Emission) /\ NotFinal(Undrained)
      /\ \A k \in 1 .. Len(Undrained) : Undrained[k].kind = "exit" => ~worker.alive
  BY <1>1, DrainKeeps
<1>3. guardian' = [Drained(guardian) EXCEPT !.status = "failed", !.error = "crashed",
                                            !.phase = "crashing", !.todo = View, !.late = late]
  <2>1. Crashed(guardian) = [Drained(guardian) EXCEPT !.status = "failed", !.error = "crashed",
                                                      !.phase = "crashing", !.todo = View]
    BY <1>2 DEF Crashed
  <2> DEFINE d == Drained(guardian)
  <2> HIDE DEF d
  <2>2. [[d EXCEPT !.status = "failed", !.error = "crashed", !.phase = "crashing", !.todo = View]
          EXCEPT !.late = late] =
        [d EXCEPT !.status = "failed", !.error = "crashed", !.phase = "crashing", !.todo = View,
                  !.late = late]
    OBVIOUS
  <2>3. QED BY <2>1, <2>2 DEF d
<1>4. /\ guardian' \in Guardian /\ guardian'.phase = "crashing" /\ guardian'.status = "failed"
      /\ guardian'.todo = View /\ guardian'.late = late
  BY <1>2, <1>3 DEF Guardian, Statuses
<1>5. IsTerminal(guardian')
  BY <1>4 DEF IsTerminal, Final
<1>6. Quiet
  <2>1. Stays
    BY DEF Stays
  <2>2. Promised' \subseteq Promised
    BY DEF Promised
  <2>3. ~Watching'
    BY <1>5 DEF Watching, IsTerminal
  <2>4. QED BY <2>1, <2>2, <2>3 DEF Quiet
<1>7. TypeOK'
  BY <1>1, <1>2, <1>4 DEF TypeOK
<1>8. Phases'
  <2>1. ~worker.alive => worker.script = <<>>
    BY <1>1 DEF Phases
  <2>2. QED BY <1>2, <1>4, <1>5, <2>1 DEF Phases, IsTerminal
<1>9. Ends'
  BY <1>1, <1>2, <1>4 DEF Ends
<1>10. \A r : Told(r)' <=> Told(r)
  BY DEF Told
<1>11. TodoIsNew'
  <2>1. \A r \in View : ~Told(r)
    BY <1>1, <1>2 DEF Once
  <2>2. QED BY <1>4, <1>10, <2>1 DEF TodoIsNew
<1>12. TodoIsAll'
  <2>1. worker.torn \/ \A r \in host.given : Told(r) \/ Due(worker.script, r) \/ r \in View
    BY <1>1 DEF Owed, Promised
  <2>2. QED BY <1>4, <1>10, <2>1 DEF TodoIsAll
<1>13. QED BY <1>6, <1>7, <1>8, <1>9, <1>11, <1>12, QuietKeeps

LEMMA CallFailsKeeps ==
  ASSUME IInv, CallFails
  PROVE  IInv'
<1>1. /\ guardian.phase = "waiting"
      /\ guardian' = [Crashed(guardian) EXCEPT !.late = worker.alive]
      /\ box' = Undrained /\ UNCHANGED <<worker, host>>
  BY DEF CallFails
<1>2. Watching /\ ~guardian.late
  BY <1>1 DEF IInv, Phases, Watching
<1>3. worker.alive \in BOOLEAN
  BY Types DEF IInv, Worker
<1>4. QED BY <1>1, <1>2, <1>3, CrashedKeeps

(* A set of receipts has a least one. *)
LEMMA FirstIn ==
  ASSUME NEW S \in SUBSET Receipts, S # {}
  PROVE  \E k \in S : \A j \in S : k <= j
<1> DEFINE R == OpToRel(<, Nat)
<1>1. IsWellFoundedOn(R, Nat)
  BY NatLessThanWellFounded
<1>2. S \subseteq Nat
  BY DEF Receipts
<1>3. \A x, y \in Nat : x < y => <<x, y>> \in R
  BY DEF OpToRel
<1> HIDE DEF R
<1>4. PICK x \in S : \A y \in S : <<y, x>> \notin R
  BY <1>1, <1>2, WFMin, Zenon
<1>5. \A j \in S : x <= j
  <2> SUFFICES ASSUME NEW j \in S, ~(x <= j) PROVE FALSE
    OBVIOUS
  <2>1. j \in Nat /\ x \in Nat /\ j < x
    BY <1>2
  <2>2. QED BY <1>3, <1>4, <2>1
<1>6. QED BY <1>5

(* One checkpoint, or the exit of a coordinator nobody waits for: the guardian goes on watching
   with the same list, or does not watch any more. *)
LEMMA HeadKeeps ==
  ASSUME IInv, guardian.phase = "idle", box # <<>>, box' = Tail(box), UNCHANGED <<worker, host>>,
         guardian' \in Guardian, guardian'.phase = "idle",
         guardian'.late = guardian.late,
         IsTerminal(guardian) => IsTerminal(guardian'),
         worker.status \notin Final /\ IsTerminal(guardian') => IsTerminal(guardian),
         ~guardian'.known => IsTerminal(guardian'),
         Watching' => guardian'.work = Noted(guardian.work, Head(box))
  PROVE  IInv'
<1>1. TypeOK /\ Phases /\ Ends
  BY DEF IInv
<1>2. box \in Seq(Emission) /\ guardian.work \in SUBSET Receipts
  BY <1>1, Types
<1>3. /\ Tail(box) \in Seq(Emission)
      /\ \A i \in 1 .. Len(Tail(box)) : i + 1 \in 1 .. Len(box) /\ Tail(box)[i] = box[i + 1]
  BY <1>2, TailFacts
<1>4. Quiet
  <2>1. Stays
    BY DEF Stays
  <2>2. Promised' \subseteq Promised
    BY DEF Promised
  <2>3. Watching' => Watching
    BY DEF Watching
  <2>4. Watching' => View' = View
    <3>1. Listed(Noted(guardian.work, Head(box)), Tail(box)) = View
      BY <1>2, ListedTail DEF View
    <3>2. QED BY <3>1 DEF View
  <2>5. QED BY <2>1, <2>2, <2>3, <2>4 DEF Quiet
<1>5. TypeOK'
  BY <1>1, <1>3 DEF TypeOK
<1>6. Phases'
  <2>1. \A k \in 1 .. Len(box') : box'[k].kind = "exit" => ~worker'.alive
    BY <1>1, <1>3 DEF Phases
  <2>2. ~worker'.alive => worker'.script = <<>>
    BY <1>1 DEF Phases
  <2>3. guardian'.late => IsTerminal(guardian')
    BY <1>1 DEF Phases
  <2>4. QED BY <2>1, <2>2, <2>3 DEF Phases, IsTerminal
<1>7. Ends'
  <2>1. /\ worker.status # "running" => worker.live = {}
        /\ worker.status = "none" => worker.receipt = 0
    BY <1>1 DEF Ends
  <2>2. ASSUME worker.status \notin Final
        PROVE  /\ NotFinal(box') /\ NotFinal(worker.script)
               /\ \A e \in worker.reply : e.status \notin Final
               /\ IsTerminal(guardian') =>
                    ~worker.alive /\ (worker.torn \/ \A r \in host.given : Told(r))
    <3>1. /\ NotFinal(box) /\ NotFinal(worker.script)
          /\ \A e \in worker.reply : e.status \notin Final
          /\ IsTerminal(guardian) =>
               ~worker.alive /\ (worker.torn \/ \A r \in host.given : Told(r))
      BY <1>1, <2>2 DEF Ends
    <3>2. NotFinal(box')
      BY <1>3, <3>1 DEF NotFinal
    <3>3. QED BY <2>2, <3>1, <3>2
  <2>3. \A r : Told(r)' <=> Told(r)
    BY DEF Told
  <2>4. QED BY <2>1, <2>2, <2>3 DEF Ends, IsTerminal
<1>8. TodoIsNew' /\ TodoIsAll'
  BY DEF TodoIsNew, TodoIsAll
<1>9. QED BY <1>4, <1>5, <1>6, <1>7, <1>8, QuietKeeps

LEMMA HandleInfoKeeps ==
  ASSUME IInv, HandleInfo
  PROVE  IInv'
<1> DEFINE m == Head(box)
           g == guardian
<1>1. /\ TypeOK /\ Phases /\ Ends /\ g.phase = "idle" /\ box # <<>>
      /\ UNCHANGED <<worker, host>>
  BY DEF IInv, HandleInfo
<1>2. g \in Guardian /\ box \in Seq(Emission) /\ m \in Emission /\ m = box[1] /\ 1 \in 1 .. Len(box)
  <2>1. g \in Guardian /\ box \in Seq(Emission)
    BY <1>1, Types
  <2>2. Len(box) = Len(Tail(box)) + 1 /\ Len(Tail(box)) \in Nat /\ m = box[1] /\ m \in Emission
    BY <1>1, <2>1, TailFacts
  <2>3. QED BY <2>1, <2>2
<1>3. /\ g.late => IsTerminal(g)
      /\ ~g.known => IsTerminal(g)
  BY <1>1 DEF Phases
<1>4. CASE m.kind = "exit"
  <2>1. /\ guardian' = ExitSeen(g)
        /\ box' = IF guardian'.phase = "crashing" THEN Undrained ELSE Tail(box)
    BY <1>4 DEF HandleInfo
  <2>2. ~worker.alive
    BY <1>1, <1>2, <1>4 DEF Phases
  <2>3. CASE ~g.known
    <3>1. guardian' = g
      BY <2>1, <2>3 DEF ExitSeen
    <3>2. box' = Tail(box)
      BY <1>1, <2>1, <3>1
    <3>3. ~Watching'
      BY <1>3, <2>3, <3>1 DEF Watching, IsTerminal
    <3>4. QED BY <1>1, <1>2, <1>3, <3>1, <3>2, <3>3, HeadKeeps
  <2>4. CASE g.known /\ IsTerminal(g)
    <3>1. guardian' = [g EXCEPT !.known = FALSE]
      BY <2>1, <2>4 DEF ExitSeen
    <3>2. /\ guardian' \in Guardian /\ guardian'.phase = "idle" /\ guardian'.late = g.late
          /\ guardian'.status = g.status
      BY <1>1, <1>2, <3>1 DEF Guardian
    <3>3. box' = Tail(box)
      BY <2>1, <3>2
    <3>4. IsTerminal(guardian')
      BY <2>4, <3>2 DEF IsTerminal
    <3>5. ~Watching'
      BY <3>4 DEF Watching, IsTerminal
    <3>6. QED BY <1>1, <1>2, <1>3, <2>4, <3>2, <3>3, <3>4, <3>5, HeadKeeps
  <2>5. CASE g.known /\ ~IsTerminal(g)
    <3>1. guardian' = Crashed(g)
      BY <2>1, <2>5 DEF ExitSeen
    <3>2. ~g.late
      BY <1>3, <2>5
    <3>3. /\ Drained(g) \in Guardian /\ Drained(g).late = g.late
      BY <1>1, DrainKeeps
    <3>4. /\ Crashed(g).late = g.late /\ Crashed(g).phase = "crashing"
          /\ Crashed(g) = [Crashed(g) EXCEPT !.late = FALSE]
      <4> DEFINE d == Drained(g)
                 c == [d EXCEPT !.status = "failed", !.error = "crashed",
                                !.phase = "crashing", !.todo = d.work]
      <4>1. Crashed(g) = c
        BY DEF Crashed
      <4> HIDE DEF d, g
      <4>2. d \in Guardian /\ d.late = FALSE /\ g.late = FALSE
        <5>1. d \in Guardian /\ d.late = g.late /\ ~g.late
          BY <3>2, <3>3 DEF d
        <5>2. QED BY <5>1 DEF Guardian
      <4>3. /\ c \in Guardian /\ c.late = FALSE /\ c.phase = "crashing"
        BY <4>2 DEF Guardian, Statuses
      <4> HIDE DEF c
      <4>4. c = [c EXCEPT !.late = FALSE]
        BY <4>3 DEF Guardian
      <4>5. QED BY <4>1, <4>2, <4>3, <4>4
    <3>5. box' = Undrained
      BY <2>1, <3>1, <3>4
    <3>6. Watching
      BY <1>1, <2>5 DEF Watching
    <3>7. guardian' = [Crashed(guardian) EXCEPT !.late = FALSE]
      BY <3>1, <3>4
    <3>8. FALSE \in BOOLEAN
      OBVIOUS
    <3>9. QED BY <1>1, <2>2, <3>2, <3>5, <3>6, <3>7, <3>8, CrashedKeeps
  <2>6. QED BY <2>3, <2>4, <2>5
<1>5. CASE m.kind # "exit"
  <2>1. guardian' = Checkpoint(g, m) /\ box' = Tail(box)
    BY <1>5 DEF HandleInfo
  <2>2. CASE ~g.known
    <3>1. guardian' = g
      BY <2>1, <2>2 DEF Checkpoint
    <3>2. ~Watching'
      BY <1>3, <2>2, <3>1 DEF Watching, IsTerminal
    <3>3. QED BY <1>1, <1>2, <1>3, <2>1, <3>1, <3>2, HeadKeeps
  <2>3. CASE g.known /\ m.kind = "work"
    <3>1. guardian' = [g EXCEPT !.work = m.live]
      BY <2>1, <2>3 DEF Checkpoint
    <3>2. /\ guardian' \in Guardian /\ guardian'.phase = "idle" /\ guardian'.late = g.late
          /\ guardian'.status = g.status /\ guardian'.work = m.live /\ guardian'.known = g.known
      BY <1>1, <1>2, <3>1 DEF Guardian, Emission
    <3>3. m.live = Noted(g.work, m)
      BY <2>3 DEF Noted
    <3>4. IsTerminal(guardian') <=> IsTerminal(g)
      BY <3>2 DEF IsTerminal
    <3>5. QED BY <1>1, <1>2, <1>3, <2>1, <3>2, <3>3, <3>4, HeadKeeps
  <2>4. CASE g.known /\ m.kind = "done"
    <3>1. guardian' = [g EXCEPT !.work = @ \ {m.receipt}]
      BY <2>1, <2>4 DEF Checkpoint
    <3>2. /\ guardian' \in Guardian /\ guardian'.phase = "idle" /\ guardian'.late = g.late
          /\ guardian'.status = g.status /\ guardian'.work = g.work \ {m.receipt}
          /\ guardian'.known = g.known
      BY <1>1, <1>2, <3>1 DEF Guardian
    <3>3. g.work \ {m.receipt} = Noted(g.work, m)
      BY <2>4 DEF Noted
    <3>4. IsTerminal(guardian') <=> IsTerminal(g)
      BY <3>2 DEF IsTerminal
    <3>5. QED BY <1>1, <1>2, <1>3, <2>1, <3>2, <3>3, <3>4, HeadKeeps
  <2>5. CASE g.known /\ m.kind = "snapshot" /\ ~IsTerminal(g)
    <3>1. guardian' = [g EXCEPT !.status = m.status,
                                !.error  = IF m.status = "failed" THEN "reported" ELSE "none"]
      BY <2>1, <2>5 DEF Checkpoint
    <3>2. /\ guardian' \in Guardian /\ guardian'.phase = "idle" /\ guardian'.late = g.late
          /\ guardian'.status = m.status /\ guardian'.work = g.work /\ guardian'.known
      BY <1>1, <1>2, <2>5, <3>1 DEF Guardian, Emission
    <3>3. g.work = Noted(g.work, m)
      BY <2>5 DEF Noted
    <3>4. worker.status \notin Final => ~IsTerminal(guardian')
      BY <1>1, <1>2, <3>2 DEF Ends, NotFinal, IsTerminal
    <3>5. QED BY <1>1, <1>2, <1>3, <2>1, <2>5, <3>2, <3>3, <3>4, HeadKeeps
  <2>6. CASE g.known /\ m.kind \notin {"work", "done"} /\ ~(m.kind = "snapshot" /\ ~IsTerminal(g))
    <3>1. guardian' = g
      BY <2>1, <2>6 DEF Checkpoint
    <3>2. g.work = Noted(g.work, m)
      BY <2>6 DEF Noted
    <3>3. QED BY <1>1, <1>2, <1>3, <2>1, <2>6, <3>1, <3>2, HeadKeeps
  <2>7. QED BY <2>2, <2>3, <2>4, <2>5, <2>6
<1>6. QED BY <1>4, <1>5

LEMMA CancelOneKeeps ==
  ASSUME IInv, CancelOne
  PROVE  IInv'
<1> DEFINE least == CHOOSE r \in guardian.todo : \A q \in guardian.todo : r <= q
<1>1. /\ TypeOK /\ Phases /\ Ends /\ Numbers /\ Scripts /\ Once /\ Owed
      /\ guardian.phase = "crashing" /\ guardian.todo # {}
      /\ guardian' = [guardian EXCEPT !.todo = @ \ {least}]
      /\ host' = [host EXCEPT !.outcomes[least] = @ + 1]
      /\ UNCHANGED <<worker, box>>
  BY DEF IInv, CancelOne
<1> HIDE DEF least
<1>2. guardian \in Guardian /\ host \in Host
  BY <1>1, Types
<1>3. /\ guardian' \in Guardian /\ guardian'.phase = "crashing" /\ guardian'.late = guardian.late
      /\ guardian'.status = guardian.status /\ guardian'.known = guardian.known
      /\ guardian'.todo = guardian.todo \ {least}
  BY <1>1, <1>2 DEF Guardian
<1>4. /\ host' \in Host /\ host'.given = host.given
      /\ \A r \in Receipts : host'.outcomes[r] = IF r = least THEN host.outcomes[r] + 1
                                                 ELSE host.outcomes[r]
  <2> DEFINE o == [host.outcomes EXCEPT ![least] = @ + 1]
  <2>1. host.outcomes \in [Receipts -> Nat]
    BY <1>2 DEF Host
  <2>2. o \in [Receipts -> Nat]
    <3>1. CASE least \in Receipts
      BY <2>1, <3>1
    <3>2. CASE least \notin Receipts
      <4>1. o = host.outcomes
        BY <2>1, <3>2
      <4>2. QED BY <2>1, <4>1
    <3>3. QED BY <3>1, <3>2
  <2>3. \A r \in Receipts : o[r] = IF r = least THEN host.outcomes[r] + 1 ELSE host.outcomes[r]
    BY <2>1
  <2>4. host' = [host EXCEPT !.outcomes = o]
    BY <1>1
  <2> HIDE DEF o
  <2>5. host' \in Host /\ host'.given = host.given /\ host'.outcomes = o
    BY <1>2, <2>2, <2>4 DEF Host
  <2>6. QED BY <2>3, <2>5
<1>5. \A r \in Receipts : host.outcomes[r] \in Nat
  BY <1>2 DEF Host
<1>6. \A r \in Receipts : Told(r)' <=> Told(r) \/ r = least
  BY <1>4, <1>5 DEF Told
<1>7. IsTerminal(guardian) /\ IsTerminal(guardian') /\ ~Watching'
  BY <1>1, <1>3 DEF Phases, IsTerminal, Watching
<1>8. ~guardian.late => ~worker.alive /\ worker.script = <<>>
  BY <1>1 DEF Phases
<1>9. Promised' = Promised /\ Promised \subseteq Receipts /\ host.given \subseteq Receipts
  <2>1. Promised' = Promised
    BY <1>1, <1>4 DEF Promised
  <2>2. QED BY <1>1, <2>1, Types DEF Promised
<1>10. TypeOK'
  BY <1>1, <1>3, <1>4 DEF TypeOK
<1>11. Phases'
  BY <1>1, <1>3, <1>7, <1>8 DEF Phases
<1>12. Ends'
  BY <1>1, <1>3 DEF Ends
<1>13. Numbers'
  BY <1>1, <1>4 DEF Numbers
<1>14. Scripts'
  <2>1. ASSUME NEW k \in 1 .. Len(worker.script), worker.script[k].kind = "end",
               NEW r, r = worker.script[k].receipt, r # 0
        PROVE  /\ r <= worker.receipt
               /\ worker.torn \/ host'.outcomes[r] >= 1 \/ Due(worker.script, r) \/ r \in worker.live
    <3>1. r \in Receipts
      <4>1. worker.script \in Seq(Emission)
        BY <1>1 DEF TypeOK, Worker
      <4>2. worker.script[k] \in Emission
        BY <4>1
      <4>3. QED BY <2>1, <4>2, GuardianAssumption DEF Emission, Receipts
    <3>2. /\ r <= worker.receipt
          /\ worker.torn \/ Told(r) \/ Due(worker.script, r) \/ r \in worker.live
      BY <1>1, <2>1 DEF Scripts
    <3>3. QED BY <1>6, <3>1, <3>2 DEF Told
  <2>2. Returns(worker.script, worker.live)
    BY <1>1 DEF Scripts
  <2>3. QED BY <1>1, <1>7, <2>1, <2>2 DEF Scripts, Told
<1>15. Once'
  <2> SUFFICES ASSUME ~guardian.late PROVE Once'
    BY <1>3 DEF Once
  <2>1. worker'.script = <<>> /\ ~worker'.alive /\ Len(<<>>) = 0
    BY <1>1, <1>8
  <2>2. \A r \in Receipts : host.outcomes[r] <= 1
    BY <1>1 DEF Once
  <2>3. \A r \in guardian.todo : ~Told(r) /\ r \in Receipts
    BY <1>1, <1>2 DEF Once, Guardian
  <2>4. least \in guardian.todo
    <3>1. guardian.todo \in SUBSET Receipts
      BY <1>2 DEF Guardian
    <3>2. \E r \in guardian.todo : \A q \in guardian.todo : r <= q
      BY <1>1, <3>1, FirstIn
    <3>3. QED BY <3>2 DEF least
  <2>5. host.outcomes[least] = 0
    BY <1>5, <2>3, <2>4 DEF Told
  <2>6. \A r \in Receipts : host'.outcomes[r] <= 1
    BY <1>4, <2>2, <2>5
  <2>7. \A r \in guardian'.todo : ~Told(r)'
    BY <1>3, <1>6, <2>3
  <2>8. \A r : OnceDue(worker.script, r)' /\ ~Due(worker'.script, r)
    BY <2>1 DEF OnceDue, Due
  <2>9. QED BY <1>7, <2>1, <2>6, <2>7, <2>8 DEF Once
<1>16. Owed'
  <2>1. worker.torn \/ \A r \in Promised : Told(r)' \/ Due(worker.script, r) \/ r \in worker.live
    BY <1>1, <1>6, <1>9 DEF Owed
  <2>2. worker.torn \/ \A r \in host.given : Told(r)' \/ Due(worker.script, r) \/ r \in guardian'.todo
    <3>1. worker.torn \/ \A r \in host.given : Told(r) \/ Due(worker.script, r) \/ r \in guardian.todo
      BY <1>1 DEF Owed
    <3>2. QED BY <1>3, <1>6, <1>9, <3>1
  <2>3. QED BY <1>1, <1>4, <1>7, <1>9, <2>1, <2>2 DEF Owed
<1>17. QED BY <1>10, <1>11, <1>12, <1>13, <1>14, <1>15, <1>16 DEF IInv

LEMMA TellCrashKeeps ==
  ASSUME IInv, TellCrash
  PROVE  IInv'
<1>1. /\ TypeOK /\ Phases /\ Ends /\ Owed /\ guardian.phase = "crashing" /\ guardian.todo = {}
      /\ guardian' = [guardian EXCEPT !.phase = "killing"]
      /\ host' = [host EXCEPT !.told = @ \cup {"crashed"}]
      /\ UNCHANGED <<worker, box>>
  BY DEF IInv, TellCrash
<1>2. guardian \in Guardian /\ host \in Host
  BY <1>1, Types
<1>3. /\ guardian' \in Guardian /\ guardian'.phase = "killing" /\ guardian'.late = guardian.late
      /\ guardian'.status = guardian.status /\ guardian'.known = guardian.known
      /\ guardian'.todo = {}
  BY <1>1, <1>2 DEF Guardian
<1>4. host' \in Host /\ host'.given = host.given /\ host'.outcomes = host.outcomes
  BY <1>1, <1>2 DEF Host
<1>5. IsTerminal(guardian) /\ IsTerminal(guardian') /\ ~Watching'
  BY <1>1, <1>3 DEF Phases, IsTerminal, Watching
<1>6. Quiet
  <2>1. Stays
    BY <1>1 DEF Stays
  <2>2. Promised' \subseteq Promised
    BY <1>1, <1>4 DEF Promised
  <2>3. QED BY <1>1, <1>3, <1>4, <1>5, <2>1, <2>2 DEF Quiet
<1>7. TypeOK'
  BY <1>1, <1>3, <1>4 DEF TypeOK
<1>8. Phases'
  BY <1>1, <1>3, <1>5 DEF Phases
<1>9. Ends'
  BY <1>1, <1>3 DEF Ends
<1>10. \A r : Told(r)' <=> Told(r)
  BY <1>4 DEF Told
<1>11. TodoIsNew'
  BY <1>3 DEF TodoIsNew
<1>12. TodoIsAll'
  <2>1. worker.torn \/ \A r \in host.given : Told(r) \/ Due(worker.script, r) \/ r \in guardian.todo
    BY <1>1 DEF Owed
  <2>2. QED BY <1>1, <1>3, <1>4, <1>10, <2>1 DEF TodoIsAll
<1>13. QED BY <1>6, <1>7, <1>8, <1>9, <1>11, <1>12, QuietKeeps

LEMMA KillKeeps ==
  ASSUME IInv, Kill
  PROVE  IInv'
<1>1. /\ TypeOK /\ Phases /\ Ends /\ Owed /\ guardian.phase = "killing"
      /\ guardian' = [guardian EXCEPT !.phase = "idle", !.known = FALSE, !.work = {}]
      /\ worker' = [Exited EXCEPT !.reply = {}]
      /\ UNCHANGED <<box, host>>
  BY DEF IInv, Kill
<1>2. guardian \in Guardian /\ worker \in Worker
  BY <1>1, Types
<1>3. /\ guardian' \in Guardian /\ guardian'.phase = "idle" /\ guardian'.late = guardian.late
      /\ guardian'.status = guardian.status
  BY <1>1, <1>2 DEF Guardian
<1>4. /\ Exited \in Worker /\ ~Exited.alive /\ Exited.script = <<>>
      /\ Exited.status = worker.status /\ Exited.live = worker.live
      /\ Exited.receipt = worker.receipt
      /\ ~Exited.torn => ~worker.torn /\ \A r : ~Due(worker.script, r)
  BY <1>2, ExitedFacts
<1>5. /\ worker' \in Worker /\ ~worker'.alive /\ worker'.script = <<>>
      /\ worker'.status = worker.status /\ worker'.live = worker.live
      /\ worker'.receipt = worker.receipt /\ worker'.reply = {}
      /\ ~worker'.torn => ~worker.torn /\ \A r : ~Due(worker.script, r)
  BY <1>1, <1>4 DEF Worker
<1>6. IsTerminal(guardian) /\ IsTerminal(guardian') /\ ~Watching'
  BY <1>1, <1>3 DEF Phases, IsTerminal, Watching
<1>7. Quiet
  <2>1. Exits
    BY <1>5 DEF Exits
  <2>2. Promised' \subseteq Promised
    BY <1>1, <1>5 DEF Promised
  <2>3. QED BY <1>1, <1>3, <1>5, <1>6, <2>1, <2>2 DEF Quiet
<1>8. TypeOK'
  BY <1>1, <1>3, <1>5 DEF TypeOK
<1>9. Phases'
  BY <1>1, <1>3, <1>5, <1>6 DEF Phases
<1>10. worker'.torn \/ \A r \in host.given : Told(r)
  BY <1>1, <1>5 DEF Owed, Phases
<1>11. Ends'
  <2>1. NotFinal(<<>>)
    BY DEF NotFinal
  <2>2. \A r : Told(r)' <=> Told(r)
    BY <1>1 DEF Told
  <2>3. /\ worker.status # "running" => worker.live = {}
        /\ worker.status = "none" => worker.receipt = 0
        /\ worker.status \notin Final => NotFinal(box)
    BY <1>1 DEF Ends
  <2>4. QED BY <1>1, <1>5, <1>10, <2>1, <2>2, <2>3 DEF Ends
<1>12. TodoIsNew' /\ TodoIsAll'
  BY <1>3 DEF TodoIsNew, TodoIsAll
<1>13. QED BY <1>7, <1>8, <1>9, <1>11, <1>12, QuietKeeps

LEMMA TerminateKeeps ==
  ASSUME IInv, Terminate
  PROVE  IInv'
<1>1. /\ TypeOK /\ Phases /\ Ends /\ guardian.phase = "idle"
      /\ guardian' = [guardian EXCEPT !.phase = "gone"]
      /\ worker' = Exited /\ box' = <<>> /\ host' = host
  BY DEF IInv, Terminate
<1>2. guardian \in Guardian /\ worker \in Worker
  BY <1>1, Types
<1>3. /\ guardian' \in Guardian /\ guardian'.phase = "gone" /\ guardian'.late = guardian.late
      /\ guardian'.status = guardian.status /\ guardian'.known = guardian.known
  BY <1>1, <1>2 DEF Guardian
<1>4. /\ worker' \in Worker /\ ~worker'.alive /\ worker'.script = <<>>
      /\ worker'.status = worker.status /\ worker'.live = worker.live
      /\ worker'.receipt = worker.receipt /\ worker'.reply = worker.reply
      /\ ~worker'.torn => ~worker.torn /\ \A r : ~Due(worker.script, r)
  BY <1>1, <1>2, ExitedFacts
<1>5. <<>> \in Seq(Emission) /\ Len(<<>>) = 0
  OBVIOUS
<1>6. Quiet
  <2>1. Exits
    BY <1>4 DEF Exits
  <2>2. Promised' \subseteq Promised
    BY <1>1, <1>4 DEF Promised
  <2>3. ~Watching'
    BY <1>3 DEF Watching
  <2>4. QED BY <1>1, <1>3, <1>4, <2>1, <2>2, <2>3 DEF Quiet
<1>7. TypeOK'
  BY <1>1, <1>3, <1>4, <1>5 DEF TypeOK
<1>8. Phases'
  BY <1>1, <1>3, <1>4, <1>5 DEF Phases, IsTerminal
<1>9. Ends'
  BY <1>1, <1>3, <1>4, <1>5 DEF Ends, NotFinal
<1>10. TodoIsNew' /\ TodoIsAll'
  BY <1>3 DEF TodoIsNew, TodoIsAll
<1>11. QED BY <1>6, <1>7, <1>8, <1>9, <1>10, QuietKeeps

LEMMA InitFits == Init => IInv
<1> SUFFICES ASSUME Init PROVE IInv
  OBVIOUS
<1>1. /\ worker = [alive |-> TRUE, status |-> "none", live |-> {}, receipt |-> 0,
                   script |-> <<>>, call |-> "none", reply |-> {}, torn |-> FALSE]
      /\ guardian = [status |-> "none", error |-> "none", work |-> {}, known |-> TRUE,
                     phase |-> "idle", todo |-> {}, late |-> FALSE]
      /\ box = <<>>
      /\ host = [outcomes |-> [r \in Receipts |-> 0], told |-> {}, given |-> {}]
  BY DEF Init
<1>2. <<>> \in Seq(Emission) /\ Len(<<>>) = 0 /\ MaxReceipt \in Nat
  BY GuardianAssumption
<1>3. TypeOK
  <2>1. worker \in Worker
    BY <1>1, <1>2 DEF Worker, Statuses
  <2>2. guardian \in Guardian
    BY <1>1 DEF Guardian, Statuses
  <2>3. host \in Host
    <3>1. [r \in Receipts |-> 0] \in [Receipts -> Nat]
      OBVIOUS
    <3>2. QED BY <1>1, <3>1 DEF Host
  <2>4. QED BY <1>1, <1>2, <2>1, <2>2, <2>3 DEF TypeOK
<1>4. /\ worker.alive /\ worker.status = "none" /\ worker.live = {} /\ worker.receipt = 0
      /\ worker.script = <<>> /\ worker.reply = {} /\ ~worker.torn
      /\ guardian.status = "none" /\ guardian.work = {} /\ guardian.known
      /\ guardian.phase = "idle" /\ guardian.todo = {} /\ ~guardian.late
      /\ host.given = {} /\ \A r \in Receipts : host.outcomes[r] = 0
  BY <1>1
<1>5. ~IsTerminal(guardian)
  BY <1>4 DEF IsTerminal, Final
<1>6. (\A r \in Receipts : ~Told(r)) /\ (\A r : ~Due(<<>>, r)) /\ Promised = {}
  BY <1>2, <1>4 DEF Told, Due, Promised
<1>7. Phases
  BY <1>1, <1>2, <1>4, <1>5 DEF Phases
<1>8. Ends
  BY <1>1, <1>2, <1>4, <1>5 DEF Ends, NotFinal
<1>9. Numbers
  BY <1>4, <1>6 DEF Numbers
<1>10. Scripts
  BY <1>2, <1>4 DEF Scripts, Returns
<1>11. Once
  <2>1. \A r : OnceDue(worker.script, r)
    BY <1>2, <1>4 DEF OnceDue
  <2>2. QED BY <1>2, <1>4, <1>6, <2>1 DEF Once
<1>12. Owed
  BY <1>2, <1>4, <1>6 DEF Owed
<1>13. QED BY <1>3, <1>7, <1>8, <1>9, <1>10, <1>11, <1>12 DEF IInv

(* The last list of work, the scripts and the outcomes agree, wherever the coordinator dies: every
   step of the coordinator and of its guardian keeps the invariant. *)
THEOREM GuardianInvariant == Spec => []IInv
<1>1. Init => IInv
  BY InitFits
<1>2. IInv /\ [Next]_vars => IInv'
  <2> SUFFICES ASSUME IInv, [Next]_vars PROVE IInv'
    OBVIOUS
  <2>1. CASE Coordinator
    BY <2>1, CoordinatorKeeps
  <2>2. CASE Emit
    BY <2>2, EmitKeeps
  <2>3. CASE Crash
    BY <2>3, CrashKeeps
  <2>4. CASE Call
    BY <2>4, CallKeeps
  <2>5. CASE TakeReply
    BY <2>5, TakeReplyKeeps
  <2>6. CASE CallTimesOut \/ CallExits
    BY <2>6, CallFailsKeeps DEF CallTimesOut, CallExits
  <2>7. CASE HandleInfo
    BY <2>7, HandleInfoKeeps
  <2>8. CASE CancelOne
    BY <2>8, CancelOneKeeps
  <2>9. CASE TellCrash
    BY <2>9, TellCrashKeeps
  <2>10. CASE Kill
    BY <2>10, KillKeeps
  <2>11. CASE Terminate
    BY <2>11, TerminateKeeps
  <2>12. CASE UNCHANGED vars
    <3>1. UNCHANGED <<worker, guardian, box, host>>
      BY <2>12 DEF vars
    <3>2. Quiet
      BY <3>1 DEF Quiet, Stays, Promised, Watching, View
    <3>3. TypeOK' /\ Phases' /\ Ends'
      BY <3>1 DEF IInv, TypeOK, Phases, Ends, IsTerminal, Told
    <3>4. TodoIsAll'
      BY <3>1 DEF IInv, Owed, TodoIsAll, Told
    <3>5. ~guardian'.late => TodoIsNew'
      BY <3>1 DEF IInv, Once, TodoIsNew, Told
    <3>6. QED BY <3>2, <3>3, <3>4, <3>5, QuietKeeps
  <2>13. QED BY <2>1, <2>2, <2>3, <2>4, <2>5, <2>6, <2>7, <2>8, <2>9, <2>10, <2>11, <2>12 DEF Next
<1>3. QED BY <1>1, <1>2, PTL DEF Spec

(* The host hears at most one outcome of a receipt, unless the guardian gave up on a coordinator
   that was only late; and a receipt a caller was given has its outcome once the root has ended,
   unless the end fell in the middle of reporting outcomes: whatever the two processes do, and
   wherever crashed/1 or an exit cuts them (root_guardian.ex, outcome/4 of root_process.ex). *)
THEOREM OutcomesAreAccounted == Spec => []OutcomesAccounted
<1>1. IInv => OutcomesAccounted
  <2> SUFFICES ASSUME IInv PROVE OutcomesAccounted
    OBVIOUS
  <2>1. TypeOK /\ Phases /\ Ends /\ Once /\ Owed
    BY DEF IInv
  <2>2. AtMostOneOutcome
    BY <2>1 DEF Once, AtMostOneOutcome
  <2>3. ASSUME Settled, ~worker.torn, NEW r \in host.given PROVE host.outcomes[r] >= 1
    <3>1. ~worker.alive /\ guardian.phase = "idle" /\ IsTerminal(guardian)
      BY <2>3 DEF Settled
    <3>2. CASE worker.status \notin Final
      BY <2>1, <2>3, <3>1, <3>2 DEF Ends, Told
    <3>3. CASE worker.status \in Final
      <4>1. worker.live = {}
        BY <2>1, <3>3 DEF Ends, Final
      <4>2. ~Due(worker.script, r)
        BY <2>1, <3>1 DEF Phases, Due
      <4>3. Told(r)
        BY <2>1, <2>3, <4>1, <4>2 DEF Owed, Promised
      <4>4. QED BY <4>3 DEF Told
    <3>4. QED BY <3>2, <3>3
  <2>4. GivenIsAccounted
    BY <2>3 DEF GivenIsAccounted
  <2>5. QED BY <2>1, <2>2, <2>4 DEF OutcomesAccounted
<1>2. QED BY <1>1, GuardianInvariant, PTL

(* The status and the error a root ended with are never overwritten: no late checkpoint, exit
   signal or call of the guardian changes them (terminal?/1 and its uses in root_guardian.ex). *)
THEOREM TerminalRecordIsKept == Spec => TerminalIsKept
<1> DEFINE Kept == /\ guardian'.status = guardian.status
                   /\ guardian'.error = guardian.error
<1>1. ASSUME IInv, IsTerminal(guardian), [Next]_vars PROVE Kept
  <2>1. Phases /\ guardian \in Guardian
    BY <1>1, Types DEF IInv
  <2>2. CASE UNCHANGED guardian
    BY <2>2
  <2>3. CASE Coordinator
    <3>1. UNCHANGED guardian
      BY <2>3 DEF Coordinator, Boot, Admit, CancelTimer, Internal, Resolve, Fail, Close, Dispose,
                  Refuse, Handles
    <3>2. QED BY <2>2, <3>1
  <2>4. CASE Emit
    <3>1. UNCHANGED guardian
      BY <2>4 DEF Emit
    <3>2. QED BY <2>2, <3>1
  <2>5. CASE Crash
    BY <2>2, <2>5 DEF Crash
  <2>6. CASE Call \/ TakeReply \/ CallTimesOut \/ CallExits
    <3>1. guardian.phase = "waiting" => FALSE
      BY <1>1, <2>1 DEF Phases
    <3>2. ~Call /\ ~TakeReply
      BY <1>1, <3>1 DEF Call, TakeReply
    <3>3. ~CallFails
      BY <3>1 DEF CallFails
    <3>4. QED BY <2>6, <3>2, <3>3 DEF CallTimesOut, CallExits
  <2>7. CASE HandleInfo
    <3>1. CASE Head(box).kind = "exit"
      <4>1. guardian' = ExitSeen(guardian)
        BY <2>7, <3>1 DEF HandleInfo
      <4>2. guardian' = guardian \/ guardian' = [guardian EXCEPT !.known = FALSE]
        BY <1>1, <4>1 DEF ExitSeen
      <4>3. QED BY <2>1, <4>2 DEF Guardian
    <3>2. CASE Head(box).kind # "exit"
      <4>1. guardian' = Checkpoint(guardian, Head(box))
        BY <2>7, <3>2 DEF HandleInfo
      <4>2. \/ guardian' = guardian
            \/ \E work : guardian' = [guardian EXCEPT !.work = work]
        BY <1>1, <4>1 DEF Checkpoint
      <4>3. QED BY <2>1, <4>2 DEF Guardian
    <3>3. QED BY <3>1, <3>2
  <2>8. CASE CancelOne
    <3>1. \E todo : guardian' = [guardian EXCEPT !.todo = todo]
      BY <2>8 DEF CancelOne
    <3>2. QED BY <2>1, <3>1 DEF Guardian
  <2>9. CASE TellCrash
    BY <2>1, <2>9 DEF TellCrash, Guardian
  <2>10. CASE Kill
    BY <2>1, <2>10 DEF Kill, Guardian
  <2>11. CASE Terminate
    BY <2>1, <2>11 DEF Terminate, Guardian
  <2>12. CASE UNCHANGED vars
    BY <2>2, <2>12 DEF vars
  <2>13. QED BY <1>1, <2>3, <2>4, <2>5, <2>6, <2>7, <2>8, <2>9, <2>10, <2>11, <2>12 DEF Next
<1>2. IInv /\ [Next]_vars => [IsTerminal(guardian) => /\ guardian'.status = guardian.status
                                                      /\ guardian'.error = guardian.error]_vars
  BY <1>1
<1>3. QED BY <1>2, GuardianInvariant, PTL DEF Spec, TerminalIsKept

=============================================================================
